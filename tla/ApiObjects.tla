----------------------------- MODULE ApiObjects -----------------------------
(***************************************************************************)
(* The API types (api/v1alpha3, api/v1alpha4) and the code generated for   *)
(* them: the deep copies that keep a reconcile from writing into the       *)
(* informer cache, and the conversions between the two versions.           *)
(*                                                                         *)
(* The generated code is right as long as it is generated again after a    *)
(* type has changed ('Important: Run "make"', the types say).  Nothing in  *)
(* the build enforces that, so the fields are listed three times here, as  *)
(* they are in the code: in the types, in the copies, in the conversions.  *)
(*                                                                         *)
(* The content of an object is a function from its fields to values.  Its  *)
(* pointers and slices matter where two copies may share them: shared is   *)
(* the set of fields of a reconcile's copy that point into the cache.      *)
(***************************************************************************)
EXTENDS Naturals, Sequences, SequencesExt

CONSTANTS
  Values,     \* what a field can be set to
  Unset,      \* nil, an empty string, false
  MaxChanges  \* how often a field may be written

ASSUME ApiAssumptions == Unset \notin Values /\ MaxChanges \in Nat

Kinds == {"cluster", "firewall", "machine", "template"}

-----------------------------------------------------------------------------
(* The types: their fields in the order of declaration                     *)

ObjectMeta == <<"Finalizers">>

FirewallSpec == <<"Image", "MachineType", "ProviderID", "SSHKeys">>
FirewallStatus == <<"Ready">>
ClusterSpec ==
  <<"ControlPlaneEndpoint", "ProjectID", "Partition", "PublicNetworkID",
    "PrivateNetworkID">> \o FirewallSpec
ClusterStatus ==
  <<"Ready", "ControlPlaneIPAllocated", "FailureReason", "FailureMessage">>
MachineSpec == <<"Image", "MachineType", "ProviderID", "SSHKeys", "Tags">>
MachineStatus ==
  <<"Addresses", "ErrorReason", "ErrorMessage", "FailureMessage", "FailureReason",
    "InstanceStatus", "LLDP", "Ready">>
TemplateSpec == MachineSpec

\* v1alpha4, the version the controllers work with.
Hub ==
  [cluster  |-> ObjectMeta \o ClusterSpec \o ClusterStatus,
   firewall |-> ObjectMeta \o FirewallSpec \o FirewallStatus,
   machine  |-> ObjectMeta \o MachineSpec \o MachineStatus,
   template |-> ObjectMeta \o TemplateSpec]

V3FirewallSpec == <<"Image", "MachineType", "ProviderID", "SSHKeys">>
V3FirewallStatus == <<"Ready">>
V3ClusterSpec ==
  <<"ControlPlaneEndpoint", "ProjectID", "Partition", "PublicNetworkID",
    "PrivateNetworkID">> \o V3FirewallSpec
V3ClusterStatus ==
  <<"Ready", "ControlPlaneIPAllocated", "FailureReason", "FailureMessage">>
V3MachineSpec == <<"Image", "MachineType", "ProviderID", "SSHKeys", "Tags">>

\* Mutant: a field has moved in one version only.
V3MachineStatusMoved ==
  <<"Addresses", "ErrorReason", "ErrorMessage", "FailureReason", "FailureMessage",
    "InstanceStatus", "LLDP", "Ready">>
V3MachineStatus ==
  <<"Addresses", "ErrorReason", "ErrorMessage", "FailureMessage", "FailureReason",
    "InstanceStatus", "LLDP", "Ready">>
V3TemplateSpec == V3MachineSpec

\* v1alpha3, the version before it.
Spoke ==
  [cluster  |-> ObjectMeta \o V3ClusterSpec \o V3ClusterStatus,
   firewall |-> ObjectMeta \o V3FirewallSpec \o V3FirewallStatus,
   machine  |-> ObjectMeta \o V3MachineSpec \o V3MachineStatus,
   template |-> ObjectMeta \o V3TemplateSpec]

Fields(kind) == ToSet(Hub[kind])

\* The fields that are pointers or slices.
FirewallReferences == {"ProviderID", "SSHKeys"}
ClusterReferences ==
  {"PrivateNetworkID", "FailureReason", "FailureMessage"} \cup FirewallReferences
MachineSpecReferences == {"ProviderID", "SSHKeys", "Tags"}
MachineReferences ==
  {"Addresses", "ErrorReason", "ErrorMessage", "FailureMessage", "FailureReason",
   "InstanceStatus"} \cup MachineSpecReferences

References ==
  [cluster  |-> {"Finalizers"} \cup ClusterReferences,
   firewall |-> {"Finalizers"} \cup FirewallReferences,
   machine  |-> {"Finalizers"} \cup MachineReferences,
   template |-> {"Finalizers"} \cup MachineSpecReferences]

-----------------------------------------------------------------------------
(* The generated code                                                      *)

\* What DeepCopyInto allocates anew; `*out = *in` copies the pointer otherwise.
\* Mutant: the keys were added to the type, and the copies not generated again.
FirewallSpecCopiedBefore == {"ProviderID"}
FirewallSpecCopied == {"ProviderID", "SSHKeys"}
ClusterCopied ==
  {"PrivateNetworkID", "FailureReason", "FailureMessage"} \cup FirewallSpecCopied
MachineSpecCopied == {"ProviderID", "SSHKeys", "Tags"}
MachineCopied ==
  {"Addresses", "ErrorReason", "ErrorMessage", "FailureMessage", "FailureReason",
   "InstanceStatus"} \cup MachineSpecCopied
ObjectMetaCopied == {"Finalizers"}

DeepCopied ==
  [cluster  |-> ObjectMetaCopied \cup ClusterCopied,
   firewall |-> ObjectMetaCopied \cup FirewallSpecCopied,
   machine  |-> ObjectMetaCopied \cup MachineCopied,
   template |-> ObjectMetaCopied \cup MachineSpecCopied]

\* The fields a copy shares with its original.  Mutant: the copy is the original.
AllShared(kind) == Fields(kind)
Shared(kind) == References[kind] \ DeepCopied[kind]

\* The fields the conversions assign, the same ones in both directions.
FirewallSpecConverted == {"Image", "MachineType", "ProviderID", "SSHKeys"}
FirewallConverted == FirewallSpecConverted \cup {"Ready"}
ClusterSpecConverted ==
  {"ControlPlaneEndpoint", "ProjectID", "Partition", "PublicNetworkID",
   "PrivateNetworkID"} \cup FirewallSpecConverted
ClusterConverted ==
  ClusterSpecConverted
    \cup {"Ready", "ControlPlaneIPAllocated", "FailureReason", "FailureMessage"}

\* Mutant: the conversions were generated before machines had tags.
MachineSpecConvertedBefore == {"Image", "MachineType", "ProviderID", "SSHKeys"}
MachineSpecConverted == {"Image", "MachineType", "ProviderID", "SSHKeys", "Tags"}
MachineConverted ==
  MachineSpecConverted
    \cup {"Addresses", "ErrorReason", "ErrorMessage", "FailureMessage",
          "FailureReason", "InstanceStatus", "LLDP", "Ready"}

Converted ==
  [cluster  |-> ToSet(ObjectMeta) \cup ClusterConverted,
   firewall |-> ToSet(ObjectMeta) \cup FirewallConverted,
   machine  |-> ToSet(ObjectMeta) \cup MachineConverted,
   template |-> ToSet(ObjectMeta) \cup MachineSpecConverted]

\* One object: field by field, by name.
Convert(kind, version, content) ==
  [f \in ToSet(version[kind]) |-> IF f \in Converted[kind] THEN content[f] ELSE Unset]

\* The items of a list: the memory is reinterpreted, field by field by position.
\* A list of clusters is converted item by item.
Cast(kind, from, to, content) ==
  [f \in ToSet(to[kind]) |->
     content[from[kind][CHOOSE i \in DOMAIN to[kind] : to[kind][i] = f]]]

ConvertItem(kind, from, to, content) ==
  IF kind = "cluster" THEN Convert(kind, to, content) ELSE Cast(kind, from, to, content)

-----------------------------------------------------------------------------
(* A reconcile and the informer cache                                      *)

VARIABLES
  kind,         \* the kind of the object
  seen,         \* what the informer decoded last
  cache,        \* the object in the cache
  reconciling,  \* a reconcile holds a copy of it
  obj,          \* that copy
  shared,       \* the fields of the copy that point into the cache
  changes       \* how many fields have been written

vars == <<kind, seen, cache, reconciling, obj, shared, changes>>

Contents == [Fields(kind) -> Values \cup {Unset}]

TypeOK ==
  /\ kind \in Kinds
  /\ seen \in Contents
  /\ cache \in Contents
  /\ reconciling \in BOOLEAN
  /\ obj \in Contents
  /\ shared \subseteq References[kind]
  /\ changes \in 0..MaxChanges

Init ==
  /\ kind \in Kinds
  /\ \E v \in Values \cup {Unset} : seen = [f \in Fields(kind) |-> v]
  /\ cache = seen
  /\ reconciling = FALSE
  /\ obj = seen
  /\ shared = {}
  /\ changes = 0

Change == changes < MaxChanges /\ changes' = changes + 1

\* The informer decodes the object anew: whoever holds the old one keeps it.
Decode ==
  /\ Change
  /\ \E f \in Fields(kind), v \in Values \cup {Unset} : seen' = [seen EXCEPT ![f] = v]
  /\ cache' = seen'
  /\ shared' = {}
  /\ UNCHANGED <<kind, reconciling, obj>>

\* Client.Get copies the object out of the cache.
Get ==
  /\ ~reconciling /\ kind # "template"
  /\ reconciling' = TRUE
  /\ obj' = cache
  /\ shared' = Shared(kind)
  /\ UNCHANGED <<kind, seen, cache, changes>>

\* The fields a controller sets, each to a new pointer or slice.
Assigned ==
  [cluster  |-> {"Finalizers", "PrivateNetworkID", "ControlPlaneEndpoint", "Ready",
                 "ControlPlaneIPAllocated", "FailureReason", "FailureMessage"},
   firewall |-> {"Finalizers", "ProviderID", "Ready"},
   machine  |-> {"Finalizers", "ProviderID", "Addresses", "Ready", "FailureReason",
                 "FailureMessage"},
   template |-> {}]

Assign ==
  /\ reconciling
  /\ Change
  /\ \E f \in Assigned[kind], v \in Values :
       /\ obj' = [obj EXCEPT ![f] = v]
       /\ shared' = shared \ {f}
  /\ UNCHANGED <<kind, seen, cache, reconciling>>

\* A write through the pointers and slices of the copy.
Write(fields, new) ==
  /\ obj' = [f \in Fields(kind) |->
               IF f \in fields /\ obj[f] # Unset THEN new[f] ELSE obj[f]]
  /\ cache' = [f \in Fields(kind) |->
                 IF f \in fields \cap shared /\ obj[f] # Unset THEN new[f] ELSE cache[f]]

\* controllerutil.RemoveFinalizer moves the finalizers up within their slice.
RemoveFinalizer ==
  /\ reconciling
  /\ Change
  /\ \E v \in Values : Write({"Finalizers"}, [f \in {"Finalizers"} |-> v])
  /\ UNCHANGED <<kind, seen, reconciling, shared>>

\* The new firewall takes over the pointer and the slice of the cluster's
\* firewallSpec, and Create decodes the answer of the API server into them.
CreateFirewall ==
  /\ reconciling /\ kind = "cluster"
  /\ Change
  /\ \E answer \in [FirewallReferences -> Values] : Write(FirewallReferences, answer)
  /\ UNCHANGED <<kind, seen, reconciling, shared>>

Return ==
  /\ reconciling
  /\ reconciling' = FALSE
  /\ obj' = cache
  /\ shared' = {}
  /\ UNCHANGED <<kind, seen, cache, changes>>

Next == Decode \/ Get \/ Assign \/ RemoveFinalizer \/ CreateFirewall \/ Return

Spec == Init /\ [][Next]_vars

-----------------------------------------------------------------------------
(* Properties                                                              *)

\* Nothing a reconcile writes reaches the informer cache, which every other
\* reconcile reads and which no one would correct before the next event.
CacheIntact == cache = seen

\* An object that is read and written back in version v1alpha3 loses nothing.
RoundTrip == Convert(kind, Hub, Convert(kind, Spoke, cache)) = cache

\* An object looks the same in a list as it does on its own, in both versions.
ListsAgree ==
  LET old == Convert(kind, Spoke, cache)
  IN  /\ ConvertItem(kind, Hub, Spoke, cache) = old
      /\ ConvertItem(kind, Spoke, Hub, old) = Convert(kind, Hub, old)
=============================================================================
