-------------------------- MODULE ApiObjectsProofs --------------------------
(***************************************************************************)
(* Theorems about the API types, whatever the values and however many of   *)
(* them are written: no reconcile writes into the informer cache, and an   *)
(* object comes back from a conversion as it was.  The first rests on the  *)
(* list of each deep copy, which names every pointer and slice of its      *)
(* type, the second on the list of each conversion, which names every      *)
(* field, and on the two versions that declare them in the same order.     *)
(***************************************************************************)
EXTENDS ApiObjects, TLAPS

-----------------------------------------------------------------------------
(* The informer cache                                                      *)

\* The copy of the reconcile shares nothing with the cache.
Apart ==
  /\ kind \in Kinds
  /\ cache \in [Fields(kind) -> Values \cup {Unset}]
  /\ shared = {}
  /\ CacheIntact

\* The deep copies allocate every pointer and every slice anew.
LEMMA NothingShared == ASSUME NEW k \in Kinds PROVE Shared(k) = {}
<1>1. CASE k = "cluster"
  BY <1>1 DEF Shared, References, DeepCopied, ObjectMetaCopied, ClusterReferences,
              FirewallReferences, ClusterCopied, FirewallSpecCopied
<1>2. CASE k = "firewall"
  BY <1>2 DEF Shared, References, DeepCopied, ObjectMetaCopied, FirewallReferences,
              FirewallSpecCopied
<1>3. CASE k = "machine"
  BY <1>3 DEF Shared, References, DeepCopied, ObjectMetaCopied, MachineReferences,
              MachineSpecReferences, MachineCopied, MachineSpecCopied
<1>4. CASE k = "template"
  BY <1>4 DEF Shared, References, DeepCopied, ObjectMetaCopied, MachineSpecReferences,
              MachineSpecCopied
<1> QED BY <1>1, <1>2, <1>3, <1>4 DEF Kinds

\* A write through a copy that shares nothing leaves the cache alone.
LEMMA WriteApart ==
  ASSUME Apart, NEW fields, NEW new, Write(fields, new)
  PROVE  cache' = cache
<1>1. cache' = [f \in Fields(kind) |-> cache[f]]
  BY DEF Apart, Write
<1> QED BY <1>1 DEF Apart

LEMMA StartsApart == Init => Apart
  BY DEF Init, Apart, CacheIntact

LEMMA StaysApart == Apart /\ [Next]_vars => Apart'
<1> SUFFICES ASSUME Apart, [Next]_vars PROVE Apart'
  OBVIOUS
<1>1. CASE Decode
  <2>1. PICK f \in Fields(kind), v \in Values \cup {Unset} : seen' = [seen EXCEPT ![f] = v]
    BY <1>1 DEF Decode
  <2>2. cache' \in [Fields(kind) -> Values \cup {Unset}]
    BY <1>1, <2>1 DEF Decode, Apart, CacheIntact
  <2> QED BY <1>1, <2>2 DEF Decode, Apart, CacheIntact, Fields
<1>2. CASE Get
  BY <1>2, NothingShared DEF Get, Apart, CacheIntact, Fields
<1>3. CASE Assign
  BY <1>3 DEF Assign, Apart, CacheIntact, Fields
<1>4. CASE RemoveFinalizer
  BY <1>4, WriteApart DEF RemoveFinalizer, Apart, CacheIntact, Fields
<1>5. CASE CreateFirewall
  BY <1>5, WriteApart DEF CreateFirewall, Apart, CacheIntact, Fields
<1>6. CASE Return
  BY <1>6 DEF Return, Apart, CacheIntact, Fields
<1>7. CASE UNCHANGED vars
  BY <1>7 DEF vars, Apart, CacheIntact, Fields
<1> QED BY <1>1, <1>2, <1>3, <1>4, <1>5, <1>6, <1>7 DEF Next

\* The cache holds what the informer decoded: no step of a reconcile, writes through
\* the pointers of its copy included, changes it.
THEOREM CacheIsolated == Spec => []CacheIntact
<1>1. Apart => CacheIntact
  BY DEF Apart
<1> QED BY StartsApart, StaysApart, <1>1, PTL DEF Spec

\* A write changes fields to values, in the copy as in the cache.
LEMMA WriteTyped ==
  ASSUME obj \in Contents, NEW fields, NEW new \in [fields -> Values \cup {Unset}],
         Write(fields, new)
  PROVE  obj' \in [Fields(kind) -> Values \cup {Unset}]
BY DEF Write, Contents

LEMMA Typed == Apart /\ TypeOK /\ [Next]_vars => TypeOK'
<1> SUFFICES ASSUME Apart, TypeOK, [Next]_vars PROVE TypeOK'
  OBVIOUS
<1>1. Apart'
  BY StaysApart
<1>2. kind' \in Kinds /\ cache' \in Contents' /\ seen' \in Contents' /\ shared' \subseteq References[kind]'
  BY <1>1 DEF Apart, CacheIntact, Contents
<1>3. UNCHANGED kind
  BY DEF Next, Decode, Get, Assign, RemoveFinalizer, CreateFirewall, Return, vars
<1>4. reconciling' \in BOOLEAN
  BY DEF TypeOK, Next, Decode, Get, Assign, RemoveFinalizer, CreateFirewall, Return, vars
<1>5. changes' \in 0..MaxChanges
  <2>1. UNCHANGED changes \/ Change
    BY DEF Next, Decode, Get, Assign, RemoveFinalizer, CreateFirewall, Return, vars
  <2>2. QED
    BY <2>1, ApiAssumptions DEF ApiAssumptions, Change, TypeOK
<1>6. obj' \in [Fields(kind) -> Values \cup {Unset}]
  <2>1. CASE Decode \/ UNCHANGED vars
    BY <2>1 DEF Decode, vars, TypeOK, Contents
  <2>2. CASE Get \/ Return
    BY <2>2 DEF Get, Return, TypeOK, Contents
  <2>3. CASE Assign
    <3>1. PICK f \in Assigned[kind], v \in Values : obj' = [obj EXCEPT ![f] = v]
      BY <2>3 DEF Assign
    <3>2. QED
      BY <3>1 DEF TypeOK, Contents
  <2>4. CASE RemoveFinalizer
    BY <2>4, WriteTyped DEF RemoveFinalizer, TypeOK
  <2>5. CASE CreateFirewall
    BY <2>5, WriteTyped DEF CreateFirewall, TypeOK
  <2>6. QED
    BY <2>1, <2>2, <2>3, <2>4, <2>5 DEF Next
<1>7. obj' \in Contents'
  BY <1>3, <1>6 DEF Contents, Fields
<1>8. QED
  BY <1>2, <1>4, <1>5, <1>7 DEF TypeOK

\* Every variable keeps its type: a field of an object is set to a value or unset,
\* whoever writes it and through whatever pointer.
THEOREM TypeCorrect == Spec => []TypeOK
<1>1. Init => TypeOK
  <2> SUFFICES ASSUME Init PROVE TypeOK
    OBVIOUS
  <2>1. PICK v \in Values \cup {Unset} : seen = [f \in Fields(kind) |-> v]
    BY DEF Init
  <2>2. seen \in Contents
    BY <2>1 DEF Contents
  <2>3. 0 \in 0..MaxChanges
    BY ApiAssumptions DEF ApiAssumptions
  <2>4. QED
    BY <2>2, <2>3 DEF Init, TypeOK
<1>2. QED
  BY <1>1, StartsApart, StaysApart, Typed, PTL DEF Spec

-----------------------------------------------------------------------------
(* The conversions                                                         *)

\* A list of fields.
Listed(s) == s \in Seq(ToSet(s))

\* Two lists put together name the fields that either of them names.
LEMMA Joined ==
  ASSUME NEW s, NEW t, Listed(s), Listed(t)
  PROVE  Listed(s \o t) /\ ToSet(s \o t) = ToSet(s) \cup ToSet(t)
<1> DEFINE S == ToSet(s) \cup ToSet(t)
<1>1. s \in Seq(S) /\ t \in Seq(S)
  <2>1. ToSet(s) \subseteq S /\ ToSet(t) \subseteq S
    OBVIOUS
  <2> HIDE DEF S
  <2>2. QED
    BY <2>1 DEF Listed
<1>2. ToSet(s \o t) = S
  <2>1. ASSUME NEW i \in 1..Len(s \o t) PROVE (s \o t)[i] \in S
    <3>1. i \in 1..Len(s) => (s \o t)[i] = s[i]
      BY <1>1
    <3>2. i \notin 1..Len(s) => i - Len(s) \in 1..Len(t) /\ (s \o t)[i] = t[i - Len(s)]
      BY <1>1
    <3>3. QED
      BY <1>1, <3>1, <3>2 DEF ToSet
  <2>2. ASSUME NEW i \in 1..Len(s) PROVE s[i] \in ToSet(s \o t)
    <3>1. i \in 1..Len(s \o t) /\ (s \o t)[i] = s[i]
      BY <1>1
    <3>2. QED
      BY <1>1, <3>1 DEF ToSet
  <2>3. ASSUME NEW i \in 1..Len(t) PROVE t[i] \in ToSet(s \o t)
    <3>1. Len(s) + i \in 1..Len(s \o t) /\ (s \o t)[Len(s) + i] = t[i]
      BY <1>1
    <3>2. QED
      BY <1>1, <3>1 DEF ToSet
  <2>4. s \o t \in Seq(S)
    <3> HIDE DEF S
    <3>1. QED
      BY <1>1
  <2>5. ToSet(s \o t) \subseteq S
    <3> HIDE DEF S
    <3>1. QED
      BY <2>1, <2>4 DEF ToSet
  <2>6. ToSet(s) \subseteq ToSet(s \o t)
    BY <1>1, <2>2 DEF ToSet
  <2>7. ToSet(t) \subseteq ToSet(s \o t)
    BY <1>1, <2>3 DEF ToSet
  <2>8. QED
    BY <2>5, <2>6, <2>7
<1>3. s \o t \in Seq(S)
  <2> HIDE DEF S
  <2>1. QED
    BY <1>1
<1>4. QED
  BY <1>2, <1>3 DEF Listed

\* The two versions declare the same fields in the same order.
LEMMA SameTypes == Spoke = Hub
BY DEF Spoke, Hub, V3ClusterSpec, ClusterSpec, V3FirewallSpec, FirewallSpec, V3ClusterStatus,
       ClusterStatus, V3FirewallStatus, FirewallStatus, V3MachineSpec, MachineSpec,
       V3MachineStatus, MachineStatus, V3TemplateSpec, TemplateSpec

\* What the types list of each part.
LEMMA Parts ==
  /\ Listed(ObjectMeta) /\ ToSet(ObjectMeta) = {"Finalizers"}
  /\ Listed(FirewallSpec) /\ ToSet(FirewallSpec) = FirewallSpecConverted
  /\ Listed(FirewallStatus) /\ ToSet(FirewallStatus) = {"Ready"}
  /\ Listed(MachineSpec) /\ ToSet(MachineSpec) = MachineSpecConverted
<1>1. Listed(ObjectMeta) /\ ToSet(ObjectMeta) = {"Finalizers"}
  BY DEF Listed, ObjectMeta, ToSet
<1>2. Listed(FirewallSpec) /\ ToSet(FirewallSpec) = FirewallSpecConverted
  BY DEF Listed, FirewallSpec, ToSet, FirewallSpecConverted
<1>3. Listed(FirewallStatus) /\ ToSet(FirewallStatus) = {"Ready"}
  BY DEF Listed, FirewallStatus, ToSet
<1>4. Listed(MachineSpec) /\ ToSet(MachineSpec) = MachineSpecConverted
  BY DEF Listed, MachineSpec, ToSet, MachineSpecConverted
<1>5. QED
  BY <1>1, <1>2, <1>3, <1>4

\* The conversions assign every field of the types.
LEMMA AllConverted == ASSUME NEW k \in Kinds PROVE ToSet(Hub[k]) \subseteq Converted[k]
<1>1. CASE k = "cluster"
  <2> DEFINE own == <<"ControlPlaneEndpoint", "ProjectID", "Partition", "PublicNetworkID",
                      "PrivateNetworkID">>
  <2>1. Listed(own) /\ ToSet(own) = {"ControlPlaneEndpoint", "ProjectID", "Partition",
                                     "PublicNetworkID", "PrivateNetworkID"}
    BY DEF Listed, ToSet
  <2>2. Listed(ClusterSpec) /\ ToSet(ClusterSpec) = ClusterSpecConverted
    <3>1. ClusterSpec = own \o FirewallSpec
      BY DEF ClusterSpec
    <3> HIDE DEF own
    <3>2. QED
      BY <2>1, <3>1, Parts, Joined DEF ClusterSpecConverted
  <2>3. /\ Listed(ClusterStatus)
        /\ ToSet(ClusterStatus) = {"Ready", "ControlPlaneIPAllocated", "FailureReason",
                                   "FailureMessage"}
    BY DEF Listed, ClusterStatus, ToSet
  <2>4. /\ Listed(ObjectMeta \o ClusterSpec)
        /\ ToSet(ObjectMeta \o ClusterSpec) = ToSet(ObjectMeta) \cup ClusterSpecConverted
    BY <2>2, Parts, Joined
  <2>5. ToSet(ObjectMeta \o ClusterSpec \o ClusterStatus) = ToSet(ObjectMeta) \cup ClusterConverted
    BY <2>3, <2>4, Joined DEF ClusterConverted
  <2>6. QED
    BY <1>1, <2>5 DEF Hub, Converted
<1>2. CASE k = "firewall"
  <2>1. /\ Listed(ObjectMeta \o FirewallSpec)
        /\ ToSet(ObjectMeta \o FirewallSpec) = ToSet(ObjectMeta) \cup FirewallSpecConverted
    BY Parts, Joined
  <2>2. ToSet(ObjectMeta \o FirewallSpec \o FirewallStatus) = ToSet(ObjectMeta) \cup FirewallConverted
    BY <2>1, Parts, Joined DEF FirewallConverted
  <2>3. QED
    BY <1>2, <2>2 DEF Hub, Converted
<1>3. CASE k = "machine"
  <2>1. /\ Listed(MachineStatus)
        /\ ToSet(MachineStatus) = {"Addresses", "ErrorReason", "ErrorMessage", "FailureMessage",
                                   "FailureReason", "InstanceStatus", "LLDP", "Ready"}
    BY DEF Listed, MachineStatus, ToSet
  <2>2. /\ Listed(ObjectMeta \o MachineSpec)
        /\ ToSet(ObjectMeta \o MachineSpec) = ToSet(ObjectMeta) \cup MachineSpecConverted
    BY Parts, Joined
  <2>3. ToSet(ObjectMeta \o MachineSpec \o MachineStatus) = ToSet(ObjectMeta) \cup MachineConverted
    BY <2>1, <2>2, Joined DEF MachineConverted
  <2>4. QED
    BY <1>3, <2>3 DEF Hub, Converted
<1>4. CASE k = "template"
  <2>1. ToSet(ObjectMeta \o MachineSpec) = ToSet(ObjectMeta) \cup MachineSpecConverted
    BY Parts, Joined
  <2>2. QED
    BY <1>4, <2>1 DEF Hub, Converted, TemplateSpec
<1>5. QED
  BY <1>1, <1>2, <1>3, <1>4 DEF Kinds

\* Each conversion of an object keeps every field of it.
LEMMA ConvertKeeps ==
  ASSUME NEW k \in Kinds, NEW content, content = [f \in Fields(k) |-> content[f]]
  PROVE  Convert(k, Hub, content) = content /\ Convert(k, Spoke, content) = content
<1>1. Convert(k, Hub, content) = content
  BY AllConverted DEF Convert, Fields
<1>2. Convert(k, Spoke, content) = Convert(k, Hub, content)
  BY SameTypes DEF Convert
<1>3. QED
  BY <1>1, <1>2

\* So does the reinterpretation of its memory: a field is found where it was put.
LEMMA CastKeeps ==
  ASSUME NEW k \in Kinds, NEW content, content = [f \in Fields(k) |-> content[f]]
  PROVE  Cast(k, Hub, Spoke, content) = content /\ Cast(k, Spoke, Hub, content) = content
<1>1. ASSUME NEW f \in Fields(k)
      PROVE  Hub[k][CHOOSE i \in DOMAIN Hub[k] : Hub[k][i] = f] = f
  <2>1. \E i \in DOMAIN Hub[k] : Hub[k][i] = f
    BY DEF Fields, ToSet
  <2>2. QED
    BY <2>1
<1>2. Cast(k, Hub, Hub, content) = [f \in Fields(k) |-> content[f]]
  BY <1>1 DEF Cast, Fields
<1>3. QED
  BY <1>2, SameTypes

\* An object that is read and written back in the version before this one loses nothing.
THEOREM NothingLost == Spec => []RoundTrip
<1>1. Apart => RoundTrip
  BY ConvertKeeps DEF Apart, RoundTrip
<1>2. QED
  BY <1>1, StartsApart, StaysApart, PTL DEF Spec

\* An object looks the same in a list as on its own: the memory of the items is
\* reinterpreted, and the two versions lay it out alike.
THEOREM ListsSame == Spec => []ListsAgree
<1>1. Apart => ListsAgree
  BY ConvertKeeps, CastKeeps DEF Apart, ListsAgree, ConvertItem
<1>2. QED
  BY <1>1, StartsApart, StaysApart, PTL DEF Spec
=============================================================================
