------------------------ MODULE MetalStackFirewallProofs ------------------------
(***************************************************************************)
(* Theorems about the MetalStackFirewall controller, for every set of      *)
(* machines, whoever competes for them, and every number of faults.        *)
(***************************************************************************)
EXTENDS MetalStackFirewall, Counting, TLAPS

Labels == {"idle", "MachineGet", "FirewallGet", "createRawMachine",
           "FirewallFind", "MachineDelete", "patch"}

States == {"waiting", "deployed", "free", "foreign"}

\* What a reconcile holds when none is in flight.
LEMMA BlankTyped == Blank \in FirewallObject /\ ~Blank.deleting
  BY DEF Blank, NewFirewall, FirewallObject, ProviderIDs

\* The fault budget is never overdrawn.
LEMMA FaultTyped ==
  ASSUME TypeOK, NEW kind, Fault(kind)
  PROVE  faults' \in FaultLog(MaxFaults)
<1>1. kind \in FaultKinds /\ MaxFaults \in Nat
  BY FirewallAssumptions DEF Fault, FirewallAssumptions
<1>2. faults \in [count: 0..MaxFaults, kinds: SUBSET FaultKinds] /\ faults.count < MaxFaults
  BY DEF TypeOK, Fault, FaultLog
<1>3. /\ faults.count + 1 \in 0..MaxFaults
      /\ faults.kinds \cup {kind} \in SUBSET FaultKinds
  BY <1>1, <1>2
<1>4. QED
  BY <1>3 DEF Fault, Struck, FaultLog

\* A restart of the manager keeps the types.
LEMMA RestartTyped ==
  ASSUME TypeOK, Restart, firewall' \in FirewallObject
  PROVE  /\ pc' \in Labels /\ before' \in FirewallObject /\ obj' \in FirewallObject
         /\ again' \in BOOLEAN /\ cached' \in FirewallObject /\ queued' \in BOOLEAN
  BY BlankTyped DEF TypeOK, Restart, Labels

\* The patch merges the finalizer and the provider ID, and the object is gone
\* with its last finalizer.
LEMMA PatchedFields ==
  ASSUME TypeOK
  PROVE  /\ Patched \in FirewallObject
         /\ Patched.deleting = firewall.deleting
         /\ Patched.finalizer = Merged(firewall.finalizer, before.finalizer, obj.finalizer)
         /\ Patched.providerID = Merged(firewall.providerID, before.providerID, obj.providerID)
         /\ Patched.exists = (~Patched.deleting \/ Patched.finalizer)
<1> DEFINE finalizer == Merged(firewall.finalizer, before.finalizer, obj.finalizer)
           id == Merged(firewall.providerID, before.providerID, obj.providerID)
           o == [firewall EXCEPT !.finalizer = finalizer, !.providerID = id]
<1>1. finalizer \in BOOLEAN /\ id \in ProviderIDs /\ firewall \in FirewallObject
  BY DEF TypeOK, Merged, FirewallObject
<1>2. Patched = [o EXCEPT !.exists = ~o.deleting \/ o.finalizer]
  BY DEF Patched
<1>3. /\ o \in FirewallObject /\ o.deleting = firewall.deleting
      /\ o.finalizer = finalizer /\ o.providerID = id
  <2> HIDE DEF finalizer, id
  <2>1. QED
    BY <1>1 DEF FirewallObject
<1>4. QED
  <2> HIDE DEF o
  <2>1. (~o.deleting \/ o.finalizer) \in BOOLEAN
    OBVIOUS
  <2>2. QED
    BY <1>2, <1>3, <2>1 DEF FirewallObject

\* The initial states are typed.
LEMMA InitTyped == Init => TypeOK
<1> SUFFICES ASSUME Init PROVE TypeOK
  OBVIOUS
<1>1. firewall \in FirewallObject
  BY DEF Init, NewFirewall, FirewallObject
<1>2. machines \in [Machines -> Own \cup {"free", "foreign"}]
  BY DEF Init
<1>3. faults \in FaultLog(MaxFaults)
  BY FirewallAssumptions DEF Init, NoFault, FaultLog, FirewallAssumptions
<1>4. QED
  BY <1>1, <1>2, <1>3, BlankTyped DEF Init, TypeOK

\* A step of the reconcile keeps the types.
LEMMA ControllerTyped == TypeOK /\ Controller => TypeOK'
<1> SUFFICES ASSUME TypeOK, Controller PROVE TypeOK'
  OBVIOUS
<1> USE DEF world, local, Goto, Return
<1>0. \A o \in FirewallObject :
        /\ \A b \in BOOLEAN : /\ [o EXCEPT !.finalizer = b] \in FirewallObject
                              /\ [o EXCEPT !.ready = b] \in FirewallObject
        /\ \A m \in Machines : [o EXCEPT !.providerID = m] \in FirewallObject
  BY DEF FirewallObject, ProviderIDs
<1>1. CASE Reconcile
  <2>1. before' \in FirewallObject /\ obj' \in FirewallObject
    BY <1>0, <1>1 DEF Reconcile, TypeOK
  <2>2. pc' \in Labels /\ again' \in BOOLEAN /\ queued' \in BOOLEAN
    BY <1>1 DEF Reconcile, TypeOK, Labels
  <2>3. faults' \in FaultLog(MaxFaults)
    BY <1>1, FaultTyped DEF Reconcile, TypeOK
  <2>4. QED
    BY <1>1, <2>1, <2>2, <2>3 DEF Reconcile, TypeOK, Labels
<1>2. CASE MachineGet
  BY <1>2 DEF MachineGet, TypeOK
<1>3. CASE FirewallGet
  <2>1. pc' \in Labels
    BY <1>3 DEF FirewallGet, Fail, Labels
  <2>2. obj' \in FirewallObject /\ again' \in BOOLEAN
    <3>1. CASE Fail
      BY <3>1 DEF Fail, TypeOK
    <3>2. ASSUME NEW succeeded \in BOOLEAN,
                 obj' = [obj EXCEPT !.ready = succeeded], again' = ~succeeded
          PROVE  obj' \in FirewallObject /\ again' \in BOOLEAN
      <4>1. obj' \in FirewallObject
        BY <1>0, <3>2 DEF TypeOK
      <4>2. QED
        BY <3>2, <4>1
    <3>3. QED
      BY <1>3, <3>1, <3>2 DEF FirewallGet
  <2>3. QED
    BY <1>3, <2>1, <2>2 DEF FirewallGet, TypeOK, Labels
<1>4. CASE CreateRawMachine
  <2>1. obj' \in FirewallObject /\ pc' \in Labels /\ again' \in BOOLEAN
    <3>1. CASE Fail
      BY <3>1 DEF Fail, TypeOK, Labels
    <3>2. ASSUME NEW m \in Machines, Created(m), Return(TRUE)
          PROVE  obj' \in FirewallObject /\ pc' \in Labels /\ again' \in BOOLEAN
      BY <1>0, <3>2 DEF Created, TypeOK, Labels
    <3>3. QED
      BY <1>4, <3>1, <3>2 DEF CreateRawMachine
  <2>2. machines' \in [Machines -> Own \cup {"free", "foreign"}]
    BY <1>4 DEF CreateRawMachine, TypeOK, Own
  <2>3. faults' \in FaultLog(MaxFaults)
    BY <1>4, FaultTyped DEF CreateRawMachine, TypeOK
  <2>4. QED
    BY <1>4, <2>1, <2>2, <2>3 DEF CreateRawMachine, TypeOK, Labels
<1>5. CASE FirewallFind
  <2>1. obj' \in FirewallObject /\ pc' \in Labels /\ again' \in BOOLEAN
    BY <1>0, <1>5 DEF FirewallFind, LetGo, Fail, TypeOK, Labels
  <2>2. QED
    BY <1>5, <2>1 DEF FirewallFind, TypeOK, Labels
<1>6. CASE MachineDelete
  <2>1. obj' \in FirewallObject /\ pc' \in Labels /\ again' \in BOOLEAN
    BY <1>0, <1>6 DEF MachineDelete, DeleteRefused, LetGo, Fail, TypeOK, Labels
  <2>2. machines' \in [Machines -> Own \cup {"free", "foreign"}]
    BY <1>6 DEF MachineDelete, TypeOK
  <2>3. faults' \in FaultLog(MaxFaults)
    BY <1>6, FaultTyped DEF MachineDelete, TypeOK
  <2>4. QED
    BY <1>6, <2>1, <2>2, <2>3 DEF MachineDelete, TypeOK, Labels
<1>7. CASE Patch \/ Panic
  <2>1. SendPatch
    BY <1>7 DEF Patch, Panic
  <2>2. firewall' \in FirewallObject
    BY <2>1, PatchedFields DEF SendPatch, TypeOK
  <2>3. faults' \in FaultLog(MaxFaults)
    BY <2>1, FaultTyped DEF SendPatch, TypeOK
  <2>4. CASE Patch
    <3>1. /\ before' \in FirewallObject /\ obj' \in FirewallObject /\ pc' \in Labels
          /\ again' \in BOOLEAN /\ queued' \in BOOLEAN
      BY <2>4, BlankTyped DEF Patch, TypeOK, Labels
    <3>2. QED
      BY <2>2, <2>3, <2>4, <3>1 DEF Patch, TypeOK, Labels
  <2>5. CASE Panic
    BY <2>2, <2>3, <2>5, RestartTyped DEF Panic, TypeOK, Labels
  <2>6. QED
    BY <1>7, <2>4, <2>5
<1>8. QED
  BY <1>1, <1>2, <1>3, <1>4, <1>5, <1>6, <1>7 DEF Controller

\* A step of the world around the controller keeps the types.
LEMMA EnvironmentTyped == TypeOK /\ Environment => TypeOK'
<1> SUFFICES ASSUME TypeOK, Environment PROVE TypeOK'
  OBVIOUS
<1> USE DEF world, local
<1>1. CASE Crash
  BY <1>1, RestartTyped, FaultTyped DEF Crash, TypeOK, Labels
<1>2. CASE Refresh
  BY <1>2 DEF Refresh, TypeOK
<1>3. CASE NetworkRecorded \/ ClusterGone \/ KubeconfigWritten
  BY <1>3 DEF NetworkRecorded, ClusterGone, KubeconfigWritten, TypeOK
<1>4. CASE DeleteFirewall
  <2>1. firewall' \in FirewallObject
    BY <1>4 DEF DeleteFirewall, TypeOK, FirewallObject
  <2>2. QED
    BY <1>4, <2>1 DEF DeleteFirewall, TypeOK
<1>5. ASSUME NEW m \in Machines, NEW from, NEW to \in States, MachineMoves(m, from, to)
      PROVE  TypeOK'
  <2>1. machines' \in [Machines -> Own \cup {"free", "foreign"}]
    BY <1>5 DEF MachineMoves, TypeOK, Own, States
  <2>2. QED
    BY <1>5, <2>1 DEF MachineMoves, TypeOK
<1>6. Foreign \subseteq Machines
  BY FirewallAssumptions DEF FirewallAssumptions
<1>7. QED
  BY <1>1, <1>2, <1>3, <1>4, <1>5, <1>6 DEF Environment, Installed, States

LEMMA NextTyped == TypeOK /\ [Next]_vars => TypeOK'
<1> SUFFICES ASSUME TypeOK, [Next]_vars PROVE TypeOK'
  OBVIOUS
<1>1. CASE Next
  BY <1>1, ControllerTyped, EnvironmentTyped DEF Next
<1>2. CASE UNCHANGED vars
  BY <1>2 DEF vars, world, local, TypeOK
<1>3. QED
  BY <1>1, <1>2

\* Every variable keeps its type in every run of the controller.
THEOREM TypeCorrect == Spec => []TypeOK
BY InitTyped, NextTyped, PTL DEF Spec

-----------------------------------------------------------------------------
(* Whose machine is deleted                                                *)

\* What a deletion in flight has found out about its machine still holds: nobody
\* but the controller takes an own machine away.
DeletesOwn ==
  /\ pc \in {"FirewallFind", "MachineDelete"} => Parses(obj.providerID)
  /\ pc = "MachineDelete" => Found(obj.providerID)


\* The step that deletes a machine is only reached for a machine of the cluster,
\* and no step takes such a machine away behind a deletion in flight.
LEMMA DeletesOwnKept == TypeOK /\ DeletesOwn /\ [Next]_vars => DeletesOwn'
<1> SUFFICES ASSUME TypeOK, DeletesOwn, [Next]_vars PROVE DeletesOwn'
  OBVIOUS
<1> USE DEF DeletesOwn, Parses, Found, world, local, Goto, Return
<1>1. CASE Reconcile
  BY <1>1 DEF Reconcile
<1>2. CASE MachineGet
  BY <1>2 DEF MachineGet
<1>3. CASE FirewallGet
  BY <1>3 DEF FirewallGet, Fail
<1>4. CASE CreateRawMachine
  BY <1>4 DEF CreateRawMachine, Fail
<1>5. CASE FirewallFind
  BY <1>5 DEF FirewallFind, Fail, LetGo
<1>6. CASE MachineDelete
  BY <1>6 DEF MachineDelete, DeleteRefused, Fail, LetGo
<1>7. CASE Patch \/ Panic
  BY <1>7 DEF Patch, Panic, Restart
<1>8. CASE Crash
  BY <1>8 DEF Crash, Restart
<1>9. CASE Refresh \/ NetworkRecorded \/ ClusterGone \/ KubeconfigWritten \/ DeleteFirewall
  BY <1>9 DEF Refresh, NetworkRecorded, ClusterGone, KubeconfigWritten, DeleteFirewall
<1>10. ASSUME NEW m \in Machines, Installed(m)
       PROVE  DeletesOwn'
  BY <1>10 DEF Installed, MachineMoves, TypeOK, Own
<1>11. ASSUME NEW m \in Machines, MachineMoves(m, "free", "foreign") \/ MachineMoves(m, "foreign", "free")
       PROVE  DeletesOwn'
  BY <1>11 DEF MachineMoves, TypeOK, Own
<1>12. CASE UNCHANGED vars
  BY <1>12 DEF vars
<1>13. Foreign \subseteq Machines
  BY FirewallAssumptions DEF FirewallAssumptions
<1>14. QED
  BY <1>1, <1>2, <1>3, <1>4, <1>5, <1>6, <1>7, <1>8, <1>9, <1>10, <1>11, <1>12, <1>13
  DEF Next, Controller, Environment

\* The controller never deletes a machine that somebody else holds, whatever
\* provider ID a user wrote, whoever is faster at metal-API, and whichever calls
\* fail between FirewallFind and MachineDelete.
THEOREM ForeignKept == Spec => NoForeignDelete
<1>1. Init => DeletesOwn
  BY DEF Init, DeletesOwn
<1>2. DeletesOwn => [MachineDelete => machines[obj.providerID] # "foreign"]_vars
  BY DEF DeletesOwn, Found, Own, MachineDelete
<1>3. QED
  BY TypeCorrect, <1>1, <1>2, DeletesOwnKept, PTL DEF Spec, NoForeignDelete
-----------------------------------------------------------------------------
(* What a removed object leaves behind                                     *)

\* Under deletion an object is held by its finalizer.
Held == (firewall.exists /\ firewall.deleting) => firewall.finalizer

\* A reconcile in flight started from the object that is still there: nobody else
\* writes its finalizer or its provider ID.
StartedFrom ==
  pc # "idle" =>
    /\ before.finalizer = firewall.finalizer
    /\ before.providerID = firewall.providerID

\* A reconcile of an object that was not under deletion holds the finalizer.
Keeps == (pc # "idle" /\ ~before.deleting) => obj.finalizer

\* One of an object under deletion lets the finalizer go only without a machine.
Releases ==
  (pc # "idle" /\ before.deleting) =>
    /\ firewall.exists /\ firewall.deleting
    /\ pc \in {"FirewallFind", "MachineDelete", "patch"}
    /\ obj.providerID = before.providerID
    /\ ~obj.finalizer =>
         pc = "patch" /\ Parses(obj.providerID) /\ ~Found(obj.providerID)

\* Only an object under deletion is on its way to metal-API's deletion.
Deletes == pc \in {"FirewallFind", "MachineDelete"} => before.deleting

\* Once the object is gone nothing is in flight.
Gone == (~firewall.exists /\ firewall.deleting) => pc = "idle"

\* An object whose deletion is over left its machine free.
Freed ==
  (~firewall.exists /\ firewall.deleting /\ Parses(firewall.providerID))
    => machines[firewall.providerID] \notin Own

RemovalInvariant ==
  /\ TypeOK /\ DeletesOwn
  /\ Held /\ StartedFrom /\ Keeps /\ Releases /\ Deletes /\ Gone
  /\ Freed

\* Only the deferred patch writes the object's finalizer and provider ID, and it
\* leaves an object without a finalizer only after a deletion that found, or left,
\* the machine free.
LEMMA PatchReleases ==
  ASSUME RemovalInvariant, pc # "idle", firewall' = Patched
  PROVE  /\ firewall'.exists \/ (before.deleting /\ ~obj.finalizer)
         /\ firewall'.deleting = firewall.deleting
         /\ before.deleting => firewall'.providerID = obj.providerID
         /\ (firewall'.exists /\ firewall'.deleting) => firewall'.finalizer
<1> USE DEF RemovalInvariant
<1>1. /\ firewall'.finalizer = Merged(firewall.finalizer, before.finalizer, obj.finalizer)
      /\ firewall'.providerID = Merged(firewall.providerID, before.providerID, obj.providerID)
      /\ firewall'.deleting = firewall.deleting
      /\ firewall'.exists = (~firewall'.deleting \/ firewall'.finalizer)
  BY PatchedFields
<1>2. /\ before.finalizer = firewall.finalizer
      /\ before.providerID = firewall.providerID
  BY DEF StartedFrom
<1>3. firewall'.finalizer = obj.finalizer /\ firewall'.providerID = obj.providerID
  BY <1>1, <1>2 DEF Merged
<1>4. ~obj.finalizer => before.deleting
  BY DEF Keeps
<1>5. QED
  BY <1>1, <1>3, <1>4

\* A fault that has struck stays in the log.
LEMMA FaultsStay ==
  ASSUME [Next]_vars
  PROVE  faults.kinds \subseteq faults'.kinds
<1>1. faults' = faults \/ \E kind : Fault(kind)
  <2> USE DEF world, local
  <2>1. CASE Controller
    BY <2>1, ZenonT(60) DEF Controller, Reconcile, MachineGet, FirewallGet, CreateRawMachine,
      FirewallFind, MachineDelete, Patch, SendPatch, Panic
  <2>2. CASE Environment
    BY <2>2, ZenonT(60) DEF Environment, Crash, Refresh, NetworkRecorded, ClusterGone,
      KubeconfigWritten, DeleteFirewall, Installed, MachineMoves
  <2>3. QED
    BY <2>1, <2>2 DEF Next, vars
<1>2. QED
  BY <1>1 DEF Fault, Struck

\* A reconcile that started from an old copy is never forgotten.
LEMMA FreshBefore ==
  ASSUME [Next]_vars, Fresh'
  PROVE  Fresh
BY FaultsStay DEF Fresh

\* A step of the reconcile preserves the invariant unless it starts from an old
\* copy.
LEMMA RemovalController ==
  ASSUME Fresh', RemovalInvariant, Controller
  PROVE  RemovalInvariant'
<1> DEFINE Parts == Held /\ StartedFrom /\ Keeps /\ Releases /\ Deletes /\ Gone
                    /\ Freed
<1> SUFFICES Parts'
  BY ControllerTyped, DeletesOwnKept DEF RemovalInvariant, Next
<1>0. /\ TypeOK /\ DeletesOwn /\ Held /\ StartedFrom /\ Keeps /\ Releases /\ Deletes /\ Gone
      /\ Freed
  BY DEF RemovalInvariant
<1>00. \A o \in FirewallObject : \A b \in BOOLEAN :
         /\ [o EXCEPT !.finalizer = b].finalizer = b
         /\ [o EXCEPT !.finalizer = b].providerID = o.providerID
         /\ [o EXCEPT !.ready = b].finalizer = o.finalizer
         /\ [o EXCEPT !.ready = b].providerID = o.providerID
  BY DEF FirewallObject
<1> USE DEF Held, StartedFrom, Keeps, Releases, Deletes, Gone, Freed,
            world, local, Goto, Return
<1>1. CASE Reconcile
  <2>1. cached = firewall
    BY <1>1 DEF Reconcile, Fault, Struck, Fresh
  <2>2. CASE UNCHANGED local
    BY <1>0, <1>1, <2>2 DEF Reconcile
  <2>3. CASE /\ cached.exists /\ before' = cached /\ cached.deleting
             /\ obj' = cached /\ pc' \in {"FirewallFind", "patch"}
    BY <1>0, <1>1, <2>1, <2>3 DEF Reconcile
  <2>4. CASE /\ cached.exists /\ before' = cached /\ ~cached.deleting
             /\ obj' = [cached EXCEPT !.finalizer = TRUE]
             /\ pc' \in {"MachineGet", "createRawMachine"}
    BY <1>0, <1>00, <1>1, <2>1, <2>4 DEF Reconcile, TypeOK
  <2>5. QED
    BY <1>1, <2>2, <2>3, <2>4 DEF Reconcile
<1>2. CASE MachineGet
  BY <1>0, <1>2 DEF MachineGet
<1>3. CASE FirewallGet
  <2>1. obj'.finalizer = obj.finalizer
    <3>1. \/ \E succeeded \in BOOLEAN : obj' = [obj EXCEPT !.ready = succeeded]
          \/ obj' = obj
      BY <1>3 DEF FirewallGet, Fail
    <3>2. QED
      BY <1>0, <3>1 DEF TypeOK, FirewallObject
  <2>2. ~before.deleting
    BY <1>0, <1>3 DEF FirewallGet
  <2>3. pc' = "patch" /\ UNCHANGED <<firewall, machines, before>>
    BY <1>3 DEF FirewallGet, Fail
  <2>4. QED
    BY <1>0, <1>3, <2>1, <2>2, <2>3 DEF FirewallGet
<1>4. CASE CreateRawMachine
  <2>1. obj'.finalizer = obj.finalizer
    BY <1>0, <1>4 DEF CreateRawMachine, Created, Fail, TypeOK, FirewallObject
  <2>2. ~before.deleting /\ ~(~firewall.exists /\ firewall.deleting)
    BY <1>0, <1>4 DEF CreateRawMachine
  <2>3. pc' = "patch" /\ UNCHANGED <<firewall, before>>
    BY <1>4 DEF CreateRawMachine, Fail
  <2>4. QED
    BY <1>0, <1>4, <2>1, <2>2, <2>3 DEF CreateRawMachine
<1>5. CASE FirewallFind
  <2>1. pc # "idle" /\ before.deleting /\ obj.finalizer /\ firewall.exists
    BY <1>0, <1>5 DEF FirewallFind
  <2>2. UNCHANGED <<firewall, machines, before>>
    BY <1>5 DEF FirewallFind
  <2>3. CASE pc' \in {"MachineDelete", "patch"} /\ UNCHANGED obj
    BY <1>0, <1>5, <2>1, <2>2, <2>3 DEF FirewallFind
  <2>4. CASE ~Found(obj.providerID) /\ LetGo
    <3>1. ~obj'.finalizer /\ obj'.providerID = obj.providerID /\ pc' = "patch"
      BY <1>0, <1>00, <2>4 DEF LetGo, TypeOK
    <3>2. Parses(obj.providerID)
      BY <1>0, <1>5 DEF FirewallFind, DeletesOwn
    <3>3. QED
      <4>1. ~Found(obj.providerID)'
        BY <2>2, <2>4, <3>1 DEF Found
      <4>2. Parses(obj.providerID)'
        BY <3>1, <3>2 DEF Parses
      <4>3. QED
        BY <1>0, <2>1, <2>2, <3>1, <4>1, <4>2 DEF Found, Parses
  <2>5. QED
    BY <1>5, <2>3, <2>4 DEF FirewallFind, Fail
<1>6. CASE MachineDelete
  <2>1. /\ pc # "idle" /\ before.deleting /\ obj.finalizer
        /\ firewall.exists /\ Parses(obj.providerID)
    BY <1>0, <1>6 DEF MachineDelete, DeletesOwn
  <2>2. pc' = "patch" /\ UNCHANGED <<firewall, before>>
    BY <1>6 DEF MachineDelete, DeleteRefused, LetGo, Fail
  <2>3. CASE UNCHANGED obj
    BY <1>0, <1>6, <2>1, <2>2, <2>3 DEF MachineDelete
  <2>4. CASE LetGo /\ machines' = [machines EXCEPT ![obj.providerID] = "free"]
    <3>1. ~obj'.finalizer /\ obj'.providerID = obj.providerID
      BY <1>0, <1>00, <2>4 DEF LetGo, TypeOK
    <3>2. machines'[obj.providerID] = "free"
      BY <1>0, <2>1, <2>4 DEF TypeOK, Parses
    <3>3. QED
      <4>1. ~Found(obj.providerID)'
        BY <3>1, <3>2 DEF Found, Own
      <4>2. Parses(obj.providerID)'
        BY <2>1, <3>1 DEF Parses
      <4>3. QED
        BY <1>0, <2>1, <2>2, <3>1, <4>1, <4>2 DEF Found, Parses
  <2>5. QED
    BY <1>6, <2>3, <2>4 DEF MachineDelete, DeleteRefused, Fail
<1>7. CASE Patch \/ Panic
  <2>1. pc # "idle" /\ pc' = "idle" /\ UNCHANGED machines
    BY <1>7 DEF Patch, Panic, Restart
  <2>2. CASE UNCHANGED firewall
    BY <1>0, <2>1, <2>2
  <2>3. CASE firewall' = Patched
    <3>1. /\ firewall'.exists \/ (before.deleting /\ ~obj.finalizer)
          /\ before.deleting => firewall'.providerID = obj.providerID
          /\ (firewall'.exists /\ firewall'.deleting) => firewall'.finalizer
      BY <2>1, <2>3, PatchReleases
    <3>2. before.deleting /\ ~obj.finalizer => machines[obj.providerID] \notin Own
      BY <1>0, <2>1 DEF Found
    <3>3. QED
      BY <2>1, <3>1, <3>2
  <2>4. QED
    BY <1>7, <2>2, <2>3 DEF Patch, Panic, SendPatch
<1>8. QED
  BY <1>1, <1>2, <1>3, <1>4, <1>5, <1>6, <1>7 DEF Controller

\* A step of the world around the controller preserves the invariant.
LEMMA RemovalEnvironment == RemovalInvariant /\ Environment => RemovalInvariant'
<1> SUFFICES ASSUME RemovalInvariant, Environment PROVE RemovalInvariant'
  OBVIOUS
<1> DEFINE Parts == Held /\ StartedFrom /\ Keeps /\ Releases /\ Deletes /\ Gone
                    /\ Freed
<1> SUFFICES Parts'
  BY EnvironmentTyped, DeletesOwnKept DEF RemovalInvariant, Next
<1>0. /\ TypeOK /\ Held /\ StartedFrom /\ Keeps /\ Releases /\ Deletes /\ Gone
      /\ Freed
  BY DEF RemovalInvariant
<1> USE DEF Held, StartedFrom, Keeps, Releases, Deletes, Gone, Freed,
            Parses, Found, world, local
<1>1. CASE Crash
  BY <1>0, <1>1 DEF Crash, Restart
<1>2. CASE Refresh \/ NetworkRecorded \/ ClusterGone \/ KubeconfigWritten
  BY <1>0, <1>2 DEF Refresh, NetworkRecorded, ClusterGone, KubeconfigWritten
<1>3. CASE DeleteFirewall
  <2>1. /\ firewall.exists /\ ~firewall.deleting
        /\ UNCHANGED <<machines, pc, before, obj>>
    BY <1>3 DEF DeleteFirewall
  <2>2. /\ firewall'.finalizer = firewall.finalizer
        /\ firewall'.providerID = firewall.providerID
        /\ IF firewall.finalizer THEN firewall'.exists /\ firewall'.deleting
                                 ELSE ~firewall'.exists /\ ~firewall'.deleting
    BY <1>0, <1>3 DEF DeleteFirewall, TypeOK, FirewallObject
  <2>3. QED
    BY <1>0, <2>1, <2>2
<1>4. ASSUME NEW m \in Machines, NEW from \in States, NEW to \in States,
             MachineMoves(m, from, to), to \in Own => from \in Own
      PROVE  Parts'
  <2>1. \A id \in Machines : machines[id] \notin Own => machines'[id] \notin Own
    BY <1>0, <1>4 DEF MachineMoves, TypeOK
  <2>2. UNCHANGED <<firewall, pc, before, obj>>
    BY <1>4 DEF MachineMoves
  <2>3. QED
    BY <1>0, <2>1, <2>2
<1>5. Foreign \subseteq Machines
  BY FirewallAssumptions DEF FirewallAssumptions
<1>6. QED
  BY <1>1, <1>2, <1>3, <1>4, <1>5 DEF Environment, Installed, States, Own

\* The invariant holds up to the first reconcile that starts from an old copy.
FreshInvariant == Fresh => RemovalInvariant

LEMMA RemovalInvariantHolds == Spec => []FreshInvariant
<1>1. Init => FreshInvariant
  <2>1. Init => DeletesOwn
    BY DEF Init, DeletesOwn
  <2>2. Init => Held /\ Gone /\ Freed
    BY DEF Init, NewFirewall, Held, Gone, Freed
  <2>3. Init => StartedFrom /\ Keeps /\ Releases /\ Deletes
    BY DEF Init, StartedFrom, Keeps, Releases, Deletes
  <2>4. QED
    BY InitTyped, <2>1, <2>2, <2>3 DEF RemovalInvariant, FreshInvariant
<1>2. FreshInvariant /\ [Next]_vars => FreshInvariant'
  <2> SUFFICES ASSUME Fresh => RemovalInvariant, [Next]_vars, Fresh'
               PROVE  RemovalInvariant'
    BY DEF FreshInvariant
  <2>1. RemovalInvariant
    BY FreshBefore
  <2>2. CASE Next
    BY <2>1, <2>2, RemovalController, RemovalEnvironment DEF Next
  <2>3. CASE UNCHANGED vars
    BY <2>1, <2>3 DEF vars, world, local, RemovalInvariant, TypeOK, DeletesOwn, Held,
                StartedFrom, Keeps, Releases, Deletes, Gone, Freed, Found
  <2>4. QED
    BY <2>2, <2>3
<1>3. QED
  BY <1>1, <1>2, PTL DEF Spec

\* An object that is gone after a deletion leaves no machine behind, whatever calls
\* fail, answers are lost, patches fail and managers crash, while no reconcile starts
\* from an informer's copy that is behind the API server.
THEOREM RemovalFrees == Spec => []RemovalFreesMachine
<1>1. FreshInvariant => RemovalFreesMachine
  BY DEF FreshInvariant, RemovalInvariant, RemovalFreesMachine, Freed
<1>2. QED
  BY <1>1, RemovalInvariantHolds, PTL
-----------------------------------------------------------------------------
(* The controller implements Lifecycle                                     *)

\* A reconcile changes the provider ID of an object only to give it one, of a machine
\* that is allocated for the cluster and stays so until the patch.
Records ==
  pc # "idle" =>
    \/ obj.providerID = before.providerID
    \/ /\ pc = "patch"
       /\ ~Parses(before.providerID) /\ Parses(obj.providerID)
       /\ machines[obj.providerID] \in Own

LEMMA RecordsKept == TypeOK /\ Records /\ [Next]_vars => Records'
<1> SUFFICES ASSUME TypeOK, Records, [Next]_vars PROVE Records'
  OBVIOUS
<1> USE DEF Records, Parses, world, local, Goto, Return
<1>0. \A o \in FirewallObject : \A b \in BOOLEAN :
        /\ [o EXCEPT !.finalizer = b].providerID = o.providerID
        /\ [o EXCEPT !.ready = b].providerID = o.providerID
  BY DEF FirewallObject
<1>1. CASE Reconcile
  <2>1. CASE UNCHANGED local
    BY <1>1, <2>1 DEF Reconcile
  <2>2. CASE obj'.providerID = before'.providerID
    BY <2>2
  <2>3. QED
    BY <1>0, <1>1, <2>1, <2>2 DEF Reconcile, TypeOK
<1>2. CASE MachineGet
  BY <1>2 DEF MachineGet
<1>3. CASE FirewallGet
  BY <1>0, <1>3 DEF FirewallGet, Fail, TypeOK
<1>4. CASE CreateRawMachine
  <2>1. CASE UNCHANGED obj
    BY <1>4, <2>1 DEF CreateRawMachine, Fail
  <2>2. ASSUME NEW m \in Machines, Requested(m), Created(m), pc' = "patch",
               machines' = [machines EXCEPT ![m] = "waiting"]
        PROVE  Records'
    <3>1. obj'.providerID = m
      BY <2>2 DEF Created, TypeOK, FirewallObject
    <3>2. machines'[m] \in Own
      BY <2>2 DEF TypeOK, Own
    <3>3. before' = before /\ obj.providerID = before.providerID
      BY <1>4 DEF CreateRawMachine
    <3>4. QED
      BY <2>2, <3>1, <3>2, <3>3 DEF Requested
  <2>3. QED
    BY <1>4, <2>1, <2>2 DEF CreateRawMachine, Fail
<1>5. CASE FirewallFind
  BY <1>0, <1>5 DEF FirewallFind, LetGo, Fail, TypeOK
<1>6. CASE MachineDelete
  BY <1>0, <1>6 DEF MachineDelete, DeleteRefused, LetGo, Fail, TypeOK
<1>7. CASE Patch \/ Panic
  BY <1>7 DEF Patch, Panic, Restart
<1>8. CASE Crash
  BY <1>8 DEF Crash, Restart
<1>9. CASE Refresh \/ NetworkRecorded \/ ClusterGone \/ KubeconfigWritten \/ DeleteFirewall
  BY <1>9 DEF Refresh, NetworkRecorded, ClusterGone, KubeconfigWritten, DeleteFirewall
<1>10. ASSUME NEW m \in Machines, Installed(m)
       PROVE  Records'
  BY <1>10 DEF Installed, MachineMoves, TypeOK, Own
<1>11. ASSUME NEW m \in Machines, MachineMoves(m, "free", "foreign") \/ MachineMoves(m, "foreign", "free")
       PROVE  Records'
  BY <1>11 DEF MachineMoves, TypeOK, Own
<1>12. CASE UNCHANGED vars
  BY <1>12 DEF vars
<1>13. Foreign \subseteq Machines
  BY FirewallAssumptions DEF FirewallAssumptions
<1>14. QED
  BY <1>1, <1>2, <1>3, <1>4, <1>5, <1>6, <1>7, <1>8, <1>9, <1>10, <1>11, <1>12, <1>13
  DEF Next, Controller, Environment

\* The three things Lifecycle speaks of.
Object == IF ~firewall.exists THEN "gone"
          ELSE IF firewall.deleting THEN "deleting" ELSE "live"
Recording == IF Parses(firewall.providerID) THEN firewall.providerID ELSE Nil
Holding == {m \in Machines : machines[m] \in Own}

\* A step of the controller or its world is one of Lifecycle, or changes nothing there.
Step ==
  \/ Lifecycle!Next
  \/ Object' = Object /\ Recording' = Recording /\ Holding' = Holding

\* A step that leaves the object and the machines alone changes nothing there.
LEMMA Elsewhere == ASSUME UNCHANGED <<firewall, machines>> PROVE Step
  BY DEF Step, Object, Recording, Holding, Parses

LEMMA StepsOfController ==
  ASSUME RemovalInvariant, Records, Fresh, Fresh', Controller
  PROVE  Step
<1> USE DEF world, local, Goto, Return
<1>0. /\ TypeOK /\ DeletesOwn /\ Held /\ StartedFrom /\ Keeps /\ Releases /\ Deletes
  BY DEF RemovalInvariant
<1>1. CASE Reconcile \/ MachineGet \/ FirewallGet \/ FirewallFind
  BY <1>1, Elsewhere DEF Reconcile, MachineGet, FirewallGet, FirewallFind
<1>2. CASE CreateRawMachine
  <2>1. UNCHANGED firewall
    BY <1>2 DEF CreateRawMachine
  <2>2. ASSUME NEW m \in Machines, machines[m] = "free",
               machines' = [machines EXCEPT ![m] = "waiting"]
        PROVE  Lifecycle!Acquire
    <3>1. Holding' = Holding \cup {m} /\ m \in Machines \ Holding
      BY <1>0, <2>2 DEF Holding, TypeOK, Own
    <3>2. Object' = Object /\ Recording' = Recording
      BY <2>1 DEF Object, Recording, Parses
    <3>3. QED
      BY <3>1, <3>2 DEF Lifecycle!Acquire, Object, Recording, Holding
  <2>3. QED
    BY <1>2, <2>1, <2>2, Elsewhere DEF CreateRawMachine, Step, Lifecycle!Next
<1>3. CASE MachineDelete
  <2>1. UNCHANGED firewall
    BY <1>3 DEF MachineDelete
  <2>2. ASSUME machines' = [machines EXCEPT ![obj.providerID] = "free"]
        PROVE  Lifecycle!Release
    <3>1. /\ Object = "deleting" /\ obj.providerID = firewall.providerID
          /\ Parses(obj.providerID)
      BY <1>0, <1>3 DEF MachineDelete, Deletes, Releases, StartedFrom, DeletesOwn, Object
    <3>2. Recording = obj.providerID
      BY <3>1 DEF Recording
    <3>3. Holding' = Holding \ {Recording}
      BY <1>0, <2>2, <3>1, <3>2 DEF Holding, TypeOK, Own, Parses
    <3>4. Object' = Object /\ Recording' = Recording
      BY <2>1 DEF Object, Recording, Parses
    <3>5. QED
      BY <3>1, <3>3, <3>4 DEF Lifecycle!Release, Object, Recording, Holding
  <2>3. QED
    BY <1>3, <2>1, <2>2, Elsewhere DEF MachineDelete, Step, Lifecycle!Next
<1>4. CASE Patch \/ Panic
  <2>1. pc # "idle" /\ UNCHANGED machines
    BY <1>4 DEF Patch, Panic
  <2>2. CASE UNCHANGED firewall
    BY <2>1, <2>2, Elsewhere
  <2>3. CASE firewall.exists /\ firewall' = Patched
    <3>1. Holding' = Holding
      BY <2>1 DEF Holding, Own
    <3>2. /\ firewall'.finalizer = obj.finalizer
          /\ firewall'.providerID = obj.providerID
          /\ firewall'.deleting = firewall.deleting
          /\ firewall'.exists = (~firewall'.deleting \/ firewall'.finalizer)
      BY <1>0, <2>1, <2>3, PatchedFields DEF StartedFrom, Merged
    <3>3. CASE before.deleting /\ ~obj.finalizer
      <4>1. /\ firewall.deleting /\ obj.providerID = firewall.providerID
            /\ Parses(obj.providerID) /\ ~Found(obj.providerID)
        BY <1>0, <2>1, <3>3 DEF Releases, StartedFrom
      <4>2. Object = "deleting" /\ Object' = "gone"
        BY <2>3, <3>2, <3>3, <4>1 DEF Object
      <4>3. Recording' = Recording /\ Recording \notin Holding
        BY <3>2, <4>1 DEF Recording, Holding, Found, Parses
      <4>4. Lifecycle!Remove
        BY <3>1, <4>2, <4>3 DEF Lifecycle!Remove, Object, Recording, Holding
      <4>5. QED
        BY <4>4 DEF Step, Lifecycle!Next
    <3>4. CASE ~(before.deleting /\ ~obj.finalizer)
      <4>1. obj.finalizer
        BY <1>0, <2>1, <3>4 DEF Keeps
      <4>2. Object' = Object /\ Object # "gone"
        BY <2>3, <3>2, <4>1 DEF Object
      <4>3. CASE obj.providerID = before.providerID
        <5>1. firewall'.providerID = firewall.providerID
          BY <1>0, <2>1, <3>2, <4>3 DEF StartedFrom
        <5>2. QED
          BY <3>1, <4>2, <5>1 DEF Step, Recording, Parses
      <4>4. CASE obj.providerID # before.providerID
        <5>1. /\ ~Parses(firewall.providerID) /\ Parses(obj.providerID)
              /\ machines[obj.providerID] \in Own
          BY <1>0, <2>1, <4>4 DEF Records, StartedFrom
        <5>2. Recording = Nil /\ Recording' \in Holding
          BY <3>2, <5>1 DEF Recording, Holding, Parses
        <5>3. Lifecycle!Record
          BY <3>1, <4>2, <5>2 DEF Lifecycle!Record, Object, Recording, Holding
        <5>4. QED
          BY <5>3 DEF Step, Lifecycle!Next
      <4>5. QED
        BY <4>3, <4>4
    <3>5. QED
      BY <3>3, <3>4
  <2>4. QED
    BY <1>4, <2>2, <2>3 DEF Patch, Panic, SendPatch
<1>5. QED
  BY <1>1, <1>2, <1>3, <1>4 DEF Controller

LEMMA StepsOfEnvironment ==
  ASSUME RemovalInvariant, Fresh, Fresh', Environment
  PROVE  Step
<1> USE DEF world, local
<1>0. TypeOK
  BY DEF RemovalInvariant
<1>1. CASE Crash \/ Refresh \/ NetworkRecorded \/ ClusterGone \/ KubeconfigWritten
  BY <1>1, Elsewhere DEF Crash, Refresh, NetworkRecorded, ClusterGone, KubeconfigWritten
<1>2. CASE DeleteFirewall
  <2>1. Object = "live" /\ UNCHANGED machines
    BY <1>2 DEF DeleteFirewall, Object
  <2>2. firewall'.providerID = firewall.providerID /\ Object' \in {"deleting", "gone"}
    BY <1>0, <1>2 DEF DeleteFirewall, Object, TypeOK, FirewallObject
  <2>3. Recording' = Recording /\ Holding' = Holding
    BY <2>1, <2>2 DEF Recording, Holding, Parses, Own
  <2>4. Lifecycle!Delete
    BY <2>1, <2>2, <2>3 DEF Lifecycle!Delete, Object, Recording, Holding
  <2>5. QED
    BY <2>4 DEF Step, Lifecycle!Next
<1>3. ASSUME NEW m \in Machines, NEW from \in States, NEW to \in States,
             MachineMoves(m, from, to), to \in Own <=> from \in Own
      PROVE  Step
  <2>1. Holding' = Holding
    BY <1>0, <1>3 DEF MachineMoves, Holding, TypeOK
  <2>2. UNCHANGED firewall
    BY <1>3 DEF MachineMoves
  <2>3. QED
    BY <2>1, <2>2 DEF Step, Object, Recording, Parses
<1>4. Foreign \subseteq Machines
  BY FirewallAssumptions DEF FirewallAssumptions
<1>5. QED
  BY <1>1, <1>2, <1>3, <1>4 DEF Environment, Installed, States, Own

\* The firewall controller implements the specification Lifecycle: for every set of
\* machines and every number of faults, the machine on record is never replaced, is
\* given back under deletion only, and is free before the object goes.
THEOREM Implements == Spec => KeepsMachine
<1>1. Init => Lifecycle!Init
  <2>1. Init => Object = "live" /\ Recording \in Machines \cup {Nil}
    BY DEF Init, NewFirewall, Object, Recording, Parses
  <2>2. Holding \in SUBSET Machines
    BY DEF Holding
  <2>3. Init => Fresh
    BY DEF Init, NoFault, Fresh
  <2>4. QED
    BY <2>1, <2>2, <2>3 DEF Lifecycle!Init, Object, Recording, Holding
<1>2. Init => Records
  BY DEF Init, Records
<1>3. /\ FreshInvariant /\ Records /\ [Next]_vars
      => [Lifecycle!Next \/ (~Fresh)']_(Lifecycle!lifecycle)
  <2> SUFFICES ASSUME FreshInvariant, Records, [Next]_vars, Fresh'
               PROVE  Lifecycle!Next \/ UNCHANGED Lifecycle!lifecycle
    OBVIOUS
  <2>1. Fresh /\ RemovalInvariant
    BY FreshBefore DEF FreshInvariant
  <2>2. Step
    <3>1. CASE Next
      BY <2>1, <3>1, StepsOfController, StepsOfEnvironment DEF Next
    <3>2. CASE UNCHANGED vars
      BY <3>2, Elsewhere DEF vars
    <3>3. QED
      BY <3>1, <3>2
  <2>3. QED
    BY <2>1, <2>2 DEF Step, Lifecycle!lifecycle, Object, Recording, Holding
<1>4. QED
  BY <1>1, <1>2, <1>3, TypeCorrect, RecordsKept, RemovalInvariantHolds, PTL
  DEF Spec, KeepsMachine, Lifecycle!Spec

-----------------------------------------------------------------------------
(* Every fault costs at most one machine.  LeakBound says nothing of       *)
(* losses that are due.  The invariant, Budget, counts them with the       *)
(* machines already lost: a reconcile that works from a copy that is not   *)
(* the live object will lose one when it ends, and an object without a     *)
(* finalizer loses its machine when a user deletes it.                     *)

\* The reconcile in flight works from a copy that is not the live object.
Astray == pc # "idle" /\ (before.providerID # firewall.providerID \/ ~firewall.exists)

\* The machine of the object hangs on no finalizer, and no patch in flight adds one.
Unheld ==
  /\ firewall.exists /\ ~firewall.finalizer
  /\ Parses(firewall.providerID) /\ machines[firewall.providerID] \in Own
  /\ ~InFlight(firewall.providerID)

Risk == IF Astray THEN 1 ELSE 0
Loose == IF Unheld THEN 1 ELSE 0
Waiver == IF firewall.exists \/ firewall.deleting THEN 0 ELSE 1

Budget == Cardinality(Orphans) + Risk + Loose <= faults.count + Waiver

\* What the copies know of a deletion and of the finalizer is true of the object,
\* and only a reconcile of a deleted object that has found no machine drops the
\* finalizer.
Dropped == before.finalizer /\ ~obj.finalizer
Informed ==
  /\ before.deleting \/ cached.deleting => firewall.deleting
  /\ before.finalizer \/ cached.finalizer => firewall.finalizer \/ ~firewall.exists
  /\ Held /\ Keeps /\ Deletes
  /\ Dropped =>
       /\ pc = "patch"
       /\ obj.providerID = before.providerID
       /\ machines[obj.providerID] \notin Own

LEMMA BlankFinalizer == Blank.finalizer = FALSE /\ Blank.deleting = FALSE
  BY DEF Blank, NewFirewall

\* A patch that leaves the object in place leaves it its finalizer.
LEMMA PatchInforms ==
  ASSUME TypeOK, Informed, pc # "idle", firewall.exists
  PROVE  /\ Patched.exists => Patched.finalizer
         /\ ~Patched.exists => Dropped /\ firewall.deleting
         /\ Patched.deleting = firewall.deleting
<1>1. /\ Patched.deleting = firewall.deleting
      /\ Patched.finalizer = Merged(firewall.finalizer, before.finalizer, obj.finalizer)
      /\ Patched.exists = (~Patched.deleting \/ Patched.finalizer)
  BY PatchedFields
<1>2. /\ firewall.finalizer \in BOOLEAN /\ before.finalizer \in BOOLEAN
      /\ obj.finalizer \in BOOLEAN
  BY DEF TypeOK, FirewallObject
<1>3. ~obj.finalizer => before.deleting
  BY DEF Informed, Keeps
<1>4. before.deleting => firewall.deleting
  BY DEF Informed
<1>5. before.finalizer => firewall.finalizer
  BY DEF Informed
<1>6. firewall.deleting => firewall.finalizer
  BY DEF Informed, Held
<1>7. ~Patched.finalizer => ~obj.finalizer
  BY <1>1, <1>2, <1>5 DEF Merged
<1>8. ~Patched.exists => Dropped
  BY <1>1, <1>2, <1>6 DEF Merged, Dropped
<1>9. QED
  BY <1>1, <1>3, <1>4, <1>7, <1>8

\* No step makes a copy know what is not true.
LEMMA InformedKept ==
  ASSUME TypeOK, DeletesOwn, Records, Informed, [Next]_vars
  PROVE  Informed'
<1> USE DEF world, local, Goto, Return
<1>0. /\ firewall \in FirewallObject /\ cached \in FirewallObject /\ obj \in FirewallObject
      /\ before \in FirewallObject
  BY DEF TypeOK
<1>1. CASE Reconcile
  <2>1. CASE UNCHANGED local
    BY <1>1, <2>1 DEF Reconcile, Informed, Held, Keeps, Deletes, Dropped
  <2>2. CASE ~UNCHANGED local
    <3>1. /\ UNCHANGED <<firewall, cached, machines>> /\ before' = cached
          /\ \/ obj' = cached /\ cached.deleting
             \/ obj' = [cached EXCEPT !.finalizer = TRUE]
      BY <1>1, <2>2 DEF Reconcile
    <3>2. [cached EXCEPT !.finalizer = TRUE].finalizer = TRUE
      BY <1>0 DEF FirewallObject
    <3>0. Deletes'
      BY <1>1, <2>2, <3>1 DEF Reconcile, Deletes
    <3>3. ~Dropped' /\ Keeps'
      BY <3>1, <3>2 DEF Dropped, Keeps
    <3>4. Held'
      BY <3>1 DEF Informed, Held
    <3>5. before'.deleting \/ cached'.deleting => firewall'.deleting
      BY <3>1 DEF Informed
    <3>6. before'.finalizer \/ cached'.finalizer => firewall'.finalizer \/ ~firewall'.exists
      BY <3>1 DEF Informed
    <3>7. QED
      BY <3>0, <3>3, <3>4, <3>5, <3>6 DEF Informed
  <2>3. QED
    BY <2>1, <2>2
<1>3. CASE MachineGet
  <2>1. /\ UNCHANGED <<firewall, machines, before, obj, cached>>
        /\ pc = "MachineGet" /\ pc' \in {"createRawMachine", "FirewallGet"}
    BY <1>3 DEF MachineGet
  <2>2. ~Dropped /\ ~Dropped'
    BY <2>1 DEF Informed, Dropped
  <2>3. Held' /\ Keeps' /\ Deletes'
    BY <2>1 DEF Informed, Held, Keeps, Deletes
  <2>4. /\ before'.deleting \/ cached'.deleting => firewall'.deleting
        /\ before'.finalizer \/ cached'.finalizer => firewall'.finalizer \/ ~firewall'.exists
    BY <2>1 DEF Informed
  <2>5. QED
    BY <2>2, <2>3, <2>4 DEF Informed
<1>4. CASE FirewallGet \/ CreateRawMachine
  <2>1. /\ UNCHANGED <<firewall, before, cached>> /\ pc \notin {"idle", "patch"} /\ pc' = "patch"
    BY <1>4 DEF FirewallGet, CreateRawMachine, Fail
  <2>2. obj'.finalizer = obj.finalizer
    BY <1>0, <1>4 DEF FirewallGet, CreateRawMachine, Created, Fail, FirewallObject
  <2>3. ~Dropped /\ ~Dropped'
    BY <2>1, <2>2 DEF Informed, Dropped
  <2>4. QED
    BY <2>1, <2>2, <2>3 DEF Informed, Held, Keeps, Deletes
<1>5. CASE FirewallFind \/ MachineDelete
  <2>1. /\ UNCHANGED <<firewall, before, cached>> /\ pc \in {"FirewallFind", "MachineDelete"}
        /\ pc' # "idle"
    BY <1>5 DEF FirewallFind, MachineDelete, DeleteRefused, LetGo, Fail
  <2>2. obj.providerID = before.providerID /\ Parses(obj.providerID) /\ ~Dropped
    BY <2>1 DEF Records, DeletesOwn, Informed
  <2>3. CASE obj' = obj
    <3>1. ~Dropped'
      BY <2>1, <2>2, <2>3 DEF Dropped
    <3>2. QED
      BY <2>1, <2>3, <3>1 DEF Informed, Held, Keeps, Deletes
  <2>4. CASE LetGo
    <3>1. /\ obj'.providerID = obj.providerID /\ pc' = "patch" /\ again' = FALSE
      BY <1>0, <2>4 DEF LetGo, FirewallObject
    <3>2. machines'[obj.providerID] \notin Own
      <4>1. CASE MachineDelete
        <5>1. machines' = [machines EXCEPT ![obj.providerID] = "free"]
          BY <3>1, <4>1 DEF MachineDelete, DeleteRefused, Fail
        <5>2. QED
          BY <2>2, <5>1 DEF TypeOK, Parses, Own
      <4>2. CASE FirewallFind
        BY <3>1, <4>2 DEF FirewallFind, Fail, Found
      <4>3. QED
        BY <1>5, <4>1, <4>2
    <3>3. Keeps'
      BY <2>1 DEF Informed, Deletes, Keeps
    <3>4. Dropped' => /\ pc' = "patch"
                      /\ obj'.providerID = before'.providerID
                      /\ machines'[obj'.providerID] \notin Own
      BY <2>1, <2>2, <3>1, <3>2
    <3>5. QED
      BY <2>1, <3>1, <3>3, <3>4 DEF Informed, Held, Deletes
  <2>5. QED
    BY <1>5, <2>3, <2>4 DEF FirewallFind, MachineDelete, DeleteRefused, Fail
<1>6. CASE Patch \/ Panic \/ Crash
  <2>1. /\ UNCHANGED machines /\ cached' \in {cached, firewall'}
        /\ pc' = "idle" /\ before' = Blank /\ obj' = Blank
    BY <1>6 DEF Patch, Panic, Crash, Restart
  <2>2. ~Dropped' /\ Keeps' /\ Deletes'
    BY <2>1, BlankFinalizer DEF Dropped, Keeps, Deletes
  <2>3. CASE UNCHANGED firewall
    BY <2>1, <2>2, <2>3, BlankFinalizer DEF Informed, Held
  <2>4. CASE pc # "idle" /\ firewall.exists /\ firewall' = Patched
    <3>1. /\ firewall'.exists => firewall'.finalizer
          /\ firewall'.deleting = firewall.deleting
      BY <2>4, PatchInforms
    <3>2. Held'
      BY <3>1 DEF Held
    <3>3. QED
      BY <2>1, <2>2, <3>1, <3>2, BlankFinalizer DEF Informed
  <2>5. QED
    BY <1>6, <2>3, <2>4 DEF Patch, Panic, SendPatch, Crash
<1>8. CASE Refresh \/ NetworkRecorded \/ ClusterGone \/ KubeconfigWritten
  BY <1>8 DEF Refresh, NetworkRecorded, ClusterGone, KubeconfigWritten, Informed, Held, Keeps,
              Deletes, Dropped
<1>9. CASE DeleteFirewall
  <2>1. /\ UNCHANGED <<cached, before, obj, pc, machines>> /\ firewall.exists
        /\ firewall'.finalizer = firewall.finalizer
        /\ firewall.deleting => firewall'.deleting
        /\ firewall'.exists /\ firewall'.deleting => firewall.finalizer
    BY <1>0, <1>9 DEF DeleteFirewall, FirewallObject
  <2>2. QED
    BY <2>1 DEF Informed, Held, Keeps, Deletes, Dropped
<1>10. ASSUME NEW m \in Machines, NEW from \in States, NEW to \in States,
              MachineMoves(m, from, to), to \in Own => from \in Own
       PROVE  Informed'
  <2>1. machines'[obj.providerID] \in Own => machines[obj.providerID] \in Own
    BY <1>10 DEF MachineMoves, TypeOK
  <2>2. QED
    BY <1>10, <2>1 DEF MachineMoves, Informed, Held, Keeps, Deletes, Dropped
<1>11. CASE UNCHANGED vars
  BY <1>11 DEF vars, Informed, Held, Keeps, Deletes, Dropped
<1>12. Foreign \subseteq Machines
  BY FirewallAssumptions DEF FirewallAssumptions
<1>13. ASSUME NEW m \in Machines,
              Installed(m) \/ MachineMoves(m, "free", "foreign") \/ MachineMoves(m, "foreign", "free")
       PROVE  Informed'
  BY <1>10, <1>13 DEF Installed, States, Own
<1>14. QED
  BY <1>1, <1>3, <1>4, <1>5, <1>6, <1>8, <1>9, <1>11, <1>12, <1>13
  DEF Next, Controller, Environment
-----------------------------------------------------------------------------
(* What a step costs                                                       *)

\* The invariant so far, whatever faults strike.
Accurate == TypeOK /\ DeletesOwn /\ Records /\ Informed

LEMMA AccurateInit == Init => Accurate
<1>1. Init => TypeOK /\ DeletesOwn /\ Records
  BY InitTyped DEF Init, DeletesOwn, Records
<1>2. Init => Informed
  BY BlankFinalizer DEF Init, NewFirewall, Informed, Held, Keeps, Deletes, Dropped
<1>3. QED
  BY <1>1, <1>2 DEF Accurate

LEMMA AccurateKept == Accurate /\ [Next]_vars => Accurate'
BY NextTyped, DeletesOwnKept, RecordsKept, InformedKept DEF Accurate


LEMMA BudgetTyped ==
  ASSUME TypeOK
  PROVE  /\ IsFiniteSet(Orphans) /\ Cardinality(Orphans) \in Nat
         /\ Risk \in 0..1 /\ Loose \in 0..1 /\ Waiver \in 0..1 /\ faults.count \in Nat
<1>1. Orphans \subseteq Machines /\ IsFiniteSet(Machines)
  BY FirewallAssumptions DEF Orphans, FirewallAssumptions
<1>2. faults.count \in Nat
  BY FirewallAssumptions DEF TypeOK, FaultLog, FirewallAssumptions
<1>3. Risk \in 0..1 /\ Loose \in 0..1 /\ Waiver \in 0..1
  BY DEF Risk, Loose, Waiver
<1>4. QED
  BY <1>1, <1>2, <1>3, NoMore

\* A fault is one fault.
LEMMA FaultCounts ==
  ASSUME TypeOK, NEW kind, Fault(kind)
  PROVE  faults'.count = faults.count + 1
  BY DEF Fault, Struck

\* A step that loses no machine.
LEMMA NothingLost ==
  ASSUME TypeOK, TypeOK', Budget, Orphans' \subseteq Orphans,
         Risk' + Loose' + faults.count + Waiver <= Risk + Loose + faults'.count + Waiver'
  PROVE  Budget'
<1>1. Cardinality(Orphans') <= Cardinality(Orphans)
  BY BudgetTyped, NoMore
<1>2. /\ Cardinality(Orphans) \in Nat /\ faults.count \in Nat
      /\ Risk \in 0..1 /\ Loose \in 0..1 /\ Waiver \in 0..1
  BY BudgetTyped
<1>3. /\ Cardinality(Orphans') \in Nat /\ faults'.count \in Nat
      /\ Risk' \in 0..1 /\ Loose' \in 0..1 /\ Waiver' \in 0..1
  <2>1. Orphans' \subseteq Orphans /\ IsFiniteSet(Orphans)
    BY BudgetTyped
  <2>2. Cardinality(Orphans') \in Nat
    BY <2>1, NoMore
  <2>3. faults'.count \in Nat
    BY FirewallAssumptions DEF TypeOK, FaultLog, FirewallAssumptions
  <2>4. QED
    BY <2>2, <2>3 DEF Risk, Loose, Waiver
<1>4. Cardinality(Orphans)' = Cardinality(Orphans')
  OBVIOUS
<1>5. Cardinality(Orphans) + Risk + Loose <= faults.count + Waiver
  BY DEF Budget
<1>6. Cardinality(Orphans') + Risk' + Loose' <= faults'.count + Waiver'
  BY <1>1, <1>2, <1>3, <1>5
<1>7. QED
  BY <1>6 DEF Budget

\* A step that loses one machine, and pays for it.
LEMMA OneLost ==
  ASSUME TypeOK, TypeOK', Budget, NEW lost, Orphans' \subseteq Orphans \cup {lost},
         1 + Risk' + Loose' + faults.count + Waiver <= Risk + Loose + faults'.count + Waiver'
  PROVE  Budget'
<1>1. Cardinality(Orphans') <= Cardinality(Orphans) + 1
  BY BudgetTyped, OneMore
<1>2. /\ Cardinality(Orphans) \in Nat /\ faults.count \in Nat
      /\ Risk \in 0..1 /\ Loose \in 0..1 /\ Waiver \in 0..1
  BY BudgetTyped
<1>3. /\ Cardinality(Orphans') \in Nat /\ faults'.count \in Nat
      /\ Risk' \in 0..1 /\ Loose' \in 0..1 /\ Waiver' \in 0..1
  <2>1. Orphans' \subseteq Machines /\ IsFiniteSet(Machines)
    BY FirewallAssumptions DEF Orphans, FirewallAssumptions
  <2>2. Cardinality(Orphans') \in Nat
    BY <2>1, NoMore
  <2>3. faults'.count \in Nat
    BY FirewallAssumptions DEF TypeOK, FaultLog, FirewallAssumptions
  <2>4. QED
    BY <2>2, <2>3 DEF Risk, Loose, Waiver
<1>4. Cardinality(Orphans) + Risk + Loose <= faults.count + Waiver
  BY DEF Budget
<1>5. Cardinality(Orphans') + Risk' + Loose' <= faults'.count + Waiver'
  BY <1>1, <1>2, <1>3, <1>4
<1>6. QED
  BY <1>5 DEF Budget

\* A step that leaves the object, what is in flight and all machines that are not
\* the cluster's as they are.
LEMMA Quiet ==
  ASSUME TypeOK, TypeOK', Budget, UNCHANGED firewall,
         \A m \in Machines : machines'[m] \in Own => machines[m] \in Own,
         pc = "patch" => pc' = "patch" /\ obj'.providerID = obj.providerID,
         Risk' + faults.count <= Risk + faults'.count
  PROVE  Budget'
<1>1. Orphans' \subseteq Orphans
  BY DEF Orphans, Recorded, InFlight
<1>2. Unheld' => Unheld
  BY DEF Unheld, InFlight, Parses
<1>3. Waiver' = Waiver
  BY DEF Waiver
<1>4. Loose' <= Loose
  BY <1>2 DEF Loose
<1>5. /\ faults.count \in Nat /\ faults'.count \in Nat /\ Risk \in 0..1 /\ Risk' \in 0..1
      /\ Loose \in 0..1 /\ Loose' \in 0..1 /\ Waiver \in 0..1
  BY FirewallAssumptions DEF TypeOK, FaultLog, FirewallAssumptions, Risk, Loose, Waiver
<1>6. Risk' + Loose' + faults.count + Waiver <= Risk + Loose + faults'.count + Waiver'
  BY <1>3, <1>4, <1>5
<1>7. QED
  BY <1>1, <1>6, NothingLost

\* A reconcile that ends without its patch may lose the machine in flight.
LEMMA Abandoned ==
  ASSUME TypeOK, TypeOK', Budget, UNCHANGED <<firewall, machines>>,
         pc = "patch", pc' = "idle", faults.count + 1 <= Risk + faults'.count
  PROVE  Budget'
<1>1. Risk' = 0 /\ Waiver' = Waiver
  BY DEF Risk, Astray, Waiver
<1>2. /\ faults.count \in Nat /\ faults'.count \in Nat /\ Risk \in 0..1
      /\ Loose \in 0..1 /\ Loose' \in 0..1 /\ Waiver \in 0..1
  BY FirewallAssumptions DEF TypeOK, FaultLog, FirewallAssumptions, Risk, Loose, Waiver
<1>3. CASE Recorded(obj.providerID)
  <2>1. Orphans' \subseteq Orphans
    BY <1>3 DEF Orphans, Recorded, InFlight
  <2>2. Risk' + Loose' + faults.count + Waiver <= Risk + Loose + faults'.count + Waiver'
    BY <1>1, <1>2
  <2>3. QED
    BY <2>1, <2>2, NothingLost
<1>4. CASE ~Recorded(obj.providerID)
  <2>1. Orphans' \subseteq Orphans \cup {obj.providerID}
    BY <1>4 DEF Orphans, Recorded, InFlight
  <2>2. Unheld' => Unheld
    BY <1>4 DEF Unheld, InFlight, Parses, Recorded
  <2>3. Loose' <= Loose
    BY <2>2 DEF Loose
  <2>4. 1 + Risk' + Loose' + faults.count + Waiver <= Risk + Loose + faults'.count + Waiver'
    BY <1>1, <1>2, <2>3
  <2>5. QED
    BY <2>1, <2>4, OneLost
<1>5. QED
  BY <1>3, <1>4
\* A step of the reconcile costs one machine at most, and only when a fault strikes
\* or has put the reconcile at risk.
LEMMA ControllerPays ==
  ASSUME TypeOK, TypeOK', Informed, Records, Budget, Controller
  PROVE  Budget'
<1> USE DEF world, local, Goto, Return
<1>0. /\ firewall \in FirewallObject /\ cached \in FirewallObject /\ obj \in FirewallObject
      /\ before \in FirewallObject
      /\ machines \in [Machines -> Own \cup {"free", "foreign"}]
  BY DEF TypeOK
<1>n. /\ faults.count \in Nat /\ faults'.count \in Nat /\ Risk \in 0..1 /\ Risk' \in 0..1
      /\ Loose \in 0..1 /\ Loose' \in 0..1 /\ Waiver \in 0..1 /\ Waiver' \in 0..1
  BY FirewallAssumptions DEF TypeOK, FaultLog, FirewallAssumptions, Risk, Loose, Waiver
<1>1. CASE Reconcile
  <2>1. UNCHANGED <<firewall, machines>> /\ pc = "idle"
    BY <1>1 DEF Reconcile
  <2>2. Risk = 0
    BY <2>1 DEF Risk, Astray
  <2>3. CASE cached = firewall
    <3>1. Risk' = 0
      BY <1>1, <2>3 DEF Reconcile, Risk, Astray
    <3>2. UNCHANGED faults
      BY <1>1, <2>3 DEF Reconcile
    <3>3. Risk' + faults.count <= Risk + faults'.count
      BY <1>n, <2>2, <3>1, <3>2
    <3>4. QED
      BY <2>1, <3>3, Quiet
  <2>4. CASE cached # firewall
    <3>1. faults'.count = faults.count + 1
      BY <1>1, <2>4, FaultCounts DEF Reconcile
    <3>2. Risk' + faults.count <= Risk + faults'.count
      BY <1>n, <3>1
    <3>3. QED
      BY <2>1, <3>2, Quiet
  <2>5. QED
    BY <2>3, <2>4
<1>2. CASE MachineGet \/ FirewallGet \/ FirewallFind
  <2>1. /\ UNCHANGED <<firewall, machines, faults>> /\ pc \notin {"idle", "patch"}
        /\ pc' = "idle" \/ before' = before
    BY <1>2 DEF MachineGet, FirewallGet, FirewallFind
  <2>2. Risk' <= Risk
    BY <2>1 DEF Risk, Astray
  <2>3. Risk' + faults.count <= Risk + faults'.count
    BY <1>n, <2>1, <2>2
  <2>4. QED
    BY <2>1, <2>3, Quiet
<1>3. CASE MachineDelete
  <2>1. /\ UNCHANGED <<firewall, before>> /\ pc \notin {"idle", "patch"}
    BY <1>3 DEF MachineDelete
  <2>2. Risk' <= Risk
    BY <2>1 DEF Risk, Astray
  <2>3. faults'.count >= faults.count
    BY <1>3, <1>n, FaultCounts DEF MachineDelete
  <2>4. Risk' + faults.count <= Risk + faults'.count
    BY <1>n, <2>2, <2>3
  <2>5. \A m \in Machines : machines'[m] \in Own => machines[m] \in Own
    BY <1>0, <1>3 DEF MachineDelete, Own
  <2>6. QED
    BY <2>1, <2>4, <2>5, Quiet
<1>4. CASE CreateRawMachine
  <2>1. /\ UNCHANGED <<firewall, before>> /\ pc \notin {"idle", "patch"} /\ pc' = "patch"
    BY <1>4 DEF CreateRawMachine, Fail
  <2>2. Risk' = Risk /\ Waiver' = Waiver
    BY <2>1 DEF Risk, Astray, Waiver
  <2>3. CASE UNCHANGED <<machines, faults>>
    <3>1. Risk' + faults.count <= Risk + faults'.count
      BY <1>n, <2>2, <2>3
    <3>2. QED
      BY <2>1, <2>3, <3>1, Quiet
  <2>4. ASSUME NEW m \in Machines, machines' = [machines EXCEPT ![m] = "waiting"],
               Created(m), UNCHANGED faults
        PROVE  Budget'
    <3>1. obj'.providerID = m /\ pc' = "patch"
      BY <1>0, <2>1, <2>4 DEF Created, FirewallObject
    <3>2. Orphans' \subseteq Orphans
      BY <1>0, <2>1, <2>4, <3>1 DEF Orphans, Recorded, InFlight
    <3>3. Unheld' => Unheld
      BY <1>0, <2>1, <2>4, <3>1 DEF Unheld, InFlight, Parses
    <3>4. Risk' + Loose' + faults.count + Waiver <= Risk + Loose + faults'.count + Waiver'
      <4>1. Loose' <= Loose
        BY <3>3 DEF Loose
      <4>2. faults'.count = faults.count
        BY <2>4
      <4>3. QED
        BY <1>n, <2>2, <4>1, <4>2
    <3>5. QED
      BY <3>2, <3>4, NothingLost
  <2>5. ASSUME NEW m \in Machines, machines' = [machines EXCEPT ![m] = "waiting"],
               Fault("reply")
        PROVE  Budget'
    <3>1. faults'.count = faults.count + 1
      BY <2>5, FaultCounts
    <3>2. CASE Recorded(m)
      <4>1. Orphans' \subseteq Orphans
        BY <1>0, <2>1, <2>5, <3>2 DEF Orphans, Recorded, InFlight
      <4>2. Risk' + Loose' + faults.count + Waiver <= Risk + Loose + faults'.count + Waiver'
        BY <1>n, <2>2, <3>1
      <4>3. QED
        BY <4>1, <4>2, NothingLost
    <3>3. CASE ~Recorded(m)
      <4>1. Orphans' \subseteq Orphans \cup {m}
        BY <1>0, <2>1, <2>5 DEF Orphans, Recorded, InFlight
      <4>2. Unheld' => Unheld
        BY <1>0, <2>1, <2>5, <3>3 DEF Unheld, InFlight, Parses, Recorded
      <4>3. Loose' <= Loose
        BY <4>2 DEF Loose
      <4>4. 1 + Risk' + Loose' + faults.count + Waiver <= Risk + Loose + faults'.count + Waiver'
        BY <1>n, <2>2, <3>1, <4>3
      <4>5. QED
        BY <4>1, <4>4, OneLost
    <3>4. QED
      BY <3>2, <3>3
  <2>6. QED
    BY <1>4, <2>3, <2>4, <2>5 DEF CreateRawMachine
<1>5. CASE Patch
  <2>1. UNCHANGED machines /\ pc = "patch" /\ pc' = "idle"
    BY <1>5 DEF Patch
  <2>2. Risk' = 0
    BY <2>1 DEF Risk, Astray
  <2>3. CASE UNCHANGED firewall /\ firewall.exists /\ Fault("patch")
    <3>1. faults.count + 1 <= Risk + faults'.count
      BY <1>n, <2>3, FaultCounts
    <3>2. QED
      BY <2>1, <2>3, <3>1, Abandoned
  <2>4. CASE UNCHANGED firewall /\ ~firewall.exists /\ UNCHANGED faults
    <3>1. Risk = 1
      BY <2>1, <2>4 DEF Risk, Astray
    <3>2. faults.count + 1 <= Risk + faults'.count
      BY <1>n, <2>4, <3>1
    <3>3. QED
      BY <2>1, <2>4, <3>2, Abandoned
  <2>5. CASE firewall.exists /\ firewall' = Patched /\ UNCHANGED faults
    <3>1. /\ firewall'.exists => firewall'.finalizer
          /\ ~firewall'.exists => Dropped
      BY <2>1, <2>5, PatchInforms
    <3>2. firewall'.providerID = Merged(firewall.providerID, before.providerID, obj.providerID)
      BY <2>5, PatchedFields
    <3>3. Dropped => /\ obj.providerID = before.providerID
                     /\ machines[obj.providerID] \notin Own
      BY DEF Informed
    <3>4. Loose' = 0 /\ Waiver = 0
      BY <2>5, <3>1 DEF Loose, Unheld, Waiver
    <3>5. CASE Astray
      <4>1. PICK lost : Orphans' \subseteq Orphans \cup {lost}
        <5>1. CASE firewall'.exists /\ firewall'.providerID = obj.providerID
          <6>1. Orphans' \subseteq Orphans \cup {firewall.providerID}
            BY <2>1, <5>1 DEF Orphans, Recorded, InFlight
          <6>2. QED
            BY <6>1
        <5>2. CASE firewall'.exists /\ firewall'.providerID = firewall.providerID
          <6>1. Orphans' \subseteq Orphans \cup {obj.providerID}
            BY <2>1, <5>2 DEF Orphans, Recorded, InFlight
          <6>2. QED
            BY <6>1
        <5>3. CASE ~firewall'.exists
          <6>1. Orphans' \subseteq Orphans \cup {firewall.providerID}
            BY <2>1, <3>1, <3>3, <5>3 DEF Orphans, Recorded, InFlight
          <6>2. QED
            BY <6>1
        <5>4. QED
          BY <3>2, <5>1, <5>2, <5>3 DEF Merged
      <4>2. Risk = 1
        BY <3>5 DEF Risk
      <4>3. 1 + Risk' + Loose' + faults.count + Waiver <= Risk + Loose + faults'.count + Waiver'
        BY <1>n, <2>2, <2>5, <3>4, <4>2
      <4>4. QED
        BY <4>1, <4>3, OneLost
    <3>6. CASE ~Astray
      <4>1. before.providerID = firewall.providerID
        BY <2>1, <3>6 DEF Astray
      <4>2. firewall'.providerID = obj.providerID
        BY <3>2, <4>1 DEF Merged
      <4>3. obj.providerID = firewall.providerID \/ firewall.providerID \notin Machines
        BY <2>1, <4>1 DEF Records, Parses
      <4>4. Orphans' \subseteq Orphans
        BY <2>1, <3>1, <3>3, <4>1, <4>2, <4>3 DEF Orphans, Recorded, InFlight
      <4>5. Risk' + Loose' + faults.count + Waiver <= Risk + Loose + faults'.count + Waiver'
        BY <1>n, <2>2, <2>5, <3>4
      <4>6. QED
        BY <4>4, <4>5, NothingLost
    <3>7. QED
      BY <3>5, <3>6
  <2>6. QED
    BY <1>5, <2>3, <2>4, <2>5 DEF Patch, SendPatch
<1>6. CASE Panic
  <2>1. UNCHANGED machines /\ pc = "MachineGet" /\ pc' = "idle"
    BY <1>6 DEF Panic, Restart
  <2>2. Risk' = 0
    BY <2>1 DEF Risk, Astray
  <2>3. CASE UNCHANGED firewall
    <3>1. faults'.count >= faults.count
      BY <1>6, <1>n, FaultCounts DEF Panic, SendPatch
    <3>2. Risk' + faults.count <= Risk + faults'.count
      BY <1>n, <2>2, <3>1
    <3>3. QED
      BY <2>1, <2>3, <3>2, Quiet
  <2>4. CASE firewall.exists /\ firewall' = Patched /\ UNCHANGED faults
    <3>1. firewall'.exists /\ firewall'.finalizer
      BY <2>1, <2>4, PatchInforms DEF Informed
    <3>2. firewall'.providerID = firewall.providerID
      BY <2>1, <2>4, PatchedFields DEF Records, Merged
    <3>3. Orphans' \subseteq Orphans
      BY <2>1, <2>4, <3>1, <3>2 DEF Orphans, Recorded, InFlight
    <3>4. Loose' = 0 /\ Waiver = 0
      BY <2>4, <3>1 DEF Loose, Unheld, Waiver
    <3>5. Risk' + Loose' + faults.count + Waiver <= Risk + Loose + faults'.count + Waiver'
      BY <1>n, <2>2, <2>4, <3>4
    <3>6. QED
      BY <3>3, <3>5, NothingLost
  <2>5. QED
    BY <1>6, <2>3, <2>4 DEF Panic, SendPatch
<1>7. QED
  BY <1>1, <1>2, <1>3, <1>4, <1>5, <1>6 DEF Controller

\* So does a crash; a user who deletes the object costs the machine that hangs on no
\* finalizer.
LEMMA EnvironmentPays ==
  ASSUME TypeOK, TypeOK', Budget, Environment
  PROVE  Budget'
<1> USE DEF world, local
<1>0. /\ firewall \in FirewallObject
      /\ machines \in [Machines -> Own \cup {"free", "foreign"}]
  BY DEF TypeOK
<1>n. /\ faults.count \in Nat /\ faults'.count \in Nat /\ Risk \in 0..1 /\ Risk' \in 0..1
      /\ Loose \in 0..1 /\ Loose' \in 0..1 /\ Waiver \in 0..1 /\ Waiver' \in 0..1
  BY FirewallAssumptions DEF TypeOK, FaultLog, FirewallAssumptions, Risk, Loose, Waiver
<1>1. CASE Crash
  <2>1. UNCHANGED <<firewall, machines>> /\ pc' = "idle" /\ faults'.count = faults.count + 1
    BY <1>1, FaultCounts DEF Crash, Restart
  <2>2. CASE pc = "patch"
    <3>1. faults.count + 1 <= Risk + faults'.count
      BY <1>n, <2>1
    <3>2. QED
      BY <2>1, <2>2, <3>1, Abandoned
  <2>3. CASE pc # "patch"
    <3>1. Risk' + faults.count <= Risk + faults'.count
      BY <1>n, <2>1
    <3>2. QED
      BY <2>1, <2>3, <3>1, Quiet
  <2>4. QED
    BY <2>2, <2>3
<1>2. CASE Refresh \/ NetworkRecorded \/ ClusterGone \/ KubeconfigWritten
  <2>1. UNCHANGED <<firewall, machines, pc, before, obj, faults>>
    BY <1>2 DEF Refresh, NetworkRecorded, ClusterGone, KubeconfigWritten
  <2>2. Risk' = Risk
    BY <2>1 DEF Risk, Astray
  <2>3. Risk' + faults.count <= Risk + faults'.count
    BY <1>n, <2>1, <2>2
  <2>4. QED
    BY <2>1, <2>3, Quiet
<1>3. CASE DeleteFirewall
  <2>1. UNCHANGED <<machines, pc, before, obj, faults>> /\ firewall.exists /\ ~firewall.deleting
    BY <1>3 DEF DeleteFirewall
  <2>2. /\ firewall'.providerID = firewall.providerID
        /\ firewall'.finalizer = firewall.finalizer
    BY <1>0, <1>3 DEF DeleteFirewall, FirewallObject
  <2>3. CASE firewall.finalizer
    <3>1. firewall'.exists
      BY <1>0, <1>3, <2>1, <2>3 DEF DeleteFirewall, FirewallObject
    <3>2. Orphans' \subseteq Orphans
      BY <2>1, <2>2, <3>1 DEF Orphans, Recorded, InFlight
    <3>3. Risk' = Risk /\ Loose' = 0 /\ Waiver = 0
      BY <2>1, <2>2, <2>3, <3>1 DEF Risk, Astray, Loose, Unheld, Waiver
    <3>4. Risk' + Loose' + faults.count + Waiver <= Risk + Loose + faults'.count + Waiver'
      BY <1>n, <2>1, <3>3
    <3>5. QED
      BY <3>2, <3>4, NothingLost
  <2>4. CASE ~firewall.finalizer
    <3>1. ~firewall'.exists /\ ~firewall'.deleting
      BY <1>0, <1>3, <2>1, <2>4 DEF DeleteFirewall, FirewallObject
    <3>2. Waiver = 0 /\ Waiver' = 1 /\ Loose' = 0
      BY <2>1, <3>1 DEF Waiver, Loose, Unheld
    <3>3. CASE Unheld
      <4>1. Orphans' \subseteq Orphans \cup {firewall.providerID}
        BY <2>1 DEF Orphans, Recorded, InFlight
      <4>2. Loose = 1
        BY <3>3 DEF Loose
      <4>3. 1 + Risk' + Loose' + faults.count + Waiver <= Risk + Loose + faults'.count + Waiver'
        BY <1>n, <2>1, <3>2, <4>2
      <4>4. QED
        BY <4>1, <4>3, OneLost
    <3>4. CASE ~Unheld
      <4>1. Orphans' \subseteq Orphans
        BY <2>1, <2>4, <3>4 DEF Orphans, Recorded, InFlight, Unheld, Parses
      <4>2. Risk' + Loose' + faults.count + Waiver <= Risk + Loose + faults'.count + Waiver'
        BY <1>n, <2>1, <3>2
      <4>3. QED
        BY <4>1, <4>2, NothingLost
    <3>5. QED
      BY <3>3, <3>4
  <2>5. QED
    BY <2>3, <2>4
<1>4. ASSUME NEW m \in Machines, NEW from \in States, NEW to \in States,
             MachineMoves(m, from, to), to \in Own => from \in Own
      PROVE  Budget'
  <2>1. UNCHANGED <<firewall, pc, before, obj, faults>>
    BY <1>4 DEF MachineMoves
  <2>2. Risk' = Risk
    BY <2>1 DEF Risk, Astray
  <2>3. Risk' + faults.count <= Risk + faults'.count
    BY <1>n, <2>1, <2>2
  <2>4. \A id \in Machines : machines'[id] \in Own => machines[id] \in Own
    BY <1>0, <1>4 DEF MachineMoves
  <2>5. QED
    BY <2>1, <2>3, <2>4, Quiet
<1>5. Foreign \subseteq Machines
  BY FirewallAssumptions DEF FirewallAssumptions
<1>6. ASSUME NEW m \in Machines,
             Installed(m) \/ MachineMoves(m, "free", "foreign") \/ MachineMoves(m, "foreign", "free")
      PROVE  Budget'
  BY <1>4, <1>6 DEF Installed, States, Own
<1>7. QED
  BY <1>1, <1>2, <1>3, <1>5, <1>6 DEF Environment

\* A fault, or the removal of an object without a finalizer, costs at most one machine,
\* for every set of machines, whoever competes for them, and however many faults of
\* whatever kind strike.
THEOREM LeakBounded == Spec => []LeakBound
<1> DEFINE Accounts == Accurate /\ Budget
<1>1. Init => Accounts
  <2> SUFFICES ASSUME Init PROVE Budget
    BY AccurateInit
  <2>1. Orphans = {} /\ Risk = 0 /\ Loose = 0 /\ Waiver = 0 /\ faults.count = 0
    BY DEF Init, NewFirewall, Orphans, Own, Risk, Astray, Loose, Unheld, Parses, Waiver, NoFault
  <2>2. Cardinality({}) = 0
    BY FS_EmptySet
  <2>3. QED
    BY <2>1, <2>2 DEF Budget
<1>2. Accounts /\ [Next]_vars => Accounts'
  <2> SUFFICES ASSUME Accurate, Budget, [Next]_vars PROVE Accurate' /\ Budget'
    OBVIOUS
  <2>1. Accurate'
    BY AccurateKept
  <2>2. CASE Next
    BY <2>1, <2>2, ControllerPays, EnvironmentPays DEF Next, Accurate
  <2>3. CASE UNCHANGED vars
    <3>1. Orphans' = Orphans /\ Risk' = Risk /\ Loose' = Loose /\ Waiver' = Waiver
      BY <2>3 DEF vars, world, local, Orphans, Recorded, InFlight, Risk, Astray, Loose,
                  Unheld, Parses, Waiver
    <3>2. QED
      BY <2>1, <2>3, <3>1 DEF vars, Budget
  <2>4. QED
    BY <2>2, <2>3
<1>3. Accounts => LeakBound
  <2> SUFFICES ASSUME Accurate, Budget PROVE LeakBound
    OBVIOUS
  <2>1. Cardinality(Orphans) <= faults.count + Waiver
    BY BudgetTyped DEF Accurate, Budget
  <2>2. QED
    BY <2>1 DEF LeakBound, Waiver
<1>4. QED
  BY <1>1, <1>2, <1>3, PTL DEF Spec

-----------------------------------------------------------------------------
(* Nothing is forgotten.  As for a cluster, the duty to look at the object *)
(* again goes from the work queue to the reconcile in flight, and back to  *)
(* the queue or to the informer.                                           *)

\* A machine that nobody waits for.
Settled(id) == Parses(id) /\ machines[id] # "waiting"

Known ==
  /\ Held
  /\ firewall.exists => cached.exists
  /\ cached.exists /\ cached.deleting => cached.finalizer
  /\ cached.deleting \/ before.deleting => firewall.deleting
  /\ pc # "idle" /\ ~queued => before = cached

\* A reconcile that does not ask for another one has seen its machine settled, or it
\* drops the finalizer of an object under deletion.
Course ==
  /\ pc \in {"MachineGet", "FirewallGet", "createRawMachine"} => ~before.deleting
  /\ pc \in {"MachineGet", "FirewallGet"} =>
       Parses(obj.providerID) /\ obj.providerID = before.providerID
  /\ pc \in {"FirewallFind", "MachineDelete"} => before.deleting /\ before.finalizer
  /\ pc = "patch" /\ ~again =>
       IF before.deleting THEN before.finalizer /\ ~obj.finalizer
                          ELSE obj.providerID = before.providerID /\ Settled(obj.providerID)

\* What is neither queued nor in the worker's hands was settled when the informer last
\* looked.
Awake ==
  Delivered /\ firewall.exists /\ pc = "idle" /\ ~queued =>
    ~cached.deleting /\ Settled(cached.providerID)

Driven == TypeOK /\ Known /\ Course /\ Awake

LEMMA DrivenInit == Init => Driven
<1> SUFFICES ASSUME Init PROVE Driven
  OBVIOUS
<1>1. ~firewall.deleting
  BY DEF Init, NewFirewall
<1>2. QED
  BY <1>1, InitTyped, BlankTyped DEF Init, Driven, Known, Held, Course, Awake

\* A new process looks at every object.
LEMMA DrivenRestart ==
  ASSUME Driven, TypeOK', Restart, Held'
  PROVE  Driven'
BY BlankTyped DEF Restart, Driven, Known, Held, Course, Awake

\* A call in the middle of a reconcile leaves the object and its copies alone.
LEMMA DrivenOn ==
  ASSUME Driven, TypeOK', UNCHANGED <<firewall, cached, before, queued>>, pc # "idle",
         Course', pc' # "idle"
  PROVE  Driven'
BY DEF Driven, Known, Held, Awake

LEMMA DrivenController ==
  ASSUME Driven, TypeOK', Controller
  PROVE  Driven'
<1> USE DEF world, local, Goto, Return, Fail
<1>0. /\ firewall \in FirewallObject /\ cached \in FirewallObject
      /\ before \in FirewallObject /\ obj \in FirewallObject
      /\ again \in BOOLEAN /\ queued \in BOOLEAN
      /\ machines \in [Machines -> States]
  BY DEF Driven, TypeOK, States, Own
<1>1. CASE Reconcile
  <2>1. UNCHANGED <<firewall, cached, machines>> /\ pc = "idle" /\ queued
    BY <1>1 DEF Reconcile
  <2>2. CASE ~cached.exists
    <3>1. UNCHANGED local /\ ~firewall.exists
      BY <1>1, <2>2 DEF Reconcile, Driven, Known
    <3>2. QED
      BY <2>1, <3>1 DEF Driven, Known, Held, Course, Awake
  <2>3. CASE cached.exists /\ ~Networked
    <3>1. UNCHANGED <<local, queued>>
      BY <1>1, <2>3 DEF Reconcile
    <3>2. QED
      BY <2>1, <3>1 DEF Driven, Known, Held, Course, Awake
  <2>4. CASE cached.exists /\ Networked
    <3>1. before' = cached /\ ~queued'
      BY <1>1, <2>4 DEF Reconcile
    <3>2. \/ /\ cached.deleting
             /\ pc' = "FirewallFind" \/ (pc' = "patch" /\ again')
          \/ /\ ~cached.deleting
             /\ obj' = [cached EXCEPT !.finalizer = TRUE]
             /\ pc' = IF Parses(cached.providerID) THEN "MachineGet" ELSE "createRawMachine"
      BY <1>1, <2>4 DEF Reconcile
    <3>3. [cached EXCEPT !.finalizer = TRUE].providerID = cached.providerID
      BY <1>0 DEF FirewallObject
    <3>4. Known'
      BY <2>1, <3>1 DEF Driven, Known, Held
    <3>5. Course'
      BY <2>4, <3>1, <3>2, <3>3 DEF Driven, Known, Course, Parses
    <3>6. QED
      BY <3>2, <3>4, <3>5 DEF Driven, Awake
  <2>5. QED
    BY <2>2, <2>3, <2>4
<1>2. CASE MachineGet
  <2>1. /\ UNCHANGED <<firewall, cached, before, obj, queued>>
        /\ pc = "MachineGet" /\ pc' \in {"createRawMachine", "FirewallGet"}
    BY <1>2 DEF MachineGet
  <2>2. Course'
    BY <2>1 DEF Driven, Course, Parses
  <2>3. QED
    BY <2>1, <2>2, DrivenOn
<1>3. CASE Panic
  <2>1. /\ Patched.deleting = firewall.deleting
        /\ Patched.exists <=> ~Patched.deleting \/ Patched.finalizer
    BY PatchedFields DEF Driven
  <2>2. Held'
    BY <1>3, <2>1 DEF Panic, SendPatch, Driven, Known, Held
  <2>3. QED
    BY <1>3, <2>2, DrivenRestart DEF Panic
<1>4. CASE FirewallGet
  <2>1. /\ UNCHANGED <<firewall, cached, before, queued, machines>>
        /\ pc = "FirewallGet" /\ pc' = "patch"
    BY <1>4 DEF FirewallGet
  <2>2. again' \/ (obj' = [obj EXCEPT !.ready = TRUE] /\ machines[obj.providerID] # "waiting")
    BY <1>4 DEF FirewallGet, Own
  <2>3. Course'
    BY <1>0, <2>1, <2>2 DEF Driven, Course, Settled, Parses, FirewallObject
  <2>4. QED
    BY <2>1, <2>3, DrivenOn
<1>5. CASE CreateRawMachine
  <2>1. /\ UNCHANGED <<firewall, cached, before, queued>>
        /\ pc = "createRawMachine" /\ pc' = "patch" /\ again'
    BY <1>5 DEF CreateRawMachine
  <2>2. Course'
    BY <2>1 DEF Course
  <2>3. QED
    BY <2>1, <2>2, DrivenOn
<1>6. CASE FirewallFind \/ MachineDelete
  <2>1. /\ UNCHANGED <<firewall, cached, before, queued>>
        /\ pc \in {"FirewallFind", "MachineDelete"}
        /\ \/ pc' = "MachineDelete"
           \/ pc' = "patch" /\ (again' \/ obj' = [obj EXCEPT !.finalizer = FALSE])
    BY <1>6 DEF FirewallFind, MachineDelete, LetGo, DeleteRefused
  <2>2. Course'
    BY <1>0, <2>1 DEF Driven, Course, FirewallObject
  <2>3. QED
    BY <2>1, <2>2, DrivenOn
<1>7. CASE Patch
  <2>1. /\ pc = "patch" /\ pc' = "idle" /\ before' = Blank /\ UNCHANGED <<cached, machines>>
        /\ queued' = (queued \/ again)
    BY <1>7 DEF Patch
  <2>2. CASE firewall.exists /\ firewall' = Patched
    <3>1. /\ firewall'.deleting = firewall.deleting
          /\ firewall'.finalizer = Merged(firewall.finalizer, before.finalizer, obj.finalizer)
          /\ firewall'.exists <=> ~firewall'.deleting \/ firewall'.finalizer
      BY <2>2, PatchedFields DEF Driven
    <3>2. Known'
      BY <2>1, <2>2, <3>1, BlankTyped DEF Driven, Known, Held
    <3>3. Awake'
      <4> SUFFICES ASSUME firewall'.exists, ~queued'
                   PROVE  ~cached.deleting /\ Settled(cached.providerID)
        BY <2>1 DEF Awake, Settled, Parses
      <4>1. ~again /\ before = cached
        BY <2>1 DEF Driven, Known
      <4>2. ~before.deleting
        <5> SUFFICES ASSUME before.deleting PROVE FALSE
          OBVIOUS
        <5>1. before.finalizer /\ ~obj.finalizer /\ firewall.deleting
          BY <2>1, <4>1 DEF Driven, Known, Course
        <5>2. ~firewall'.finalizer
          BY <1>0, <3>1, <5>1 DEF Merged, FirewallObject
        <5>3. QED
          BY <3>1, <5>1, <5>2
      <4>3. QED
        BY <2>1, <4>1, <4>2 DEF Driven, Course
    <3>4. QED
      BY <2>1, <3>2, <3>3, BlankTyped DEF Driven, Course
  <2>3. CASE UNCHANGED firewall /\ (firewall.exists => Fault("patch"))
    <3>1. Known'
      BY <2>1, <2>3, BlankTyped DEF Driven, Known, Held
    <3>2. firewall.exists => ~Delivered'
      BY <2>3 DEF Fault, Struck, Delivered
    <3>3. QED
      BY <2>1, <2>3, <3>1, <3>2, BlankTyped DEF Driven, Course, Awake
  <2>4. QED
    BY <1>7, <2>2, <2>3 DEF Patch, SendPatch
<1>8. QED
  BY <1>1, <1>2, <1>3, <1>4, <1>5, <1>6, <1>7 DEF Controller

\* The informer shows a deletion and queues the object in one step; and a machine that is
\* settled is not unsettled by others.
LEMMA DrivenEnvironment ==
  ASSUME Driven, TypeOK', Environment, [Next]_vars
  PROVE  Driven'
<1> USE DEF world, local
<1>0. /\ firewall \in FirewallObject
      /\ machines \in [Machines -> States]
      /\ Delivered' => Delivered
  BY FaultsStay DEF Driven, TypeOK, States, Own, Delivered
<1>1. CASE Crash
  BY <1>1, DrivenRestart DEF Crash, Driven, Known, Held
<1>2. CASE Refresh
  BY <1>2 DEF Refresh, Driven, Known, Held, Course, Awake, Settled, Parses
<1>3. CASE DeleteFirewall
  <2>1. /\ firewall.exists /\ ~firewall.deleting
        /\ firewall'.exists => firewall'.deleting /\ firewall'.finalizer
    BY <1>0, <1>3 DEF DeleteFirewall, FirewallObject
  <2>2. UNCHANGED <<local, cached, queued, machines>>
    BY <1>3 DEF DeleteFirewall
  <2>3. ~cached.deleting /\ ~before.deleting
    BY <2>1 DEF Driven, Known
  <2>4. Known'
    BY <2>1, <2>2, <2>3 DEF Driven, Known, Held
  <2>5. Course'
    BY <2>2 DEF Driven, Course, Settled, Parses
  <2>6. Awake'
    BY <1>0, <2>1, <2>2, <2>3 DEF Driven, Awake, Settled, Parses
  <2>7. QED
    BY <2>4, <2>5, <2>6 DEF Driven
<1>4. ASSUME UNCHANGED <<firewall, cached, local, queued>>,
             \A m \in Machines : machines[m] # "waiting" => machines'[m] # "waiting"
      PROVE  Driven'
  <2>1. \A id : Settled(id) => Settled(id)'
    BY <1>4 DEF Settled, Parses
  <2>2. Known' /\ Course' /\ Awake'
    BY <1>0, <1>4, <2>1 DEF Driven, Known, Held, Course, Awake, Settled, Parses
  <2>3. QED
    BY <2>2 DEF Driven
<1>5. ASSUME NEW m \in Machines, NEW from, NEW to \in States \ {"waiting"},
             MachineMoves(m, from, to)
      PROVE  Driven'
  BY <1>0, <1>4, <1>5 DEF MachineMoves
<1>6. CASE NetworkRecorded \/ ClusterGone \/ KubeconfigWritten
  BY <1>4, <1>6 DEF NetworkRecorded, ClusterGone, KubeconfigWritten
<1>7. QED
  BY <1>1, <1>2, <1>3, <1>5, <1>6, FirewallAssumptions
     DEF Environment, Installed, States, FirewallAssumptions

\* A firewall that nobody is at work on, and of which the informer has nothing to report,
\* is queued or has a machine that nobody waits for, as long as the patches go through.
THEOREM NeverForgotten == Spec => []NothingForgotten
<1>1. Driven /\ [Next]_vars => Driven'
  <2> SUFFICES ASSUME Driven, [Next]_vars PROVE Driven'
    OBVIOUS
  <2>1. TypeOK'
    BY NextTyped DEF Driven
  <2>2. CASE Next
    BY <2>1, <2>2, DrivenController, DrivenEnvironment DEF Next
  <2>3. CASE UNCHANGED vars
    BY <2>1, <2>3 DEF vars, world, local, Driven, Known, Held, Course, Awake, Settled, Parses,
                      Delivered
  <2>4. QED
    BY <2>2, <2>3
<1>2. Driven => NothingForgotten
  BY DEF Driven, Awake, Settled, NothingForgotten
<1>3. QED
  BY DrivenInit, <1>1, <1>2, PTL DEF Spec
=============================================================================
