----------------------------- MODULE PatchHelper -----------------------------
(***************************************************************************)
(* What the three controllers share when they persist an object.  Each of  *)
(* them opens a patch helper on the object it read from the informer cache *)
(* and patches the object from a deferred function when Reconcile returns. *)
(* The helper (cluster-api v0.4.0, not in this repository) diffs the       *)
(* object against the copy taken at the start and sends two JSON merge     *)
(* patches, one for metadata and spec and then one for status, without a   *)
(* resourceVersion precondition: a field that changed overwrites the live  *)
(* one, a field that did not change is not sent.  It sends the second      *)
(* patch whether or not the first one succeeded.                           *)
(***************************************************************************)
EXTENDS Naturals

\* The value of one field on the API server after a merge patch.
Merged(live, before, after) == IF after = before THEN live ELSE after

\* The faults the models can inject.
\*   crash   the manager process dies in the middle of a reconcile
\*   patch   a patch request fails on the API server
\*   reply   metal-API carries a request out and the caller sees an error
\*   stale   a reconcile starts before the informer caught up with the object
\*   refuse  metal-API is out of order and refuses to create a machine
\*   lookup  an object a reconcile refers to is not found in the cache
FaultKinds == {"crash", "patch", "reply", "stale", "refuse", "lookup"}

\* What has struck so far: how many faults, and of which kinds.
FaultLog(max) == [count: 0..max, kinds: SUBSET FaultKinds]

NoFault == [count |-> 0, kinds |-> {}]

Struck(log, kind) == [count |-> log.count + 1, kinds |-> log.kinds \cup {kind}]
=============================================================================
