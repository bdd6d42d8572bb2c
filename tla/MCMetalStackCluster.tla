------------------------ MODULE MCMetalStackCluster ------------------------
(***************************************************************************)
(* The MetalStackCluster controller on small instances: two networks the   *)
(* controller may allocate, one a user may name, and two addresses.        *)
(***************************************************************************)
EXTENDS MetalStackCluster, TLC

CONSTANTS n1, n2, u1, a1, a2

MCNetworks == {n1, n2, u1}
MCOneNetwork == {n1}
MCSupplied == {u1}
MCNoneSupplied == {}
MCIPs == {a1, a2}
MCOneIP == {a1}

\* Networks, and addresses, a user does not name are interchangeable.
MCSymmetry == Permutations({n1, n2}) \cup Permutations({a1, a2})

MCNoFaults == {}
MCAllFaults == FaultKinds
MCStale == {"stale"}
MCCrash == {"crash"}
=============================================================================
