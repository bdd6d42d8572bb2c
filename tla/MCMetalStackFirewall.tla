------------------------ MODULE MCMetalStackFirewall ------------------------
(***************************************************************************)
(* The MetalStackFirewall controller on small instances.                   *)
(***************************************************************************)
EXTENDS MetalStackFirewall

CONSTANTS m1, m2, m3

MCMachines == {m1, m2, m3}
MCFewMachines == {m1, m2}
MCForeign == {m1}
MCNoForeign == {}

MCNoFaults == {}
MCAllFaults == FaultKinds
=============================================================================
