----------------------------- MODULE MCProvider -----------------------------
(***************************************************************************)
(* The two controllers with one network, one address and two machines.     *)
(***************************************************************************)
EXTENDS Provider

CONSTANTS m1, m2, a1

MCMachines == {m1, m2}
MCIPs == {a1}
MCPresets == {Nil, m1}
MCFaults == {"crash", "reply"}
=============================================================================
