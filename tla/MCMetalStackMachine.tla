------------------------- MODULE MCMetalStackMachine -------------------------
(***************************************************************************)
(* The MetalStackMachine controller on small instances.                    *)
(***************************************************************************)
EXTENDS MetalStackMachine

CONSTANTS o1, o2, m1, m2, m3

MCObjects == {o1, o2}
MCOneObject == {o1}
MCMachines == {m1, m2, m3}
MCFewMachines == {m1, m2}
MCForeign == {m1}
MCNone == {}
MCNameless == {m2}

\* Nothing preset; nothing that names a machine; a machine that another project may hold,
\* for both objects or for one of them, beside a sibling that names none;
\* and what presets no machine that another project may hold.
MCNoPreset == {[o \in Objects |-> Nil]}
MCNamelessPresets == {[o \in Objects |-> Nil], [o \in Objects |-> IF o = o1 THEN Malformed ELSE Nil]}
MCPresets == {[o \in Objects |-> IF o = o1 THEN p[1] ELSE p[2]] :
                p \in {<<m1, m1>>, <<m1, Malformed>>}}
MCOwnPreset == [Objects -> {Nil, Malformed, m2}]

MCNoFaults == {}
MCAllFaults == FaultKinds
=============================================================================
