SPECIFICATION Spec
CONSTANTS
  o1 = o1
  o2 = o2
  m1 = m1
  m2 = m2
  m3 = m3
  Nil = Nil
  Malformed = Malformed
  Objects <- MCObjects
  Machines <- MCFewMachines
  Foreign <- MCForeign
  Presets <- MCNamelessPresets
  Unidentified <- MCNameless
  Faults <- MCAllFaults
  MaxFaults = 1
INVARIANTS
  LeakBound
  ReadyHasNode
PROPERTIES
  NoSiblingDelete
