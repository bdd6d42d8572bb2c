SPECIFICATION FairSpec
CONSTANTS
  m1 = m1
  m2 = m2
  m3 = m3
  Nil = Nil
  Malformed = Malformed
  Machines <- MCFewMachines
  Foreign <- MCNoForeign
  Faults <- MCNoFaults
  MaxFaults = 0
PROPERTIES
  DeletionCompletes
CHECK_DEADLOCK FALSE
