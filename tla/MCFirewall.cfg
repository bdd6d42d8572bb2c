SPECIFICATION FairSpec
CONSTANTS
  m1 = m1
  m2 = m2
  m3 = m3
  Nil = Nil
  Malformed = Malformed
  Machines <- MCMachines
  Foreign <- MCForeign
  Faults <- MCAllFaults
  MaxFaults = 2
INVARIANTS
  TypeOK
  LeakBound
  RemovalFreesMachine
  NothingForgotten
PROPERTIES
  NoForeignDelete
  KeepsMachine
  EventuallyDeployed
  RecordedDeletionCompletes
CHECK_DEADLOCK FALSE
