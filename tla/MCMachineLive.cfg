SPECIFICATION FairSpec
CONSTANTS
  o1 = o1
  o2 = o2
  m1 = m1
  m2 = m2
  m3 = m3
  Nil = Nil
  Malformed = Malformed
  Objects <- MCOneObject
  Machines <- MCFewMachines
  Foreign <- MCForeign
  Presets <- MCOwnPreset
  Unidentified <- MCNone
  Faults <- MCNoFaults
  MaxFaults = 0
PROPERTIES
  EventuallyReadyOrFailed
  RecordedDeletionCompletes
