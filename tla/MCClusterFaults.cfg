SPECIFICATION Spec
CONSTANTS
  n1 = n1
  n2 = n2
  u1 = u1
  a1 = a1
  a2 = a2
  Nil = Nil
  Networks <- MCNetworks
  Supplied <- MCSupplied
  IPs <- MCIPs
  Others = 1
  Faults <- MCAllFaults
  MaxFaults = 2
INVARIANTS
  TypeOK
  LeakBound
  LiveNetworkAllocated
  RemovalLeavesNothing
  ReadyRecorded
  NothingForgotten
PROPERTIES
  RecordStable
  KeepsNetwork
SYMMETRY MCSymmetry
