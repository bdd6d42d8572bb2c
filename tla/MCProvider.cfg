SPECIFICATION FairSpec
CONSTANTS
  m1 = m1
  m2 = m2
  a1 = a1
  Nil = Nil
  Malformed = Malformed
  Network = Network
  IPs <- MCIPs
  Others = 2
  Machines <- MCMachines
  Presets <- MCPresets
  Faults <- MCFaults
  MaxFaults = 1
INVARIANTS
  RemovalLeavesNoMachine
PROPERTIES
  ClusterAsAssumed
  FirewallAsAssumed
  TeardownCompletes
CHECK_DEADLOCK FALSE
