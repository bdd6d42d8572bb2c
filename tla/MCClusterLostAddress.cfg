SPECIFICATION FairSpec
CONSTANTS
  n1 = n1
  n2 = n2
  u1 = u1
  a1 = a1
  a2 = a2
  Nil = Nil
  Networks <- MCNetworks
  Supplied <- MCSupplied
  IPs <- MCIPs
  Others = 2
  Faults <- MCCrash
  MaxFaults = 1
PROPERTIES
  EventuallyReady
