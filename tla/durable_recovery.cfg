SPECIFICATION FairSpec
CONSTANTS
  s1 = s1
  s2 = s2
  w1 = w1
  w2 = w2
  c1 = c1
  c2 = c2
  hA = hA
  hB = hB
  kA = kA
  kB = kB
  kC = kC
  None = None
  Gone = Gone
  Runs = {r1}
  Starters = {s1}
  Resumers = {w1}
  Clients = {c1}
  Hosts = {hA, hB}
  HostOf <- Apart2
  Holders = {kA, kB, kC}
  HolderOf <- Holders2
  N = 2
  Body <- SleepAwait
  Swallowers = {}
  OnConflict = "attach"
  Ops = {"deliver", "cancel", "resume", "schedule"}
  MaxFaults = 1
  MaxLapses = 0
PROPERTY DeliveryWakes
PROPERTY AdmittedSettles
PROPERTY OneHistory
