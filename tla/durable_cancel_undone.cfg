SPECIFICATION Spec
CONSTANTS
  s1 = s1
  s2 = s2
  w1 = w1
  w2 = w2
  c1 = c1
  c2 = c2
  hA = hA
  hB = hB
  kA = kA
  kB = kB
  kC = kC
  None = None
  Gone = Gone
  Runs = {r1}
  Starters = {s1}
  Resumers = {w1}
  Clients = {c1}
  Hosts = {hA, hB}
  HostOf <- Apart2
  Holders = {kA, kB, kC}
  HolderOf <- Holders2
  N = 1
  Body <- OneSleep
  Swallowers = {}
  OnConflict = "attach"
  Ops = {"cancel"}
  MaxFaults = 0
  MaxLapses = 0
PROPERTY CancelledIsTerminal
