SPECIFICATION ServicesSpec
CONSTANTS
  N = 4
  Claimers = {k1, k2, k3}
  InOrder = TRUE
  LateRenew = TRUE
  NoCell = NoCell
  Nobody = Nobody
  Calls = {a1, a2, a3}
  MaxBeats = 1
  MaxLapses = 1
  MaxExpiries = 1
  MaxFaults = 1
  s1 = s1
  s2 = s2
  s3 = s3
  p1 = p1
  p2 = p2
  Sections = {s1, s2, s3}
  Processes = {p1, p2}
  ProcessOf <- Placement
  Detach = TRUE
  MaxLeaseLapses = 1
  MaxDeaths = 1
  t1 = t1
  t2 = t2
  t3 = t3
  f1 = f1
  f2 = f2
  Txs = {t1, t2, t3}
  PrintOf <- Prints
  NoPrint = NoPrint
  NoTx = NoTx
  LocksConflict = FALSE
  MaxRetentions = 2
  Branches = {b1, b2}
  Deliveries = {d1, d2}
  Worker = w
  Unwritten = nobody
  MaxExits = 1
  MaxTicks = 3
  Fleet = {{c1, c4}, {c2}, {c3}}
  NoFile = NoFile
  MaxSilences = 1
  MaxCrashes = 2
  Drains = {g1, g2}
  Named = {g1}
  Resuming = {g2}
  Reservations = {v}
  Readers = {q}
  Cancels = {x}
  Removals = {r}
  Keeper = keeper
  Writer = writer
  NoDrain = NoDrain
  PageSize = 1
  MaxCalls = 3
  MaxRecords = 2
  MaxTroubles = 1
CHECK_DEADLOCK FALSE
INVARIANT InGroupOrder
INVARIANT LogsAreWhole
PROPERTY HistoryStays
INVARIANT OnceAnswers
INVARIANT OneHolder
INVARIANT RecordsOnce
INVARIANT NothingWorksOn
PROPERTY SuccessorsAreSafe
INVARIANT OneWorkload
INVARIANT StatusIsTrue
INVARIANT ConcurrencyBound
