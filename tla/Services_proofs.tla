---------------------------- MODULE Services_proofs ----------------------------
(***************************************************************************)
(* Proofs about the services that coordinate calls: Schedule, Lease.Critical, *)
(* Idempotency.Once, IdempotencySql.Once and the lock of a directory, for   *)
(* any number of calls, sections, processes and transactions and any bounds; *)
(* then what MCServices says of all of them together.                       *)
(***************************************************************************)
EXTENDS MCServices, Journals_proofs, FiniteSetTheorems, TLAPS

-----------------------------------------------------------------------------
(* ScheduleRunner.  The hold is given back last: whoever unwinds past the     *)
(* draining has disarmed the timer and seen the tick in flight end.           *)

ScheduleInv ==
  /\ hold \in {"none", "held", "released"}
  /\ timer \in BOOLEAN /\ inFlight \in BOOLEAN /\ stopped \in BOOLEAN
  /\ unwind \in {"none", "arming", "armed", "draining", "drained", "done"}
  /\ timer = TRUE \/ inFlight = TRUE => hold = "held"
  /\ unwind \in {"none", "arming"} => timer = FALSE /\ inFlight = FALSE
  /\ unwind = "arming" => hold = "held"
  /\ unwind \in {"draining", "drained", "done"} => stopped = TRUE /\ timer = FALSE
  /\ unwind \in {"drained", "done"} => inFlight = FALSE

\* Every step of a schedule keeps the invariant (schedule-runner.ts run, arm, disarm).
LEMMA ScheduleStep ==
  ASSUME ScheduleInv, [ScheduleNext]_scheduleVars
  PROVE  ScheduleInv'
<1> USE DEF ScheduleInv
<1>1. CASE TakeHold
  BY <1>1 DEF TakeHold
<1>2. CASE FirstArm
  BY <1>2 DEF FirstArm, Arm
<1>3. CASE Fire
  BY <1>3 DEF Fire
<1>4. CASE TickSettles
  BY <1>4 DEF TickSettles, Arm
<1>5. CASE Disarm
  BY <1>5 DEF Disarm
<1>6. CASE Drained
  BY <1>6 DEF Drained
<1>7. CASE ReleaseHold
  BY <1>7 DEF ReleaseHold
<1>8. CASE UNCHANGED scheduleVars
  BY <1>8 DEF scheduleVars
<1> QED
  BY <1>1, <1>2, <1>3, <1>4, <1>5, <1>6, <1>7, <1>8 DEF ScheduleNext

LEMMA ScheduleStart == ScheduleInit => ScheduleInv
  BY DEF ScheduleInit, ScheduleInv

LEMMA ScheduleHolds == ScheduleInv => WorksUnderHold
  BY DEF ScheduleInv, WorksUnderHold

\* A schedule ticks, or is about to, only while it holds the application, however the
\* ticks and the teardown fall (schedule-runner.ts run, "drain first, then release").
THEOREM ScheduleWorksUnderHold == ScheduleSpec => []WorksUnderHold
<1>1. ScheduleInv /\ [ScheduleNext]_scheduleVars => ScheduleInv'
  BY ScheduleStep
<1> QED BY <1>1, ScheduleStart, ScheduleHolds, PTL DEF ScheduleSpec

-----------------------------------------------------------------------------
(* LeaseCritical.  A section between its acquisition and its release has its   *)
(* own live record in the store, unless a lease lapsed under a section.        *)

LeaseRecord == lock # NoCell => lock.version = lock.holder /\ lock.settled = FALSE

HolderHasLease ==
  lapses = 0 =>
    \A s \in Sections : section[s] \in Holding => Live(lock) /\ lock.holder = s

LeaseInv == LeaseTypeOK /\ LeaseRecord /\ HolderHasLease

\* The record a section writes.
LEMMA LeaseCell ==
  ASSUME NEW s \in Sections
  PROVE  /\ Cell(s, FALSE, s) \in Cells(Sections, Sections)
         /\ Cell(s, FALSE, s) # NoCell
         /\ Live(Cell(s, FALSE, s))
         /\ Cell(s, FALSE, s).holder = s /\ Cell(s, FALSE, s).version = s
         /\ Cell(s, FALSE, s).settled = FALSE
<1>1. Cell(s, FALSE, s) \in Cells(Sections, Sections)
  BY DEF Cell, Cells
<1> QED BY <1>1, LeaseConstants DEF Cell, Live

\* A lapse changes nothing else of a record.
LEMMA LapsedLease ==
  ASSUME lock \in Cells(Sections, Sections)
  PROVE  /\ Lapsed(lock) \in Cells(Sections, Sections)
         /\ ~Live(Lapsed(lock))
         /\ Lapsed(lock).holder = lock.holder /\ Lapsed(lock).version = lock.version
         /\ Lapsed(lock).settled = lock.settled
  BY DEF Cells, Lapsed, Live

\* Moving along a call keeps the type.
LEMMA MovesType ==
  ASSUME LeaseTypeOK, NEW s \in Sections, NEW from, NEW to \in SectionStates, Moves(s, from, to)
  PROVE  /\ section' \in [Sections -> SectionStates]
         /\ section[s] = from /\ section'[s] = to
         /\ \A t \in Sections : t # s => section'[t] = section[t]
  BY DEF LeaseTypeOK, Moves

LEMMA LeaseStart == LeaseInit => LeaseInv
<1> SUFFICES ASSUME LeaseInit PROVE LeaseInv
  OBVIOUS
<1>1. 0 \in 0..MaxLeaseLapses /\ 0 \in 0..MaxDeaths
  BY LeaseConstants
<1>2. LeaseTypeOK
  BY <1>1 DEF LeaseInit, LeaseTypeOK, SectionStates
<1>3. LeaseRecord /\ HolderHasLease
  BY DEF LeaseInit, LeaseRecord, HolderHasLease, Holding
<1> QED BY <1>2, <1>3 DEF LeaseInv

\* Every step of Lease.Critical keeps the invariant (critical-controller.ts, mutex.ts).
LEMMA LeaseStep ==
  ASSUME LeaseInv, [LeaseNext]_leaseVars
  PROVE  LeaseInv'
<1>0. LeaseTypeOK /\ LeaseRecord /\ HolderHasLease
  BY DEF LeaseInv
<1> USE DEF SectionStates, Holding
<1>1. ASSUME NEW s \in Sections, Acquire(s) PROVE LeaseInv'
  <2>1. CASE Live(lock)
    <3>1. Moves(s, "idle", "read") /\ UNCHANGED <<lock, active, cancelled, lapses, deaths>>
      BY <1>1, <2>1 DEF Acquire, PutIfAbsent
    <3> QED BY <1>0, <3>1, MovesType
            DEF LeaseInv, LeaseTypeOK, LeaseRecord, HolderHasLease
  <2>2. CASE ~Live(lock)
    <3>1. /\ Moves(s, "idle", "acquired") /\ lock' = Cell(s, FALSE, s)
          /\ UNCHANGED <<active, cancelled, lapses, deaths>>
      BY <1>1, <2>2 DEF Acquire, PutIfAbsent
    <3>2. Live(lock)' /\ lock'.holder = s
      BY <3>1, LeaseCell DEF Live
    <3>3. HolderHasLease'
      BY <1>0, <2>2, <3>1, <3>2, MovesType DEF HolderHasLease
    <3> QED BY <1>0, <3>1, <3>3, MovesType, LeaseCell DEF LeaseInv, LeaseTypeOK, LeaseRecord
  <2> QED BY <2>1, <2>2
<1>2. ASSUME NEW s \in Sections, Denied(s) PROVE LeaseInv'
  BY <1>0, <1>2, MovesType DEF Denied, LeaseInv, LeaseTypeOK, LeaseRecord, HolderHasLease
<1>3. ASSUME NEW s \in Sections, Enter(s) PROVE LeaseInv'
  <2>1. active' \in [Processes -> Sections \cup {Nobody}]
    BY <1>0, <1>3, LeaseConstants DEF Enter, LeaseTypeOK
  <2> QED BY <1>0, <1>3, <2>1, MovesType
          DEF Enter, LeaseInv, LeaseTypeOK, LeaseRecord, HolderHasLease
<1>4. ASSUME NEW s \in Sections, LeaveBody(s) PROVE LeaseInv'
  <2>1. active' \in [Processes -> Sections \cup {Nobody}]
    BY <1>0, <1>4, LeaseConstants DEF LeaveBody, LeaseTypeOK
  <2> QED BY <1>0, <1>4, <2>1, MovesType
          DEF LeaveBody, LeaseInv, LeaseTypeOK, LeaseRecord, HolderHasLease
<1>5. ASSUME NEW s \in Sections, ReleaseLease(s) PROVE LeaseInv'
  <2>1. Moves(s, "release", "ending") /\ UNCHANGED <<active, cancelled, lapses, deaths>>
    BY <1>5 DEF ReleaseLease
  <2>2. CASE Current(lock, s)
    <3>1. lock' = NoCell /\ lock.holder = s /\ Live(lock)
      BY <1>0, <1>5, <2>2 DEF ReleaseLease, CompareAndDelete, Current, LeaseRecord, Live
    <3>2. HolderHasLease'
      BY <1>0, <2>1, <3>1, MovesType DEF HolderHasLease
    <3> QED BY <1>0, <2>1, <3>1, <3>2, MovesType DEF LeaseInv, LeaseTypeOK, LeaseRecord
  <2>3. CASE ~Current(lock, s)
    <3>1. lock' = lock
      BY <1>5, <2>3 DEF ReleaseLease, CompareAndDelete
    <3> QED BY <1>0, <2>1, <3>1, MovesType
            DEF LeaseInv, LeaseTypeOK, LeaseRecord, HolderHasLease
  <2> QED BY <2>2, <2>3
<1>6. ASSUME NEW s \in Sections, Released(s) PROVE LeaseInv'
  BY <1>0, <1>6, MovesType DEF Released, LeaseInv, LeaseTypeOK, LeaseRecord, HolderHasLease
<1>7. ASSUME NEW p \in Processes, NEW named, CancelActive(p, named) PROVE LeaseInv'
  BY <1>0, <1>7 DEF CancelActive, LeaseInv, LeaseTypeOK, LeaseRecord, HolderHasLease
<1>8. CASE LapseLease
  <2>1. lock \in Cells(Sections, Sections)
    BY <1>0, <1>8 DEF LapseLease, Live, LeaseTypeOK
  <2>2. lock' = Lapsed(lock) /\ UNCHANGED <<section, active, cancelled, deaths>>
    BY <1>8 DEF LapseLease
  <2>3. lapses' \in 0..MaxLeaseLapses
    BY <1>0, <1>8, LeaseConstants DEF LapseLease, LeaseTypeOK
  <2>4. LeaseTypeOK'
    BY <1>0, <2>1, <2>2, <2>3, LapsedLease DEF LeaseTypeOK
  <2>5. LeaseRecord'
    BY <1>0, <1>8, <2>1, <2>2, LapsedLease DEF LeaseRecord, LapseLease, Live
  <2>6. ASSUME lapses' = 0 PROVE \A s \in Sections : section[s] \notin Holding
    <3>1. section[lock.holder] \notin Holding /\ lapses = 0
      BY <1>0, <1>8, <2>6, LeaseConstants DEF LapseLease, LeaseTypeOK
    <3> QED BY <1>0, <3>1 DEF HolderHasLease
  <2>7. HolderHasLease'
    BY <2>2, <2>6 DEF HolderHasLease
  <2> QED BY <2>4, <2>5, <2>7 DEF LeaseInv
<1>9. ASSUME NEW p \in Processes, ProcessDies(p) PROVE LeaseInv'
  <2>1. /\ section' \in [Sections -> SectionStates]
        /\ \A s \in Sections : section'[s] \in Holding => section[s] \in Holding
    BY <1>0, <1>9 DEF ProcessDies, LeaseTypeOK
  <2>2. active' \in [Processes -> Sections \cup {Nobody}] /\ deaths' \in 0..MaxDeaths
    BY <1>0, <1>9, LeaseConstants DEF ProcessDies, LeaseTypeOK
  <2> QED BY <1>0, <1>9, <2>1, <2>2
          DEF ProcessDies, LeaseInv, LeaseTypeOK, LeaseRecord, HolderHasLease
<1>10. CASE UNCHANGED leaseVars
  BY <1>0, <1>10 DEF leaseVars, LeaseInv, LeaseTypeOK, LeaseRecord, HolderHasLease, Live
<1> QED
  BY <1>1, <1>2, <1>3, <1>4, <1>5, <1>6, <1>7, <1>8, <1>9, <1>10 DEF LeaseNext

LEMMA LeaseExcludes == LeaseInv => MutualExclusion
  BY DEF LeaseInv, HolderHasLease, MutualExclusion

\* What changes a live lease is its lapse or its holder's release.
LEMMA LeaseIsOwned ==
  ASSUME LeaseInv, [LeaseNext]_leaseVars, NEW s \in Sections,
         Live(lock), lock.holder = s, lock' # lock
  PROVE  lock' = Lapsed(lock) \/ section[s] = "release"
<1>1. ASSUME NEW t \in Sections, Acquire(t) PROVE FALSE
  BY <1>1 DEF Acquire, PutIfAbsent
<1>2. ASSUME NEW t \in Sections, ReleaseLease(t) PROVE section[s] = "release"
  BY <1>2 DEF ReleaseLease, CompareAndDelete, Current, LeaseInv, LeaseRecord, Live, Moves
<1>3. CASE LapseLease
  BY <1>3 DEF LapseLease
<1> QED
  BY <1>1, <1>2, <1>3 DEF LeaseNext, leaseVars, Denied, Enter, LeaveBody, Released,
     CancelActive, ProcessDies

\* LeaseInv holds in every reachable state.
THEOREM LeaseInvariant == LeaseSpec => []LeaseInv
<1>1. LeaseInv /\ [LeaseNext]_leaseVars => LeaseInv'
  BY LeaseStep
<1> QED BY <1>1, LeaseStart, PTL DEF LeaseSpec

\* No two sections of any processes hold the key while no lease lapsed under one, across
\* deaths and late releases (critical-controller.ts, mutex.ts).
THEOREM LeaseMutualExclusion == LeaseSpec => []MutualExclusion
  BY LeaseInvariant, LeaseExcludes, PTL

\* A stale holder never frees its successor's lease (mutex.ts release).
THEOREM LeaseSuccessor == LeaseSpec => SuccessorKeepsLease
<1>1. LeaseInv /\ [LeaseNext]_leaseVars =>
        [\A s \in Sections : Live(lock) /\ lock.holder = s /\ lock' # lock =>
           lock' = Lapsed(lock) \/ section[s] = "release"]_leaseVars
  BY LeaseIsOwned
<1> QED BY <1>1, LeaseInvariant, PTL DEF LeaseSpec, SuccessorKeepsLease

-----------------------------------------------------------------------------
(* IdempotencyLedger.  Whoever is to commit a body is the row's writer, and   *)
(* finds the key absent until it commits; a call that came back for its       *)
(* second pass has seen the retention pass.                                   *)

Recording(t) == tx[t].st \in {"body", "commit"} /\ tx[t].answer = "recorded"

RecorderIsWriter ==
  \A t \in Txs : /\ Recording(t) => writer = t /\ (row.by = NoTx \/ row.expired = TRUE)
                 /\ tx[t].st = "body" => tx[t].answer = "recorded"
                 /\ tx[t].st \in {"idle", "insert", "select"} => tx[t].answer = "none"

BodyHasRow ==
  bodies # {} => row.by \in Txs /\ row.expired = FALSE /\ bodies = {row.by}

PassesTakeRetentions ==
  \A t \in Txs :
    /\ tx[t].st \in {"insert", "select"} => tx[t].attempt >= 1 /\ retentions >= tx[t].attempt - 1
    /\ tx[t].st = "select" /\ (row.by = NoTx \/ row.expired = TRUE)
         => retentions >= tx[t].attempt
    /\ tx[t].answer = "unfound" => retentions >= 2

SweepInv ==
  /\ sweep.stop # "no" => sweep.timer = FALSE
  /\ sweep.stop = "done" => sweep.pass = FALSE

LedgerInv ==
  LedgerTypeOK /\ RecorderIsWriter /\ BodyHasRow /\ PassesTakeRetentions /\ SweepInv

LEMMA LedgerStart == LedgerInit => LedgerInv
<1> SUFFICES ASSUME LedgerInit PROVE LedgerInv
  OBVIOUS
<1>1. 0 \in 0..MaxRetentions
  BY LedgerConstants
<1>2. LedgerTypeOK
  BY <1>1 DEF LedgerInit, LedgerTypeOK, NoRow, TxStates, Open, Replies, Attempts
<1>3. RecorderIsWriter /\ BodyHasRow /\ PassesTakeRetentions /\ SweepInv
  BY DEF LedgerInit, RecorderIsWriter, BodyHasRow, PassesTakeRetentions, SweepInv, Recording
<1> QED BY <1>2, <1>3 DEF LedgerInv

\* A step that moves one transaction and nothing it recorded.
LEMMA TxType ==
  ASSUME LedgerTypeOK, NEW t \in Txs,
         NEW r \in [st : TxStates, attempt : 0..Attempts, answer : Replies],
         tx' = [tx EXCEPT ![t] = r]
  PROVE  /\ tx' \in [Txs -> [st : TxStates, attempt : 0..Attempts, answer : Replies]]
         /\ tx'[t] = r
         /\ \A u \in Txs : u # t => tx'[u] = tx[u]
  BY DEF LedgerTypeOK

\* Every step keeps the invariant (ledger.ts record, row-sweep.ts).
LEMMA LedgerStep ==
  ASSUME LedgerInv, [LedgerNext]_ledgerVars
  PROVE  LedgerInv'
<1>0. LedgerTypeOK /\ RecorderIsWriter /\ BodyHasRow /\ PassesTakeRetentions /\ SweepInv
  BY DEF LedgerInv
<1> USE DEF Attempts, TxStates, Open, Replies
<1>a. MaxRetentions \in Nat /\ retentions \in Nat /\ NoTx \notin Txs
  BY <1>0, LedgerConstants DEF LedgerTypeOK
<1>1. ASSUME NEW t \in Txs, Begin(t) PROVE LedgerInv'
  <2>1. /\ tx[t].st = "idle" /\ tx'[t].st = "insert" /\ tx'[t].attempt = 1
        /\ tx'[t].answer = tx[t].answer
        /\ tx' \in [Txs -> [st : TxStates, attempt : 0..Attempts, answer : Replies]]
        /\ \A u \in Txs : u # t => tx'[u] = tx[u]
    <3> DEFINE r == [tx[t] EXCEPT !.st = "insert", !.attempt = 1]
    <3>1. tx[t].st = "idle" /\ tx' = [tx EXCEPT ![t] = r]
      BY <1>0, <1>1 DEF Begin, LedgerTypeOK
    <3>2. /\ r \in [st : TxStates, attempt : 0..Attempts, answer : Replies]
          /\ r.st = "insert" /\ r.attempt = 1 /\ r.answer = tx[t].answer
      <4>1. tx[t] \in [st : TxStates, attempt : 0..Attempts, answer : Replies]
        BY <1>0 DEF LedgerTypeOK
      <4>2. /\ r \in [st : TxStates, attempt : Nat, answer : Replies]
            /\ r.st = "insert" /\ r.attempt = 1 /\ r.answer = tx[t].answer
        BY <4>1
      <4>3. 1 \in 0..Attempts
        OBVIOUS
      <4> HIDE DEF r
      <4> QED BY <4>2, <4>3
    <3> HIDE DEF r
    <3> QED BY <1>0, <3>1, <3>2, TxType
  <2>2. /\ sweep' \in [started : BOOLEAN, timer : BOOLEAN, pass : BOOLEAN,
                       stop : {"no", "waiting", "done"}]
        /\ SweepInv'
    BY <1>0, <1>1 DEF Begin, LedgerTypeOK, SweepInv
  <2>3. UNCHANGED <<row, writer, bodies, recorders, retentions>>
    BY <1>1 DEF Begin
  <2> QED BY <1>0, <1>a, <2>1, <2>2, <2>3, SMTT(30)
          DEF LedgerInv, LedgerTypeOK, RecorderIsWriter, Recording, BodyHasRow, PassesTakeRetentions
<1>2. ASSUME NEW t \in Txs, InsertRow(t) PROVE LedgerInv'
  <2>1. /\ UNCHANGED <<row, sweep, bodies, recorders, retentions>>
        /\ tx[t].st = "insert" /\ tx'[t].attempt = tx[t].attempt
        /\ tx' \in [Txs -> [st : TxStates, attempt : 0..Attempts, answer : Replies]]
        /\ \A u \in Txs : u # t => tx'[u] = tx[u]
        /\ writer \in {NoTx, t} /\ writer' \in {NoTx, t}
    BY <1>0, <1>2 DEF InsertRow, LedgerTypeOK, Mine
  <2>2. CASE Absent
    <3>1. tx'[t].st = "body" /\ tx'[t].answer = "recorded" /\ writer' = t
      BY <1>0, <1>2, <2>2 DEF InsertRow, LedgerTypeOK
    <3>2. row.by = NoTx \/ row.expired = TRUE
      BY <1>0, <2>2 DEF Absent, LedgerTypeOK
    <3> QED BY <1>0, <1>a, <2>1, <3>1, <3>2 DEF LedgerInv, LedgerTypeOK, RecorderIsWriter,
            Recording, BodyHasRow, PassesTakeRetentions, SweepInv
  <2>3. CASE ~Absent
    <3>1. tx'[t].st = "select" /\ tx'[t].answer = tx[t].answer
      BY <1>0, <1>2, <2>3 DEF InsertRow, LedgerTypeOK
    <3>2. row.by # NoTx /\ row.expired = FALSE
      BY <1>0, <2>3 DEF Absent, LedgerTypeOK
    <3> QED BY <1>0, <1>a, <2>1, <3>1, <3>2 DEF LedgerInv, LedgerTypeOK, RecorderIsWriter,
            Recording, BodyHasRow, PassesTakeRetentions, SweepInv
  <2> QED BY <2>2, <2>3
<1>3. ASSUME NEW t \in Txs, ReadBack(t) PROVE LedgerInv'
  <2>1. /\ UNCHANGED <<row, writer, sweep, bodies, recorders, retentions>>
        /\ tx[t].st = "select"
        /\ \A u \in Txs : u # t => tx'[u] = tx[u]
    BY <1>0, <1>3 DEF ReadBack, LedgerTypeOK
  <2>2. tx[t].attempt \in {1, 2}
    BY <1>0, <2>1 DEF LedgerTypeOK, PassesTakeRetentions
  <2>3. /\ tx' \in [Txs -> [st : TxStates, attempt : 0..Attempts, answer : Replies]]
        /\ \/ tx'[t].st \in {"abort", "commit"} /\ tx'[t].answer \in {"conflict", "duplicate"}
           \/ /\ row.by = NoTx
              /\ \/ tx'[t].st = "abort" /\ tx'[t].answer = "unfound" /\ tx[t].attempt = 2
                 \/ /\ tx'[t].st = "insert" /\ tx'[t].answer = tx[t].answer
                    /\ tx'[t].attempt = tx[t].attempt + 1
    <3>1. tx[t] \in [st : TxStates, attempt : 0..Attempts, answer : Replies]
      BY <1>0 DEF LedgerTypeOK
    <3>2. CASE row.by # NoTx
      <4>1. PICK a \in {"conflict", "duplicate"}, s \in {"abort", "commit"} :
              tx' = [tx EXCEPT ![t] = [tx[t] EXCEPT !.st = s, !.answer = a]]
        BY <1>0, <1>3, <3>2 DEF ReadBack, LedgerTypeOK
      <4> DEFINE r == [tx[t] EXCEPT !.st = s, !.answer = a]
      <4>2. /\ r \in [st : TxStates, attempt : 0..Attempts, answer : Replies]
            /\ r.st \in {"abort", "commit"} /\ r.answer \in {"conflict", "duplicate"}
        BY <3>1
      <4> HIDE DEF r
      <4>3. tx' = [tx EXCEPT ![t] = r]
        BY <4>1 DEF r
      <4> QED BY <1>0, <4>2, <4>3, TxType
    <3>3. CASE row.by = NoTx /\ tx[t].attempt = 2
      <4> DEFINE r == [tx[t] EXCEPT !.st = "abort", !.answer = "unfound"]
      <4>1. tx' = [tx EXCEPT ![t] = r]
        BY <1>0, <1>3, <3>3 DEF ReadBack, LedgerTypeOK, LastAttempt
      <4>2. /\ r \in [st : TxStates, attempt : 0..Attempts, answer : Replies]
            /\ r.st = "abort" /\ r.answer = "unfound"
        BY <3>1
      <4> HIDE DEF r
      <4> QED BY <1>0, <3>3, <4>1, <4>2, TxType
    <3>4. CASE row.by = NoTx /\ tx[t].attempt = 1
      <4> DEFINE r == AnotherPass(tx[t])
      <4>1. tx' = [tx EXCEPT ![t] = r]
        BY <1>3, <3>4 DEF ReadBack, LastAttempt
      <4>2. r = [st |-> "insert", attempt |-> 2, answer |-> tx[t].answer]
        BY <3>4 DEF AnotherPass
      <4>3. r \in [st : TxStates, attempt : 0..Attempts, answer : Replies]
        BY <3>1, <4>2
      <4> HIDE DEF r
      <4>4. /\ tx' \in [Txs -> [st : TxStates, attempt : 0..Attempts, answer : Replies]]
            /\ tx'[t] = r
        BY <1>0, <4>1, <4>3, TxType
      <4>5. tx[t].attempt + 1 = 2
        BY <3>4
      <4> QED BY <3>4, <4>2, <4>4, <4>5
    <3> QED BY <2>2, <3>2, <3>3, <3>4
  <2>4. LedgerTypeOK' /\ BodyHasRow' /\ SweepInv'
    BY <1>0, <2>1, <2>3 DEF LedgerTypeOK, BodyHasRow, SweepInv
  <2>5. RecorderIsWriter'
    BY <1>0, <2>1, <2>3 DEF RecorderIsWriter, Recording
  <2>6. retentions >= tx[t].attempt - 1 /\ (row.by = NoTx => retentions >= tx[t].attempt)
    BY <1>0, <2>1 DEF PassesTakeRetentions
  <2>7. ASSUME NEW u \in Txs
        PROVE  /\ tx'[u].st \in {"insert", "select"}
                    => tx'[u].attempt >= 1 /\ retentions >= tx'[u].attempt - 1
               /\ tx'[u].st = "select" /\ (row.by = NoTx \/ row.expired = TRUE)
                    => retentions >= tx'[u].attempt
               /\ tx'[u].answer = "unfound" => retentions >= 2
    <3>1. CASE u = t
      <4>1. CASE tx'[t].st \in {"abort", "commit"} /\ tx'[t].answer \in {"conflict", "duplicate"}
        BY <3>1, <4>1
      <4>2. CASE row.by = NoTx /\ tx'[t].st = "abort" /\ tx'[t].answer = "unfound"
                 /\ tx[t].attempt = 2
        BY <2>6, <3>1, <4>2
      <4>3. CASE /\ row.by = NoTx /\ tx'[t].st = "insert" /\ tx'[t].answer = tx[t].answer
                 /\ tx'[t].attempt = tx[t].attempt + 1
        BY <1>0, <1>a, <2>1, <2>2, <2>6, <3>1, <4>3 DEF RecorderIsWriter
      <4> QED BY <2>3, <4>1, <4>2, <4>3
    <3>2. CASE u # t
      BY <1>0, <2>1, <3>2 DEF PassesTakeRetentions
    <3> QED BY <3>1, <3>2
  <2>8. PassesTakeRetentions'
    BY <2>1, <2>7 DEF PassesTakeRetentions
  <2> QED BY <2>4, <2>5, <2>8 DEF LedgerInv
<1>4. ASSUME NEW t \in Txs, BodyRuns(t) PROVE LedgerInv'
  <2>1. /\ UNCHANGED <<row, writer, sweep, bodies, recorders, retentions>>
        /\ tx[t].st = "body" /\ tx'[t].st \in {"commit", "abort"}
        /\ tx'[t].answer = tx[t].answer
        /\ tx' \in [Txs -> [st : TxStates, attempt : 0..Attempts, answer : Replies]]
        /\ \A u \in Txs : u # t => tx'[u] = tx[u]
    BY <1>0, <1>4 DEF BodyRuns, LedgerTypeOK
  <2> QED BY <1>0, <1>a, <2>1 DEF LedgerInv, LedgerTypeOK, RecorderIsWriter,
          Recording, BodyHasRow, PassesTakeRetentions, SweepInv
<1>5. ASSUME NEW t \in Txs, CommitAttempt(t) PROVE LedgerInv'
  <2>1. /\ UNCHANGED <<sweep, retentions>>
        /\ tx[t].st = "commit" /\ tx'[t].st = "committed" /\ tx'[t].answer = tx[t].answer
        /\ tx' \in [Txs -> [st : TxStates, attempt : 0..Attempts, answer : Replies]]
        /\ \A u \in Txs : u # t => tx'[u] = tx[u]
        /\ writer' = IF writer = t THEN NoTx ELSE writer
    BY <1>0, <1>5 DEF CommitAttempt, LedgerTypeOK, Unlock
  <2>2. CASE tx[t].answer = "recorded"
    <3>1. row' = [by |-> t, expired |-> FALSE]
          /\ bodies' = bodies \cup {t} /\ recorders' = recorders \cup {t}
      BY <1>5, <2>2 DEF CommitAttempt
    <3>2. writer = t /\ (row.by = NoTx \/ row.expired = TRUE)
      BY <1>0, <2>1, <2>2 DEF RecorderIsWriter, Recording
    <3>3. bodies' = {t}
      BY <1>0, <1>a, <3>1, <3>2 DEF BodyHasRow
    <3>4. LedgerTypeOK'
      BY <1>0, <2>1, <3>1, <3>2 DEF LedgerTypeOK
    <3>5. BodyHasRow' /\ SweepInv'
      BY <1>0, <2>1, <3>1, <3>3 DEF BodyHasRow, SweepInv
    <3>6. RecorderIsWriter'
      BY <1>0, <2>1, <3>2 DEF RecorderIsWriter, Recording
    <3>7. PassesTakeRetentions'
      BY <1>0, <1>a, <2>1, <3>1 DEF PassesTakeRetentions
    <3> QED BY <3>4, <3>5, <3>6, <3>7 DEF LedgerInv
  <2>3. CASE tx[t].answer # "recorded"
    <3>1. UNCHANGED <<row, bodies, recorders>>
      BY <1>5, <2>3 DEF CommitAttempt
    <3> QED BY <1>0, <1>a, <2>1, <2>3, <3>1 DEF LedgerInv, LedgerTypeOK, RecorderIsWriter,
            Recording, BodyHasRow, PassesTakeRetentions, SweepInv
  <2> QED BY <2>2, <2>3
<1>6. ASSUME NEW t \in Txs, RollbackAttempt(t) PROVE LedgerInv'
  <2>1. /\ UNCHANGED <<row, sweep, bodies, recorders, retentions>>
        /\ tx'[t].st = "rolledback" /\ tx'[t].answer = tx[t].answer
        /\ tx' \in [Txs -> [st : TxStates, attempt : 0..Attempts, answer : Replies]]
        /\ \A u \in Txs : u # t => tx'[u] = tx[u]
        /\ writer' = IF writer = t THEN NoTx ELSE writer
    BY <1>0, <1>6 DEF RollbackAttempt, LedgerTypeOK, Unlock
  <2> QED BY <1>0, <1>a, <2>1 DEF LedgerInv, LedgerTypeOK, RecorderIsWriter,
          Recording, BodyHasRow, PassesTakeRetentions, SweepInv
<1>7. CASE RetentionPasses
  <2>1. /\ UNCHANGED <<writer, tx, sweep, recorders>>
        /\ row.by # NoTx /\ row.expired = FALSE
        /\ row'.by = row.by /\ row'.expired = TRUE
        /\ row' \in [by : Txs \cup {NoTx}, expired : BOOLEAN]
        /\ bodies' = {} /\ retentions' = retentions + 1 /\ retentions' \in 0..MaxRetentions
    <3>1. row \in [by : Txs \cup {NoTx}, expired : BOOLEAN] /\ ~Absent
          /\ row' = [row EXCEPT !.expired = TRUE]
      BY <1>0, <1>7 DEF RetentionPasses, LedgerTypeOK
    <3>2. row.by # NoTx /\ row.expired = FALSE
      BY <3>1 DEF Absent
    <3>3. retentions' \in 0..MaxRetentions
      BY <1>a, <1>7 DEF RetentionPasses
    <3> QED BY <1>7, <3>1, <3>2, <3>3 DEF RetentionPasses
  <2>2. \A t \in Txs : tx[t].attempt \in 0..2
    BY <1>0 DEF LedgerTypeOK
  <2> QED BY <1>0, <1>a, <2>1, <2>2 DEF LedgerInv, LedgerTypeOK, RecorderIsWriter,
          Recording, BodyHasRow, PassesTakeRetentions, SweepInv
<1>8. ASSUME UNCHANGED <<writer, tx, bodies, recorders, retentions>>,
             row' = row \/ (row.expired = TRUE /\ row' = NoRow),
             sweep' \in [started : BOOLEAN, timer : BOOLEAN, pass : BOOLEAN,
                         stop : {"no", "waiting", "done"}],
             SweepInv'
      PROVE  LedgerInv'
  <2>1. /\ row' \in [by : Txs \cup {NoTx}, expired : BOOLEAN]
        /\ (row'.by = NoTx \/ row'.expired = TRUE) <=> (row.by = NoTx \/ row.expired = TRUE)
        /\ bodies # {} => row' = row
    <3>1. CASE row' = row
      BY <1>0, <3>1 DEF LedgerTypeOK
    <3>2. CASE row.expired = TRUE /\ row' = NoRow
      <4>1. row' \in [by : Txs \cup {NoTx}, expired : BOOLEAN] /\ row'.by = NoTx
        BY <3>2 DEF NoRow
      <4> QED BY <1>0, <3>2, <4>1 DEF BodyHasRow
    <3> QED BY <1>8, <3>1, <3>2
  <2> QED BY <1>0, <1>8, <2>1 DEF LedgerInv, LedgerTypeOK, RecorderIsWriter,
          Recording, BodyHasRow, PassesTakeRetentions
<1>9. CASE RunSweep
  BY <1>0, <1>8, <1>9 DEF RunSweep, LedgerTypeOK, SweepInv
<1>10. CASE SweepFires
  BY <1>0, <1>8, <1>10 DEF SweepFires, LedgerTypeOK, SweepInv
<1>11. CASE SweepBatch
  <2>1. row' = row \/ (row.expired = TRUE /\ row' = NoRow)
    BY <1>0, <1>11 DEF SweepBatch, LedgerTypeOK
  <2>2. /\ sweep' \in [started : BOOLEAN, timer : BOOLEAN, pass : BOOLEAN,
                       stop : {"no", "waiting", "done"}]
        /\ SweepInv'
    BY <1>0, <1>11 DEF SweepBatch, LedgerTypeOK, SweepInv
  <2> QED BY <1>8, <1>11, <2>1, <2>2 DEF SweepBatch
<1>12. CASE StopSweep
  BY <1>0, <1>8, <1>12 DEF StopSweep, LedgerTypeOK, SweepInv
<1>13. CASE SweepStopped
  BY <1>0, <1>8, <1>13 DEF SweepStopped, LedgerTypeOK, SweepInv
<1>14. CASE UNCHANGED ledgerVars
  BY <1>0, <1>14 DEF ledgerVars, LedgerInv, LedgerTypeOK, RecorderIsWriter,
     Recording, BodyHasRow, PassesTakeRetentions, SweepInv
<1> QED
  BY <1>1, <1>2, <1>3, <1>4, <1>5, <1>6, <1>7, <1>9, <1>10, <1>11, <1>12, <1>13, <1>14
  DEF LedgerNext

LEMMA LedgerRecordsOnce == LedgerInv => RecordsOnce
<1> SUFFICES ASSUME LedgerInv PROVE RecordsOnce
  OBVIOUS
<1>1. Cardinality(bodies) <= 1
  <2>1. bodies = {} \/ bodies = {row.by}
    BY DEF LedgerInv, BodyHasRow
  <2>2. Cardinality({}) = 0 /\ Cardinality({row.by}) = 1
    BY FS_EmptySet, FS_Singleton
  <2> QED BY <2>1, <2>2
<1>2. ASSUME retentions <= 1, NEW t \in Txs PROVE tx[t].answer # "unfound"
  BY <1>2 DEF LedgerInv, PassesTakeRetentions, LedgerTypeOK
<1> QED BY <1>1, <1>2 DEF RecordsOnce

LEMMA LedgerSweepStops == LedgerInv => SweepStops
  BY DEF LedgerInv, SweepInv, SweepStops

\* LedgerInv holds in every reachable state.
THEOREM LedgerInvariant == LedgerSpec => []LedgerInv
<1>1. LedgerInv /\ [LedgerNext]_ledgerVars => LedgerInv'
  BY LedgerStep
<1> QED BY <1>1, LedgerStart, PTL DEF LedgerSpec

\* Within a retention one committed transaction ran the body, and two passes are enough
\* for record(), for any number of transactions (ledger.ts record).
THEOREM LedgerOnce == LedgerSpec => []RecordsOnce
  BY LedgerInvariant, LedgerRecordsOnce, PTL

\* A stopped sweep leaves neither a pass nor a timer (row-sweep.ts stop).
THEOREM LedgerSweep == LedgerSpec => []SweepStops
  BY LedgerInvariant, LedgerSweepStops, PTL

-----------------------------------------------------------------------------
(* IdempotencyOnce.  A revision names the call that wrote it, and a call knows *)
(* none of its own settlement: a store operation conditional on one a call     *)
(* knows finds that call's own live claim or does nothing.  Hence a settled    *)
(* record stays until its retention passes, and a claim until it lapses.       *)

Known(c, v) == v \in Versions /\ v[1] = c /\ v[2] \in 0..MaxBeats

VersionsAreKnown ==
  \A c \in Calls : /\ Known(c, call[c].version)
                   /\ \A i \in Beats : Known(c, beat[c][i].version)

CellIsWritten ==
  cell # NoCell => /\ cell.version[1] = cell.holder
                   /\ cell.settled = TRUE <=> cell.version[2] = MaxBeats + 1
                   /\ cell.settled = TRUE => cell.holder \in performed

PerformedFirst ==
  \A c \in Calls : /\ call[c].st = "settle" => c \in performed
                   /\ call[c].st = "replayed" => call[c].value \in performed

WorkerHasClaim ==
  spent.lapses = 0 =>
    \A c \in Calls : call[c].st \in Working
                       => Live(cell) /\ cell.holder = c /\ cell.settled = FALSE

AnswerIsRecord ==
  spent.expiries = 0 =>
    \A c \in Calls :
      /\ call[c].st = "fresh" => Live(cell) /\ cell.settled = TRUE /\ cell.holder = c
      /\ call[c].st = "replayed" => /\ Live(cell) /\ cell.settled = TRUE
                                    /\ cell.holder = call[c].value

OnceInv ==
  /\ OnceTypeOK /\ VersionsAreKnown /\ CellIsWritten /\ PerformedFirst
  /\ WorkerHasClaim /\ AnswerIsRecord

\* The records a call writes: its claim and its renewals, and its settlement.
ClaimBy(c, n) == Cell(c, FALSE, <<c, n>>)
SettledBy(c, n) == Cell(c, TRUE, <<c, n>>)

LEMMA ClaimCell ==
  ASSUME NEW c \in Calls, NEW n \in 0..(MaxBeats + 1)
  PROVE  /\ ClaimBy(c, n) \in Cells(Calls, Versions) /\ ClaimBy(c, n) # NoCell /\ Live(ClaimBy(c, n))
         /\ ClaimBy(c, n).holder = c /\ ClaimBy(c, n).settled = FALSE
         /\ ClaimBy(c, n).version = <<c, n>>
<1>1. <<c, n>> \in Versions
  BY DEF Versions
<1>2. ClaimBy(c, n) \in Cells(Calls, Versions)
  BY <1>1 DEF ClaimBy, Cell, Cells
<1> QED BY <1>2, OnceConstants DEF ClaimBy, Cell, Live, Versions

LEMMA SettledCell ==
  ASSUME NEW c \in Calls, NEW n \in 0..(MaxBeats + 1)
  PROVE  /\ SettledBy(c, n) \in Cells(Calls, Versions) /\ SettledBy(c, n) # NoCell /\ Live(SettledBy(c, n))
         /\ SettledBy(c, n).holder = c /\ SettledBy(c, n).settled = TRUE
         /\ SettledBy(c, n).version = <<c, n>>
<1>1. <<c, n>> \in Versions
  BY DEF Versions
<1>2. SettledBy(c, n) \in Cells(Calls, Versions)
  BY <1>1 DEF SettledBy, Cell, Cells
<1> QED BY <1>2, OnceConstants DEF SettledBy, Cell, Live, Versions

LEMMA OnceLapsed ==
  ASSUME NEW k \in Cells(Calls, Versions)
  PROVE  /\ Lapsed(k) \in Cells(Calls, Versions) /\ ~Live(Lapsed(k))
         /\ Lapsed(k).holder = k.holder /\ Lapsed(k).version = k.version
         /\ Lapsed(k).settled = k.settled
  BY DEF Cells, Lapsed, Live

LEMMA GoesType ==
  ASSUME OnceTypeOK, NEW c \in Calls, NEW next \in CallStates, Goes(c, next)
  PROVE  /\ call' \in [Calls -> [st : CallStates, version : Versions, value : Calls \cup {Nobody}]]
         /\ call'[c].st = next /\ call'[c].version = call[c].version
         /\ call'[c].value = call[c].value
         /\ \A d \in Calls : d # c => call'[d] = call[d]
  BY DEF OnceTypeOK, Goes

LEMMA SpendType ==
  ASSUME OnceTypeOK, NEW what, NEW max,
         \/ what = "lapses" /\ max = MaxLapses
         \/ what = "expiries" /\ max = MaxExpiries
         \/ what = "faults" /\ max = MaxFaults,
         Spend(what, max)
  PROVE  /\ spent' \in [lapses : 0..MaxLapses, expiries : 0..MaxExpiries, faults : 0..MaxFaults]
         /\ spent'.lapses = 0 => spent.lapses = 0 /\ what # "lapses"
         /\ spent'.expiries = 0 => spent.expiries = 0 /\ what # "expiries"
<1> DEFINE S == [lapses : 0..MaxLapses, expiries : 0..MaxExpiries, faults : 0..MaxFaults]
<1>0. spent \in S /\ {MaxBeats, MaxLapses, MaxExpiries, MaxFaults} \subseteq Nat
  BY OnceConstants DEF OnceTypeOK
<1>1. CASE what = "lapses" /\ max = MaxLapses
  <2>1. spent.lapses < MaxLapses /\ spent' = [spent EXCEPT !.lapses = spent.lapses + 1]
    BY <1>1 DEF Spend
  <2> QED BY <1>0, <1>1, <2>1
<1>2. CASE what = "expiries" /\ max = MaxExpiries
  <2>1. spent.expiries < MaxExpiries /\ spent' = [spent EXCEPT !.expiries = spent.expiries + 1]
    BY <1>2 DEF Spend
  <2> QED BY <1>0, <1>2, <2>1
<1>3. CASE what = "faults" /\ max = MaxFaults
  <2>1. spent.faults < MaxFaults /\ spent' = [spent EXCEPT !.faults = spent.faults + 1]
    BY <1>3 DEF Spend
  <2> QED BY <1>0, <1>3, <2>1
<1> QED BY <1>1, <1>2, <1>3

\* A revision a call knows is current only while its own claim is live.
LEMMA KnownIsOwn ==
  ASSUME OnceTypeOK, CellIsWritten, NEW c \in Calls, NEW v, Known(c, v), Current(cell, v)
  PROVE  /\ Live(cell) /\ cell \in Cells(Calls, Versions)
         /\ cell.holder = c /\ cell.settled = FALSE
<1>1. cell # NoCell /\ cell \in Cells(Calls, Versions) /\ Live(cell) /\ cell.version = v
  BY DEF Current, Live, OnceTypeOK
<1>2. MaxBeats \in Nat /\ v[1] = c /\ v[2] # MaxBeats + 1
  BY OnceConstants DEF Known
<1>3. cell.holder = c
  BY <1>1, <1>2 DEF CellIsWritten
<1>4. cell.settled # TRUE
  BY <1>1, <1>2 DEF CellIsWritten
<1>5. cell.settled \in BOOLEAN
  BY <1>1 DEF Cells
<1> QED BY <1>1, <1>3, <1>4, <1>5

LEMMA OnceStart == OnceInit => OnceInv
<1> SUFFICES ASSUME OnceInit PROVE OnceInv
  OBVIOUS
<1>0. MaxBeats \in Nat /\ 0 \in 0..MaxBeats /\ 0 \in 0..MaxLapses /\ 0 \in 0..MaxExpiries
      /\ 0 \in 0..MaxFaults /\ 0 \in 0..(MaxBeats + 1)
  BY OnceConstants
<1>1. \A c \in Calls : Known(c, <<c, 0>>)
  BY <1>0 DEF Known, Versions
<1>2. \A c \in Calls : <<c, 0>> \in Versions
  BY <1>0 DEF Versions
<1>3. OnceTypeOK
  <2>1. spent \in [lapses : 0..MaxLapses, expiries : 0..MaxExpiries, faults : 0..MaxFaults]
    BY <1>0 DEF OnceInit
  <2>2. call \in [Calls -> [st : CallStates, version : Versions, value : Calls \cup {Nobody}]]
    BY <1>2 DEF OnceInit, ClaimVersion, CallStates
  <2> QED BY <1>2, <2>1, <2>2 DEF OnceInit, OnceTypeOK, ClaimVersion
<1>4. VersionsAreKnown
  BY <1>1 DEF OnceInit, VersionsAreKnown, ClaimVersion
<1>5. CellIsWritten /\ PerformedFirst /\ WorkerHasClaim /\ AnswerIsRecord
  BY DEF OnceInit, CellIsWritten, PerformedFirst, WorkerHasClaim, AnswerIsRecord, Working
<1> QED BY <1>3, <1>4, <1>5 DEF OnceInv

\* A step that leaves the record alone and lets one call go on, not to an answer and not
\* to work, except from work to work.
LEMMA CallGoesOn ==
  ASSUME OnceInv, NEW c \in Calls, NEW next \in CallStates, Goes(c, next),
         next \in Working => call[c].st \in Working,
         next \notin {"fresh", "replayed"}, next = "settle" => c \in performed',
         cell' = cell, performed \subseteq performed', performed' \subseteq Calls,
         beat' \in [Calls -> [Beats -> [st : {"none", "get", "set", "answer", "over"},
                                        version : Versions]]],
         \A d \in Calls : \A i \in Beats : Known(d, beat'[d][i].version),
         spent' \in [lapses : 0..MaxLapses, expiries : 0..MaxExpiries, faults : 0..MaxFaults],
         spent'.lapses = 0 => spent.lapses = 0, spent'.expiries = 0 => spent.expiries = 0
  PROVE  OnceInv'
<1>0. /\ OnceTypeOK /\ VersionsAreKnown /\ CellIsWritten /\ PerformedFirst
      /\ WorkerHasClaim /\ AnswerIsRecord
  BY DEF OnceInv
<1>1. /\ call' \in [Calls -> [st : CallStates, version : Versions, value : Calls \cup {Nobody}]]
      /\ call'[c].st = next /\ call'[c].version = call[c].version
      /\ \A d \in Calls : d # c => call'[d] = call[d]
  BY <1>0, GoesType
<1>2. OnceTypeOK'
  BY <1>0, <1>1 DEF OnceTypeOK
<1>3. VersionsAreKnown'
  <2>1. \A d \in Calls : Known(d, call'[d].version)
    BY <1>0, <1>1 DEF VersionsAreKnown
  <2> QED BY <2>1 DEF VersionsAreKnown, Known
<1>4. CellIsWritten' /\ PerformedFirst'
  BY <1>0, <1>1 DEF CellIsWritten, PerformedFirst
<1>5. WorkerHasClaim' /\ AnswerIsRecord'
  BY <1>0, <1>1 DEF WorkerHasClaim, AnswerIsRecord, Live
<1> QED BY <1>2, <1>3, <1>4, <1>5 DEF OnceInv

\* Renewals only move on, under a revision their call knows.
LEMMA BeatType ==
  ASSUME OnceTypeOK, VersionsAreKnown, NEW c \in Calls, NEW i \in Beats,
         NEW next \in {"none", "get", "set", "answer", "over"}, BeatBecomes(c, i, next)
  PROVE  /\ beat' \in [Calls -> [Beats -> [st : {"none", "get", "set", "answer", "over"},
                                          version : Versions]]]
         /\ \A d \in Calls : \A j \in Beats : Known(d, beat'[d][j].version)
<1>1. beat' \in [Calls -> [Beats -> [st : {"none", "get", "set", "answer", "over"},
                                    version : Versions]]]
  <2> DEFINE B == [st : {"none", "get", "set", "answer", "over"}, version : Versions]
             r == [beat[c][i] EXCEPT !.st = next]
  <2>1. beat \in [Calls -> [Beats -> B]]
    BY DEF OnceTypeOK
  <2>2. r \in B
    BY <2>1
  <2>3. beat' = [beat EXCEPT ![c] = [beat[c] EXCEPT ![i] = r]]
    BY <2>1 DEF BeatBecomes
  <2> HIDE DEF B, r
  <2>4. beat' \in [Calls -> [Beats -> B]]
    BY <2>1, <2>2, <2>3
  <2> QED BY <2>4 DEF B
<1>2. \A d \in Calls : \A j \in Beats : beat'[d][j].version = beat[d][j].version
  BY DEF OnceTypeOK, BeatBecomes
<1> QED BY <1>1, <1>2 DEF VersionsAreKnown

\* A store operation of a call under a revision it knows: the call's own live claim is
\* replaced, by whatever that call writes or by nothing, or the record stays.
LEMMA OwnWrite ==
  ASSUME OnceInv, NEW c \in Calls, NEW v, Known(c, v), Current(cell, v),
         NEW next \in CallStates, Goes(c, next), UNCHANGED <<beat, performed>>,
         \/ cell' = NoCell /\ next \in {"threw", "failed"}
         \/ cell' = Cell(c, TRUE, SettleVersion(c)) /\ next \in {"fresh", "failed"}
            /\ c \in performed,
         spent' \in [lapses : 0..MaxLapses, expiries : 0..MaxExpiries, faults : 0..MaxFaults],
         spent'.lapses = 0 => spent.lapses = 0, spent'.expiries = 0 => spent.expiries = 0
  PROVE  OnceInv'
<1>0. /\ OnceTypeOK /\ VersionsAreKnown /\ CellIsWritten /\ PerformedFirst
      /\ WorkerHasClaim /\ AnswerIsRecord
  BY DEF OnceInv
<1>1. /\ call' \in [Calls -> [st : CallStates, version : Versions, value : Calls \cup {Nobody}]]
      /\ call'[c].st = next /\ call'[c].version = call[c].version
      /\ \A d \in Calls : d # c => call'[d] = call[d]
  BY <1>0, GoesType
<1>2. Live(cell) /\ cell.holder = c /\ cell.settled = FALSE
  BY <1>0, KnownIsOwn
<1>3. /\ SettleVersion(c) = <<c, MaxBeats + 1>>
      /\ MaxBeats + 1 \in 0..(MaxBeats + 1)
  BY OnceConstants DEF SettleVersion
<1> DEFINE new == Cell(c, TRUE, <<c, MaxBeats + 1>>)
<1>4. /\ new \in Cells(Calls, Versions) /\ new # NoCell /\ Live(new)
      /\ new.holder = c /\ new.settled = TRUE
      /\ new.version[1] = c /\ new.version[2] = MaxBeats + 1
  <2>1. PICK n \in 0..(MaxBeats + 1) : n = MaxBeats + 1
    BY <1>3
  <2> DEFINE k == SettledBy(c, n)
  <2>2. /\ k \in Cells(Calls, Versions) /\ k # NoCell /\ Live(k)
        /\ k.holder = c /\ k.settled = TRUE /\ k.version = <<c, n>>
    BY SettledCell
  <2>3. new = k
    BY <2>1 DEF SettledBy
  <2> HIDE DEF new, k
  <2> QED BY <2>1, <2>2, <2>3
<1>5. \/ cell' = NoCell /\ next \in {"threw", "failed"}
      \/ cell' = new /\ next \in {"fresh", "failed"} /\ c \in performed
  BY <1>3
<1> HIDE DEF new
<1>6. OnceTypeOK'
  BY <1>0, <1>1, <1>4, <1>5 DEF OnceTypeOK
<1>7. VersionsAreKnown'
  <2>1. \A d \in Calls : Known(d, call'[d].version)
    BY <1>0, <1>1 DEF VersionsAreKnown
  <2> QED BY <1>0, <2>1 DEF VersionsAreKnown, Known
<1>8. CellIsWritten' /\ PerformedFirst'
  BY <1>0, <1>1, <1>4, <1>5 DEF CellIsWritten, PerformedFirst
<1>9. \A d \in Calls : spent.lapses = 0 /\ d # c => call'[d].st \notin Working
  BY <1>0, <1>1, <1>2 DEF WorkerHasClaim
<1>10. WorkerHasClaim'
  BY <1>1, <1>5, <1>9 DEF WorkerHasClaim, Working
<1>11. \A d \in Calls : spent.expiries = 0 => call[d].st \notin {"fresh", "replayed"}
  BY <1>0, <1>2 DEF AnswerIsRecord
<1>12. AnswerIsRecord'
  BY <1>1, <1>4, <1>5, <1>11 DEF AnswerIsRecord, Live
<1> QED BY <1>6, <1>7, <1>8, <1>10, <1>12 DEF OnceInv

\* A free key is claimed, by a call that goes on to work or never hears of it.
LEMMA FreshClaim ==
  ASSUME OnceInv, NEW c \in Calls, ~Live(cell), NEW next \in {"body", "failed"}, Goes(c, next),
         cell' = Cell(c, FALSE, ClaimVersion(c)), UNCHANGED <<beat, performed>>,
         spent' \in [lapses : 0..MaxLapses, expiries : 0..MaxExpiries, faults : 0..MaxFaults],
         spent'.lapses = 0 => spent.lapses = 0, spent'.expiries = 0 => spent.expiries = 0
  PROVE  OnceInv'
<1>0. /\ OnceTypeOK /\ VersionsAreKnown /\ CellIsWritten /\ PerformedFirst
      /\ WorkerHasClaim /\ AnswerIsRecord
  BY DEF OnceInv
<1>1. /\ call' \in [Calls -> [st : CallStates, version : Versions, value : Calls \cup {Nobody}]]
      /\ call'[c].st = next /\ call'[c].version = call[c].version
      /\ \A d \in Calls : d # c => call'[d] = call[d]
  BY <1>0, GoesType DEF CallStates, Working, Answers
<1>2. /\ cell' \in Cells(Calls, Versions) /\ Live(cell')
      /\ cell'.holder = c /\ cell'.settled = FALSE
      /\ cell'.version[1] = c /\ cell'.version[2] = 0
  <2>1. 0 \in 0..(MaxBeats + 1)
    BY OnceConstants
  <2> DEFINE k == ClaimBy(c, 0)
  <2>2. /\ k \in Cells(Calls, Versions) /\ k # NoCell /\ Live(k)
        /\ k.holder = c /\ k.settled = FALSE /\ k.version = <<c, 0>>
    BY <2>1, ClaimCell
  <2>3. cell' = k
    BY DEF ClaimVersion, ClaimBy
  <2> HIDE DEF k
  <2>4. /\ cell' \in Cells(Calls, Versions) /\ Live(cell')
        /\ cell'.holder = c /\ cell'.settled = FALSE /\ cell'.version = <<c, 0>>
    BY <2>2, <2>3 DEF Live
  <2>5. <<c, 0>>[1] = c /\ <<c, 0>>[2] = 0
    OBVIOUS
  <2> QED BY <2>4, <2>5
<1>3. OnceTypeOK'
  BY <1>0, <1>1, <1>2 DEF OnceTypeOK
<1>4. VersionsAreKnown'
  <2>1. \A d \in Calls : Known(d, call'[d].version)
    BY <1>0, <1>1 DEF VersionsAreKnown
  <2> QED BY <1>0, <2>1 DEF VersionsAreKnown, Known
<1>5. CellIsWritten' /\ PerformedFirst'
  <2>1. MaxBeats + 1 # 0
    BY OnceConstants
  <2> QED BY <1>0, <1>1, <1>2, <2>1 DEF CellIsWritten, PerformedFirst
<1>6. \A d \in Calls : spent.lapses = 0 => call[d].st \notin Working
  BY <1>0 DEF WorkerHasClaim
<1>7. \A d \in Calls : spent.expiries = 0 => call[d].st \notin {"fresh", "replayed"}
  BY <1>0 DEF AnswerIsRecord
<1>8. WorkerHasClaim' /\ AnswerIsRecord'
  BY <1>1, <1>2, <1>6, <1>7 DEF WorkerHasClaim, AnswerIsRecord, Working, Live
<1> QED BY <1>3, <1>4, <1>5, <1>8 DEF OnceInv

\* Every step keeps the invariant (once.ts, keyed-claim.ts).
LEMMA OnceStep ==
  ASSUME OnceInv, [OnceNext]_onceVars
  PROVE  OnceInv'
<1>0. /\ OnceTypeOK /\ VersionsAreKnown /\ CellIsWritten /\ PerformedFirst
      /\ WorkerHasClaim /\ AnswerIsRecord
  BY DEF OnceInv
<1> USE DEF CallStates, Working, Answers
<1>a. /\ beat \in [Calls -> [Beats -> [st : {"none", "get", "set", "answer", "over"},
                                       version : Versions]]]
      /\ \A d \in Calls : \A i \in Beats : Known(d, beat[d][i].version)
      /\ spent \in [lapses : 0..MaxLapses, expiries : 0..MaxExpiries, faults : 0..MaxFaults]
      /\ performed \subseteq Calls
  BY <1>0 DEF OnceTypeOK, VersionsAreKnown
<1>b. \A c \in Calls : Known(c, call[c].version)
  BY <1>0 DEF VersionsAreKnown
<1>c. ASSUME Spend("faults", MaxFaults)
      PROVE  /\ spent' \in [lapses : 0..MaxLapses, expiries : 0..MaxExpiries, faults : 0..MaxFaults]
             /\ spent'.lapses = 0 => spent.lapses = 0
             /\ spent'.expiries = 0 => spent.expiries = 0
  BY <1>0, <1>c, SpendType
<1>1. ASSUME NEW c \in Calls, Claim(c) PROVE OnceInv'
  <2>1. CASE Live(cell)
    <3>1. Goes(c, "read") /\ UNCHANGED <<cell, beat, performed, spent>>
      BY <1>1, <2>1 DEF Claim, PutIfAbsent
    <3> QED BY <1>a, <3>1, CallGoesOn
  <2>2. CASE ~Live(cell)
    <3>1. /\ Goes(c, "body") /\ cell' = Cell(c, FALSE, ClaimVersion(c))
          /\ UNCHANGED <<beat, performed, spent>>
      BY <1>1, <2>2 DEF Claim, PutIfAbsent
    <3> QED BY <1>a, <2>2, <3>1, FreshClaim
  <2> QED BY <2>1, <2>2
<1>2. ASSUME NEW c \in Calls, ClaimFails(c) PROVE OnceInv'
  <2>1. Goes(c, "failed") /\ Spend("faults", MaxFaults) /\ UNCHANGED <<beat, performed>>
    BY <1>2 DEF ClaimFails
  <2>2. CASE cell' = cell
    BY <1>a, <1>c, <2>1, <2>2, CallGoesOn
  <2>3. CASE cell' # cell
    <3>1. ~Live(cell) /\ cell' = Cell(c, FALSE, ClaimVersion(c))
      BY <1>2, <2>3 DEF ClaimFails, PutIfAbsent
    <3> QED BY <1>c, <2>1, <3>1, FreshClaim
  <2> QED BY <2>2, <2>3
<1>4. ASSUME NEW c \in Calls, FireBeat(c) PROVE OnceInv'
  <2>1. PICK i \in Beats :
          beat' = [beat EXCEPT ![c][i] = [st |-> "get", version |-> call[c].version]]
    BY <1>4 DEF FireBeat
  <2>2. Known(c, call[c].version) /\ call[c].version \in Versions
    BY <1>b DEF Known
  <2>3. UNCHANGED <<cell, call, performed, spent>>
    BY <1>4 DEF FireBeat
  <2>4. /\ beat' \in [Calls -> [Beats -> [st : {"none", "get", "set", "answer", "over"},
                                         version : Versions]]]
        /\ \A d \in Calls : \A j \in Beats : Known(d, beat'[d][j].version)
    BY <1>a, <2>1, <2>2
  <2>5. OnceTypeOK' /\ VersionsAreKnown'
    BY <1>0, <1>b, <2>3, <2>4 DEF OnceTypeOK, VersionsAreKnown, Known
  <2> QED BY <1>0, <2>3, <2>5
          DEF OnceInv, CellIsWritten, PerformedFirst, WorkerHasClaim, AnswerIsRecord, Live
<1>5. ASSUME NEW c \in Calls, BodyReturns(c) PROVE OnceInv'
  BY <1>5, <1>a, CallGoesOn DEF BodyReturns
<1>6. ASSUME NEW c \in Calls, BodyThrows(c) PROVE OnceInv'
  BY <1>6, <1>a, CallGoesOn DEF BodyThrows
<1>7. ASSUME NEW c \in Calls, Settle(c) PROVE OnceInv'
  <2>0. c \in performed
    BY <1>0, <1>7 DEF Settle, PerformedFirst
  <2>1. CASE Current(cell, call[c].version)
    <3>1. /\ Goes(c, "fresh") /\ cell' = Cell(c, TRUE, SettleVersion(c))
          /\ UNCHANGED <<beat, performed, spent>>
      BY <1>7, <2>1 DEF Settle, CompareAndSet
    <3> QED BY <1>a, <1>b, <2>0, <2>1, <3>1, OwnWrite
  <2>2. CASE ~Current(cell, call[c].version)
    <3>1. Goes(c, "lost") /\ UNCHANGED <<cell, beat, performed, spent>>
      BY <1>7, <2>2 DEF Settle, CompareAndSet
    <3> QED BY <1>a, <3>1, CallGoesOn
  <2> QED BY <2>1, <2>2
<1>8. ASSUME NEW c \in Calls, SettleFails(c) PROVE OnceInv'
  <2>0. c \in performed
    BY <1>0, <1>8 DEF SettleFails, PerformedFirst
  <2>1. Goes(c, "failed") /\ Spend("faults", MaxFaults) /\ UNCHANGED <<beat, performed>>
    BY <1>8 DEF SettleFails
  <2>2. CASE cell' = cell
    BY <1>a, <1>c, <2>1, <2>2, CallGoesOn
  <2>3. CASE cell' # cell
    <3>1. Current(cell, call[c].version) /\ cell' = Cell(c, TRUE, SettleVersion(c))
      BY <1>8, <2>3 DEF SettleFails, CompareAndSet
    <3> QED BY <1>b, <1>c, <2>0, <2>1, <3>1, OwnWrite
  <2> QED BY <2>2, <2>3
<1>9. ASSUME NEW c \in Calls, ReleaseKey(c) PROVE OnceInv'
  <2>1. CASE Current(cell, call[c].version)
    <3>1. Goes(c, "threw") /\ cell' = NoCell /\ UNCHANGED <<beat, performed, spent>>
      BY <1>9, <2>1 DEF ReleaseKey, CompareAndDelete
    <3> QED BY <1>a, <1>b, <2>1, <3>1, OwnWrite
  <2>2. CASE ~Current(cell, call[c].version)
    <3>1. Goes(c, "threw") /\ UNCHANGED <<cell, beat, performed, spent>>
      BY <1>9, <2>2 DEF ReleaseKey, CompareAndDelete
    <3> QED BY <1>a, <3>1, CallGoesOn
  <2> QED BY <2>1, <2>2
<1>10. ASSUME NEW c \in Calls, ReleaseFails(c) PROVE OnceInv'
  <2>1. Goes(c, "failed") /\ Spend("faults", MaxFaults) /\ UNCHANGED <<beat, performed>>
    BY <1>10 DEF ReleaseFails
  <2>2. CASE cell' = cell
    BY <1>a, <1>c, <2>1, <2>2, CallGoesOn
  <2>3. CASE cell' # cell
    <3>1. Current(cell, call[c].version) /\ cell' = NoCell
      BY <1>10, <2>3 DEF ReleaseFails, CompareAndDelete
    <3> QED BY <1>b, <1>c, <2>1, <3>1, OwnWrite
  <2> QED BY <2>2, <2>3
<1>3. ASSUME NEW c \in Calls, ReadWinner(c) PROVE OnceInv'
  <2>1. /\ call[c].st = "read" /\ UNCHANGED <<cell, beat, performed, spent>>
        /\ call'[c].version = call[c].version
        /\ \A d \in Calls : d # c => call'[d] = call[d]
    BY <1>0, <1>3 DEF ReadWinner, OnceTypeOK
  <2>2. CASE Live(cell) /\ cell.settled = TRUE
    <3>1. cell \in Cells(Calls, Versions) /\ cell # NoCell
      BY <1>0, <2>2 DEF Live, OnceTypeOK
    <3>2. cell.holder \in Calls /\ cell.holder \in performed
      BY <1>0, <2>2, <3>1 DEF CellIsWritten, Cells
    <3>3. call' = [call EXCEPT ![c].st = "replayed", ![c].value = cell.holder]
      BY <1>3, <2>2 DEF ReadWinner
    <3>4. /\ call' \in [Calls -> [st : CallStates, version : Versions, value : Calls \cup {Nobody}]]
          /\ call'[c].st = "replayed" /\ call'[c].value = cell.holder
      <4> DEFINE r == [call[c] EXCEPT !.st = "replayed", !.value = cell.holder]
      <4>1. call[c] \in [st : CallStates, version : Versions, value : Calls \cup {Nobody}]
        BY <1>0 DEF OnceTypeOK
      <4>2. /\ r \in [st : CallStates, version : Versions, value : Calls \cup {Nobody}]
            /\ r.st = "replayed" /\ r.value = cell.holder
        BY <3>2, <4>1
      <4>3. call' = [call EXCEPT ![c] = r]
        BY <1>0, <3>3 DEF OnceTypeOK
      <4> HIDE DEF r
      <4> QED BY <1>0, <4>2, <4>3 DEF OnceTypeOK
    <3>5. OnceTypeOK'
      BY <1>0, <2>1, <3>4 DEF OnceTypeOK
    <3>6. VersionsAreKnown'
      BY <1>0, <2>1 DEF VersionsAreKnown, Known
    <3>7. CellIsWritten' /\ PerformedFirst'
      BY <1>0, <2>1, <3>2, <3>4 DEF CellIsWritten, PerformedFirst
    <3>8. WorkerHasClaim' /\ AnswerIsRecord'
      BY <1>0, <2>1, <2>2, <3>4 DEF WorkerHasClaim, AnswerIsRecord, Live
    <3> QED BY <3>5, <3>6, <3>7, <3>8 DEF OnceInv
  <2>3. CASE ~(Live(cell) /\ cell.settled = TRUE)
    <3>1. ~(Live(cell) /\ cell.settled)
      BY <1>0, <2>3 DEF Live, OnceTypeOK, Cells
    <3>2. (IF Live(cell) THEN cell.holder ELSE Nobody) \in Calls \cup {Nobody}
      BY <1>0 DEF Live, OnceTypeOK, Cells
    <3>3. PICK v \in Calls \cup {Nobody} :
            call' = [call EXCEPT ![c].st = "inflight", ![c].value = v]
      BY <1>3, <3>1, <3>2 DEF ReadWinner
    <3>4. /\ call' \in [Calls -> [st : CallStates, version : Versions, value : Calls \cup {Nobody}]]
          /\ call'[c].st = "inflight"
      BY <1>0, <3>3, ZenonT(60) DEF OnceTypeOK
    <3>5. OnceTypeOK'
      BY <1>0, <2>1, <3>4 DEF OnceTypeOK
    <3>6. VersionsAreKnown'
      BY <1>0, <2>1 DEF VersionsAreKnown, Known
    <3>7. CellIsWritten' /\ PerformedFirst'
      BY <1>0, <2>1, <3>4 DEF CellIsWritten, PerformedFirst
    <3>8. WorkerHasClaim' /\ AnswerIsRecord'
      BY <1>0, <2>1, <3>4 DEF WorkerHasClaim, AnswerIsRecord, Live
    <3> QED BY <3>5, <3>6, <3>7, <3>8 DEF OnceInv
  <2> QED BY <2>2, <2>3
<1>d. ASSUME beat' \in [Calls -> [Beats -> [st : {"none", "get", "set", "answer", "over"},
                                            version : Versions]]],
             \A d \in Calls : \A i \in Beats : Known(d, beat'[d][i].version),
             UNCHANGED <<cell, call, performed>>,
             UNCHANGED spent \/ Spend("faults", MaxFaults)
      PROVE  OnceInv'
  <2>0. /\ spent' \in [lapses : 0..MaxLapses, expiries : 0..MaxExpiries, faults : 0..MaxFaults]
        /\ spent'.lapses = 0 => spent.lapses = 0
        /\ spent'.expiries = 0 => spent.expiries = 0
    BY <1>a, <1>c, <1>d
  <2>1. OnceTypeOK' /\ VersionsAreKnown'
    BY <1>0, <1>b, <1>d, <2>0 DEF OnceTypeOK, VersionsAreKnown, Known
  <2> QED BY <1>0, <1>d, <2>0, <2>1
          DEF OnceInv, CellIsWritten, PerformedFirst, WorkerHasClaim, AnswerIsRecord, Live
<1>11. ASSUME NEW c \in Calls, NEW i \in Beats, BeatRead(c, i) PROVE OnceInv'
  <2>1. PICK next \in {"set", "over"} : BeatBecomes(c, i, next)
    BY <1>11 DEF BeatRead
  <2> QED BY <1>0, <1>11, <1>d, <2>1, BeatType DEF BeatRead
<1>12. ASSUME NEW c \in Calls, NEW i \in Beats, BeatFails(c, i) PROVE OnceInv'
  BY <1>0, <1>12, <1>d, BeatType DEF BeatFails
<1>13. ASSUME NEW c \in Calls, NEW i \in Beats, BeatWrite(c, i) PROVE OnceInv'
  <2> DEFINE v == beat[c][i].version
  <2>1. UNCHANGED <<call, performed, spent>> /\ Known(c, v)
    BY <1>13, <1>a DEF BeatWrite
  <2>2. CASE Current(cell, v)
    <3>1. BeatBecomes(c, i, "answer") /\ cell' = ClaimBy(c, i)
      BY <1>13, <2>2 DEF BeatWrite, CompareAndSet, BeatVersion, ClaimBy
    <3>2. i \in 0..(MaxBeats + 1) /\ i # MaxBeats + 1
      BY OnceConstants DEF Beats
    <3>3. /\ cell' \in Cells(Calls, Versions) /\ cell' # NoCell /\ Live(ClaimBy(c, i))
          /\ cell'.holder = c /\ cell'.settled = FALSE /\ cell'.version = <<c, i>>
      BY <3>1, <3>2, ClaimCell
    <3>4. Live(cell')
      BY <3>1, <3>3 DEF Live
    <3>5. Live(cell) /\ cell.holder = c /\ cell.settled = FALSE
      BY <1>0, <2>1, <2>2, KnownIsOwn
    <3>6. OnceTypeOK' /\ VersionsAreKnown'
      <4>1. /\ beat' \in [Calls -> [Beats -> [st : {"none", "get", "set", "answer", "over"},
                                             version : Versions]]]
            /\ \A d \in Calls : \A j \in Beats : Known(d, beat'[d][j].version)
        BY <1>0, <3>1, BeatType
      <4> QED BY <1>0, <1>b, <2>1, <3>3, <4>1 DEF OnceTypeOK, VersionsAreKnown, Known
    <3>7. CellIsWritten' /\ PerformedFirst'
      <4>1. cell'.version[1] = c /\ cell'.version[2] = i
        BY <3>3
      <4> QED BY <1>0, <2>1, <3>2, <3>3, <4>1 DEF CellIsWritten, PerformedFirst
    <3>8. WorkerHasClaim' /\ AnswerIsRecord'
      BY <1>0, <2>1, <3>3, <3>4, <3>5 DEF WorkerHasClaim, AnswerIsRecord, Live
    <3> QED BY <3>6, <3>7, <3>8 DEF OnceInv
  <2>3. CASE ~Current(cell, v)
    <3>1. BeatBecomes(c, i, "over") /\ UNCHANGED <<cell, call, performed, spent>>
      BY <1>13, <2>1, <2>3 DEF BeatWrite, CompareAndSet
    <3> QED BY <1>0, <1>d, <3>1, BeatType
  <2> QED BY <2>2, <2>3
<1>14. ASSUME NEW c \in Calls, NEW i \in Beats, BeatAnswer(c, i) PROVE OnceInv'
  <2>1. /\ BeatBecomes(c, i, "over") /\ UNCHANGED <<cell, performed, spent>>
        /\ call' = [call EXCEPT ![c].version = <<c, i>>]
    BY <1>14 DEF BeatAnswer, BeatVersion
  <2>2. <<c, i>> \in Versions /\ Known(c, <<c, i>>)
    BY OnceConstants DEF Known, Versions, Beats
  <2>3. /\ call' \in [Calls -> [st : CallStates, version : Versions, value : Calls \cup {Nobody}]]
        /\ call'[c].version = <<c, i>>
        /\ \A d \in Calls : /\ call'[d].st = call[d].st /\ call'[d].value = call[d].value
                            /\ d # c => call'[d].version = call[d].version
    BY <1>0, <2>1, <2>2, ZenonT(60) DEF OnceTypeOK
  <2>4. /\ beat' \in [Calls -> [Beats -> [st : {"none", "get", "set", "answer", "over"},
                                         version : Versions]]]
        /\ \A d \in Calls : \A j \in Beats : Known(d, beat'[d][j].version)
    BY <1>0, <2>1, BeatType
  <2>5. OnceTypeOK'
    BY <1>0, <2>1, <2>3, <2>4 DEF OnceTypeOK
  <2>6. VersionsAreKnown'
    <3>1. \A d \in Calls : Known(d, call'[d].version)
      BY <1>b, <2>2, <2>3
    <3> QED BY <2>4, <3>1 DEF VersionsAreKnown, Known
  <2>7. CellIsWritten' /\ PerformedFirst' /\ WorkerHasClaim' /\ AnswerIsRecord'
    BY <1>0, <2>1, <2>3
       DEF CellIsWritten, PerformedFirst, WorkerHasClaim, AnswerIsRecord, Live
  <2> QED BY <2>5, <2>6, <2>7 DEF OnceInv
<1>15. CASE LapseClaim \/ ExpireRecord
  <2>1. /\ Live(cell) /\ cell # NoCell /\ cell \in Cells(Calls, Versions)
        /\ cell' = Lapsed(cell) /\ UNCHANGED <<call, beat, performed>>
    <3>1. CASE LapseClaim
      BY <1>0, <3>1, OnceConstants DEF LapseClaim, Claimant, Live, OnceTypeOK
    <3>2. CASE ExpireRecord
      BY <1>0, <3>2 DEF ExpireRecord, Live, OnceTypeOK
    <3> QED BY <1>15, <3>1, <3>2
  <2>2. /\ cell' \in Cells(Calls, Versions) /\ cell'.holder = cell.holder
        /\ cell'.version = cell.version /\ cell'.settled = cell.settled
    BY <2>1, OnceLapsed
  <2>3. /\ spent' \in [lapses : 0..MaxLapses, expiries : 0..MaxExpiries, faults : 0..MaxFaults]
        /\ spent'.lapses = 0 => \A c \in Calls : call[c].st \notin Working
        /\ spent'.expiries = 0 => \A c \in Calls : call[c].st \notin {"fresh", "replayed"}
    <3>0. cell.settled \in BOOLEAN /\ cell.holder \in Calls
      BY <2>1 DEF Cells
    <3>1. CASE LapseClaim
      <4>1. cell.settled = FALSE
        BY <2>1, <3>0, <3>1 DEF LapseClaim, Claimant
      <4>2. CASE call[cell.holder].st \in Working
        <5>1. Spend("lapses", MaxLapses)
          BY <3>1, <4>2 DEF LapseClaim
        <5>2. /\ spent' \in [lapses : 0..MaxLapses, expiries : 0..MaxExpiries,
                             faults : 0..MaxFaults]
              /\ spent'.lapses # 0 /\ (spent'.expiries = 0 => spent.expiries = 0)
          BY <1>0, <5>1, SpendType
        <5> QED BY <1>0, <4>1, <5>2 DEF AnswerIsRecord
      <4>3. CASE call[cell.holder].st \notin Working
        <5>1. UNCHANGED spent
          BY <3>1, <4>3 DEF LapseClaim
        <5> QED BY <1>0, <1>a, <4>1, <4>3, <5>1 DEF AnswerIsRecord, WorkerHasClaim
      <4> QED BY <4>2, <4>3
    <3>2. CASE ExpireRecord
      <4>1. cell.settled = TRUE /\ Spend("expiries", MaxExpiries)
        BY <3>0, <3>2 DEF ExpireRecord
      <4>2. /\ spent' \in [lapses : 0..MaxLapses, expiries : 0..MaxExpiries,
                           faults : 0..MaxFaults]
            /\ spent'.expiries # 0 /\ (spent'.lapses = 0 => spent.lapses = 0)
        BY <1>0, <4>1, SpendType
      <4> QED BY <1>0, <4>1, <4>2 DEF WorkerHasClaim
    <3> QED BY <1>15, <3>1, <3>2
  <2>4. OnceTypeOK' /\ VersionsAreKnown'
    BY <1>0, <2>1, <2>2, <2>3 DEF OnceTypeOK, VersionsAreKnown, Known
  <2>5. CellIsWritten' /\ PerformedFirst'
    BY <1>0, <2>1, <2>2 DEF CellIsWritten, PerformedFirst
  <2>6. WorkerHasClaim' /\ AnswerIsRecord'
    BY <2>1, <2>3 DEF WorkerHasClaim, AnswerIsRecord
  <2> QED BY <2>4, <2>5, <2>6 DEF OnceInv
<1>16. ASSUME NEW c \in Calls, Die(c) PROVE OnceInv'
  <2>1. /\ Goes(c, "dead") /\ Spend("faults", MaxFaults) /\ UNCHANGED <<cell, performed>>
    BY <1>16 DEF Die
  <2>2. /\ beat' \in [Calls -> [Beats -> [st : {"none", "get", "set", "answer", "over"},
                                         version : Versions]]]
        /\ \A d \in Calls : \A i \in Beats : beat'[d][i].version = beat[d][i].version
    <3> DEFINE B == [st : {"none", "get", "set", "answer", "over"}, version : Versions]
               r(i) == Orphaned(beat[c][i])
    <3>1. \A i \in Beats : r(i) \in B /\ r(i).version = beat[c][i].version
      BY <1>a, SMTT(30) DEF Orphaned
    <3>2. beat' = [beat EXCEPT ![c] = [i \in Beats |-> r(i)]]
      BY <1>16 DEF Die
    <3>3. beat \in [Calls -> [Beats -> B]]
      BY <1>a
    <3> HIDE DEF r, B
    <3>4. /\ beat' \in [Calls -> [Beats -> B]]
          /\ \A d \in Calls : \A i \in Beats : beat'[d][i].version = beat[d][i].version
      BY <3>1, <3>2, <3>3
    <3> QED BY <3>4 DEF B
  <2>3. \A d \in Calls : \A i \in Beats : Known(d, beat'[d][i].version)
    BY <1>a, <2>2
  <2> QED BY <1>a, <1>c, <2>1, <2>2, <2>3, CallGoesOn
<1>17. CASE UNCHANGED onceVars
  <2>1. UNCHANGED <<cell, call, beat, performed, spent>>
    BY <1>17 DEF onceVars
  <2> QED BY <1>a, <1>d, <2>1
<1> QED BY <1>1, <1>2, <1>3, <1>4, <1>5, <1>6, <1>7, <1>8, <1>9, <1>10, <1>11, <1>12, <1>13,
           <1>14, <1>15, <1>16, <1>17 DEF OnceNext

LEMMA OnceSoleWorker == OnceInv => SoleWorker
  BY DEF OnceInv, WorkerHasClaim, SoleWorker

LEMMA OnceGivesAnswers == OnceInv => OnceAnswers
<1> SUFFICES ASSUME OnceInv PROVE OnceAnswers
  OBVIOUS
<1>1. \A c \in Calls : call[c].st = "replayed" => call[c].value \in performed
  BY DEF OnceInv, PerformedFirst
<1>2. ASSUME spent.expiries = 0, NEW c \in Calls, NEW d \in Calls
      PROVE  /\ call[c].st = "fresh" /\ call[d].st = "fresh" => c = d
             /\ call[c].st = "replayed" /\ call[d].st = "replayed" => call[c].value = call[d].value
             /\ call[c].st = "replayed" /\ call[d].st = "fresh" => call[c].value = d
  BY <1>2 DEF OnceInv, AnswerIsRecord
<1> QED BY <1>1, <1>2 DEF OnceAnswers

\* A live claim ends by a lapse, or while its own call settles or releases.
LEMMA OnceOwned ==
  ASSUME OnceInv, [OnceNext]_onceVars, NEW c \in Calls,
         Claimant(cell) = c, Claimant(cell') # c, Live(cell)
  PROVE  cell' = Lapsed(cell) \/ call[c].st \in {"settle", "release"}
<1>0. OnceTypeOK /\ CellIsWritten /\ \A d \in Calls : Known(d, call[d].version)
  BY DEF OnceInv, VersionsAreKnown
<1>1. cell' # cell /\ cell.holder = c
  BY OnceConstants DEF Claimant
<1>2. ASSUME NEW d \in Calls, Claim(d) \/ ClaimFails(d) PROVE FALSE
  BY <1>1, <1>2 DEF Claim, ClaimFails, PutIfAbsent
<1>3. ASSUME NEW d \in Calls, Settle(d) \/ SettleFails(d) PROVE call[c].st = "settle"
  <2>1. call[d].st = "settle" /\ Current(cell, call[d].version)
    BY <1>1, <1>3 DEF Settle, SettleFails, CompareAndSet
  <2>2. d = c
    BY <1>0, <1>1, <2>1, KnownIsOwn
  <2> QED BY <2>1, <2>2
<1>4. ASSUME NEW d \in Calls, ReleaseKey(d) \/ ReleaseFails(d) PROVE call[c].st = "release"
  <2>1. call[d].st = "release" /\ Current(cell, call[d].version)
    BY <1>1, <1>4 DEF ReleaseKey, ReleaseFails, CompareAndDelete
  <2>2. d = c
    BY <1>0, <1>1, <2>1, KnownIsOwn
  <2> QED BY <2>1, <2>2
<1>5. ASSUME NEW d \in Calls, NEW i \in Beats, BeatWrite(d, i) PROVE FALSE
  <2>1. Current(cell, beat[d][i].version) /\ cell' = ClaimBy(d, i)
    BY <1>1, <1>5 DEF BeatWrite, CompareAndSet, BeatVersion, ClaimBy
  <2>2. Known(d, beat[d][i].version)
    BY DEF OnceInv, VersionsAreKnown
  <2>3. d = c
    BY <1>0, <1>1, <2>1, <2>2, KnownIsOwn
  <2>4. i \in 0..(MaxBeats + 1)
    BY OnceConstants DEF Beats
  <2>5. Live(ClaimBy(c, i)) /\ ClaimBy(c, i).holder = c /\ ClaimBy(c, i).settled = FALSE
    BY <2>4, ClaimCell
  <2>6. Claimant(ClaimBy(c, i)) = c
    BY <2>5 DEF Claimant
  <2> QED BY <2>1, <2>3, <2>6
<1>6. CASE LapseClaim \/ ExpireRecord
  BY <1>6 DEF LapseClaim, ExpireRecord
<1> QED
  BY <1>1, <1>2, <1>3, <1>4, <1>5, <1>6 DEF OnceNext, onceVars, ReadWinner, FireBeat, BodyReturns,
     BodyThrows, Die, BeatRead, BeatAnswer, BeatFails

\* OnceInv holds in every reachable state.
THEOREM OnceInvariant == OnceSpec => []OnceInv
<1>1. OnceInv /\ [OnceNext]_onceVars => OnceInv'
  BY OnceStep
<1> QED BY <1>1, OnceStart, PTL DEF OnceSpec

\* Without a lapse one call at a time works under the key (once.ts, keyed-claim.ts).
THEOREM OnceWorker == OnceSpec => []SoleWorker
  BY OnceInvariant, OnceSoleWorker, PTL

\* Whatever lapses, dies or is renewed late, within a retention one call is told "fresh"
\* and every replay gives that call's result, one whose body returned (once.ts).
THEOREM OnceReplays == OnceSpec => []OnceAnswers
  BY OnceInvariant, OnceGivesAnswers, PTL

\* A live claim is ended by its lapse or by its own call (keyed-claim.ts).
THEOREM OnceSuccessor == OnceSpec => SuccessorIsSafe
<1>1. OnceInv /\ [OnceNext]_onceVars =>
        [\A c \in Calls : Claimant(cell) = c /\ Claimant(cell') # c /\ Live(cell) =>
           \/ cell' = Lapsed(cell)
           \/ call[c].st \in {"settle", "release"}]_onceVars
  BY OnceOwned
<1> QED BY <1>1, OnceInvariant, PTL DEF OnceSpec, SuccessorIsSafe

-----------------------------------------------------------------------------
(* DirectoryLock.  LockExcludes is not inductive: that nobody else enters     *)
(* while a caller is in fn follows from the file at the path being that       *)
(* caller's and recent, from the create on until it removes the file.         *)

\* Whoever is between its create and its removal has its own recent file at the path.
HolderHasFile ==
  silences = 0 /\ raced = FALSE =>
    \A c \in Callers : caller[c] \in InLock => lockFile = [by |-> c, fresh |-> TRUE]

LockInv == LockTypeOK /\ HolderHasFile

\* A caller moves from one place of withFileLock to another; the type is kept.
LEMMA StepsType ==
  ASSUME LockTypeOK, NEW c \in Callers, NEW from,
         NEW to \in Turn \cup {"queued", "raised", "done", "gone"}, Steps(c, from, to)
  PROVE  /\ caller' \in [Callers -> Turn \cup {"queued", "raised", "done", "gone"}]
         /\ caller[c] = from /\ caller'[c] = to
         /\ \A d \in Callers : d # c => caller'[d] = caller[d]
  BY DEF LockTypeOK, Steps

\* A file somebody made is a file.
LEMMA FileOf ==
  \A d \in Callers : [by |-> d, fresh |-> TRUE] # NoFile /\ [by |-> d, fresh |-> TRUE].fresh
<1> SUFFICES ASSUME NEW d \in Callers
             PROVE  [by |-> d, fresh |-> TRUE] # NoFile /\ [by |-> d, fresh |-> TRUE].fresh
  OBVIOUS
<1>1. [by |-> d, fresh |-> TRUE] \in [by : Callers, fresh : BOOLEAN]
  OBVIOUS
<1>2. [by |-> d, fresh |-> TRUE] # NoFile
  BY <1>1, LockConstants
<1> QED BY <1>2

\* Steps that leave the file alone and let nobody into the lock.
LEMMA FileAlone ==
  ASSUME LockInv, UNCHANGED <<lockFile, raced, silences>>,
         \A d \in Callers : caller'[d] \in InLock => caller[d] \in InLock
  PROVE  HolderHasFile'
  BY DEF LockInv, HolderHasFile

\* Init establishes the invariant.
LEMMA LockInvInit == LockInit => LockInv
<1> SUFFICES ASSUME LockInit PROVE LockInv
  OBVIOUS
<1>1. 0 \in 0..MaxSilences /\ 0 \in 0..MaxCrashes
  BY LockConstants
<1>2. \A c \in Callers : caller[c] = "queued"
  BY DEF LockInit
<1>3. LockTypeOK
  BY <1>1 DEF LockInit, LockTypeOK
<1>4. HolderHasFile
  BY <1>2 DEF HolderHasFile, InLock
<1> QED BY <1>3, <1>4 DEF LockInv

\* Every step keeps the type (withFileLock, reclaimIfStale).
LEMMA LockTypeStep ==
  ASSUME LockTypeOK, LockNext
  PROVE  LockTypeOK'
<1>1. ASSUME NEW c \in Callers, TakeTurn(c) PROVE LockTypeOK'
  BY <1>1, StepsType DEF TakeTurn, LockTypeOK, Turn
<1>2. ASSUME NEW c \in Callers, OpenLock(c) PROVE LockTypeOK'
  <2>1. CASE lockFile = NoFile
    <3>1. Steps(c, "open", "write") /\ lockFile' = [by |-> c, fresh |-> TRUE]
          /\ UNCHANGED <<raced, silences, crashes>>
      BY <1>2, <2>1 DEF OpenLock
    <3>2. lockFile' \in [by : Callers, fresh : BOOLEAN]
      BY <3>1
    <3> QED BY <3>1, <3>2, StepsType DEF LockTypeOK, Turn
  <2>2. CASE lockFile # NoFile
    BY <1>2, <2>2, StepsType DEF OpenLock, LockTypeOK, Turn
  <2> QED BY <2>1, <2>2
<1>3. ASSUME NEW c \in Callers, WriteBody(c) PROVE LockTypeOK'
  BY <1>3, StepsType DEF WriteBody, LockTypeOK, Turn
<1>4. ASSUME NEW c \in Callers, Raises(c) PROVE LockTypeOK'
  BY <1>4 DEF Raises, LockTypeOK
<1>5. ASSUME NEW c \in Callers, StatLock(c) PROVE LockTypeOK'
  <2> DEFINE to == IF lockFile = NoFile THEN "open"
                   ELSE IF lockFile.fresh THEN "sleep" ELSE "rename"
  <2>1. Steps(c, "stat", to) /\ UNCHANGED <<lockFile, raced, silences, crashes>>
    BY <1>5 DEF StatLock
  <2>2. to \in Turn
    BY DEF Turn
  <2> HIDE DEF to
  <2> QED BY <2>1, <2>2, StepsType DEF LockTypeOK
<1>6. ASSUME NEW c \in Callers, RenameLock(c) PROVE LockTypeOK'
  <2>1. raced' \in BOOLEAN
    BY <1>6 DEF RenameLock
  <2> QED BY <1>6, <2>1, StepsType DEF RenameLock, LockTypeOK, Turn
<1>7. ASSUME NEW c \in Callers, Wake(c) PROVE LockTypeOK'
  BY <1>7, StepsType DEF Wake, LockTypeOK, Turn
<1>8. ASSUME NEW c \in Callers, Refresh(c) PROVE LockTypeOK'
  BY <1>8 DEF Refresh, LockTypeOK
<1>9. ASSUME NEW c \in Callers, FnSettles(c) PROVE LockTypeOK'
  BY <1>9, StepsType DEF FnSettles, LockTypeOK, Turn
<1>10. ASSUME NEW c \in Callers, RemoveLock(c) PROVE LockTypeOK'
  BY <1>10, StepsType DEF RemoveLock, LockTypeOK, Turn
<1>11. CASE GrowsOld
  <2>1. lockFile \in [by : Callers, fresh : BOOLEAN]
    BY <1>11 DEF GrowsOld, LockTypeOK
  <2>2. lockFile' \in [by : Callers, fresh : BOOLEAN]
    BY <1>11, <2>1 DEF GrowsOld
  <2>3. MaxSilences \in Nat
    BY LockConstants
  <2>4. silences' \in 0..MaxSilences
    BY <1>11, <2>3 DEF GrowsOld, LockTypeOK
  <2> QED BY <1>11, <2>2, <2>4 DEF GrowsOld, LockTypeOK
<1>12. ASSUME NEW p \in Fleet, Crash(p) PROVE LockTypeOK'
  BY <1>12, LockConstants DEF Crash, LockTypeOK
<1> QED
  BY <1>1, <1>2, <1>3, <1>4, <1>5, <1>6, <1>7, <1>8, <1>9, <1>10, <1>11, <1>12 DEF LockNext

\* Every step keeps the holder's file where the holder put it.
LEMMA HolderStep ==
  ASSUME LockInv, LockNext
  PROVE  HolderHasFile'
<1> USE DEF InLock
<1>0. LockTypeOK /\ HolderHasFile
  BY DEF LockInv
<1>1. ASSUME NEW c \in Callers, TakeTurn(c) PROVE HolderHasFile'
  BY <1>0, <1>1, FileAlone, StepsType DEF TakeTurn, Turn
<1>2. ASSUME NEW c \in Callers, OpenLock(c) PROVE HolderHasFile'
  <2>1. CASE lockFile = NoFile
    <3>1. /\ caller[c] = "open" /\ caller'[c] = "write"
          /\ \A d \in Callers : d # c => caller'[d] = caller[d]
          /\ lockFile' = [by |-> c, fresh |-> TRUE]
          /\ UNCHANGED <<raced, silences>>
      BY <1>0, <1>2, <2>1, StepsType DEF OpenLock, Turn
    <3>2. \A d \in Callers : lockFile # [by |-> d, fresh |-> TRUE]
      BY <2>1, FileOf
    <3> QED BY <1>0, <3>1, <3>2 DEF HolderHasFile
  <2>2. CASE lockFile # NoFile
    BY <1>0, <1>2, <2>2, FileAlone, StepsType DEF OpenLock, Turn
  <2> QED BY <2>1, <2>2
<1>3. ASSUME NEW c \in Callers, WriteBody(c) PROVE HolderHasFile'
  BY <1>0, <1>3, FileAlone, StepsType DEF WriteBody, Turn
<1>4. ASSUME NEW c \in Callers, Raises(c) PROVE HolderHasFile'
  BY <1>0, <1>4, FileAlone DEF Raises, LockTypeOK
<1>5. ASSUME NEW c \in Callers, StatLock(c) PROVE HolderHasFile'
  <2> DEFINE to == IF lockFile = NoFile THEN "open"
                   ELSE IF lockFile.fresh THEN "sleep" ELSE "rename"
  <2>1. Steps(c, "stat", to) /\ UNCHANGED <<lockFile, raced, silences, crashes>>
    BY <1>5 DEF StatLock
  <2>2. to \in {"open", "sleep", "rename"}
    OBVIOUS
  <2> HIDE DEF to
  <2> QED BY <1>0, <2>1, <2>2, FileAlone, StepsType DEF Turn
<1>6. ASSUME NEW c \in Callers, RenameLock(c) PROVE HolderHasFile'
  <2>1. /\ caller[c] = "rename" /\ caller'[c] = "open"
        /\ \A d \in Callers : d # c => caller'[d] = caller[d]
    BY <1>0, <1>6, StepsType DEF RenameLock, Turn
  <2>2. ASSUME silences = 0, raced' = FALSE PROVE \A d \in Callers : caller[d] \notin InLock
    <3>1. raced = FALSE /\ ~(lockFile # NoFile /\ lockFile.fresh)
      BY <1>0, <1>6, <2>2 DEF RenameLock, LockTypeOK
    <3>2. \A d \in Callers : lockFile # [by |-> d, fresh |-> TRUE]
      BY <3>1, FileOf
    <3> QED BY <1>0, <2>2, <3>1, <3>2 DEF HolderHasFile
  <2> QED BY <1>6, <2>1, <2>2 DEF RenameLock, HolderHasFile
<1>7. ASSUME NEW c \in Callers, Wake(c) PROVE HolderHasFile'
  BY <1>0, <1>7, FileAlone, StepsType DEF Wake, Turn
<1>8. ASSUME NEW c \in Callers, Refresh(c) PROVE HolderHasFile'
  BY <1>0, <1>8 DEF Refresh, HolderHasFile
<1>9. ASSUME NEW c \in Callers, FnSettles(c) PROVE HolderHasFile'
  BY <1>0, <1>9, FileAlone, StepsType DEF FnSettles, Turn
<1>10. ASSUME NEW c \in Callers, RemoveLock(c) PROVE HolderHasFile'
  <2>1. /\ caller[c] = "rm" /\ caller'[c] = "done"
        /\ \A d \in Callers : d # c => caller'[d] = caller[d]
    BY <1>0, <1>10, StepsType DEF RemoveLock, Turn
  <2>2. \A d \in Callers : [by |-> d, fresh |-> TRUE] = [by |-> c, fresh |-> TRUE] => d = c
    OBVIOUS
  <2> QED BY <1>0, <1>10, <2>1, <2>2 DEF RemoveLock, HolderHasFile
<1>11. CASE GrowsOld
  <2>1. ASSUME silences' = 0 PROVE silences = 0 /\ \A d \in Callers : caller[d] \notin InLock
    BY <1>0, <1>11, <2>1, LockConstants DEF GrowsOld, LockTypeOK
  <2> QED BY <1>11, <2>1 DEF GrowsOld, HolderHasFile
<1>12. ASSUME NEW p \in Fleet, Crash(p) PROVE HolderHasFile'
  BY <1>0, <1>12, FileAlone DEF Crash
<1> QED
  BY <1>1, <1>2, <1>3, <1>4, <1>5, <1>6, <1>7, <1>8, <1>9, <1>10, <1>11, <1>12 DEF LockNext

LEMMA LockStep ==
  ASSUME LockInv, [LockNext]_lockVars
  PROVE  LockInv'
<1>1. CASE LockNext
  BY <1>1, LockTypeStep, HolderStep DEF LockInv
<1>2. CASE UNCHANGED lockVars
  BY <1>2 DEF lockVars, LockInv, LockTypeOK, HolderHasFile
<1> QED BY <1>1, <1>2

LEMMA LockInvExcludes == LockInv => LockExcludes
<1> SUFFICES ASSUME LockInv, silences = 0, ~raced, NEW c \in Callers, NEW d \in Callers,
                    caller[c] = "fn", caller[d] = "fn"
             PROVE  c = d
  BY DEF LockExcludes, Excluded
<1>1. raced = FALSE
  BY DEF LockInv, LockTypeOK
<1>2. [by |-> c, fresh |-> TRUE] = [by |-> d, fresh |-> TRUE]
  BY <1>1 DEF LockInv, HolderHasFile, InLock
<1> QED BY <1>2

\* LockInv holds in every reachable state (directory-lock.ts withFileLock).
THEOREM LockInvariant == LockSpec => []LockInv
<1>1. LockInv /\ [LockNext]_lockVars => LockInv'
  BY LockStep
<1> QED BY <1>1, LockInvInit, PTL DEF LockSpec

\* No two callers populate one directory together, for any number of processes and
\* callers, across crashes and reclaims, as long as heartbeats are in time and no reclaim
\* was overtaken (directory-lock.ts withFileLock).
THEOREM Exclusive == LockSpec => []LockExcludes
  BY LockInvariant, LockInvExcludes, PTL

-----------------------------------------------------------------------------
(* The services together (MCServices).  Each moves alone: a step of the       *)
(* composition is a step of one and a stutter of every other.                 *)

servicesVars == <<component, vars, onceVars, leaseVars, ledgerVars, fileVars, scheduleVars,
                  lockVars, journalVars, stopVars, sessionVars>>

LEMMA ServicesStep ==
  ASSUME [ServicesNext]_servicesVars
  PROVE  /\ [OnceNext]_onceVars /\ [LeaseNext]_leaseVars /\ [LedgerNext]_ledgerVars
         /\ [ScheduleNext]_scheduleVars /\ [LockNext]_lockVars
         /\ [FileNext]_fileVars /\ [JournalNext]_journalVars /\ [Stop!Next]_stopVars
         /\ [Sessions!SessionsNext]_sessionVars
  BY DEF ServicesNext, GroupsMove, OnceMoves, LeaseMoves, LedgerMoves, FileMoves, ScheduleMoves,
     LockMoves, JournalMoves, StopMoves, SessionsMove, servicesVars

\* The worker of MCServices is one of those the proofs of QueueDelivery are about: its
\* constants are as they assume, and its definitions the same.
Delivery == INSTANCE QueueDelivery_proofs WITH
  rows <- wRows, flights <- wFlights, worker <- wWorker, client <- wClient,
  claims <- wClaims, faults <- wFaults, stops <- wStops,
  Workers <- {"v1"}, Ids <- {"m1", "m2"}, Unreadable <- {"m2"}, Concurrency <- 2, Budget <- 1,
  HasOnDead <- FALSE, LapseRetryable <- FALSE, Ops <- {}, MaxClaimWait <- 1,
  Punctual <- TRUE, Prompt <- FALSE, MaxClaims <- 2, MaxFaults <- 0, MaxStops <- 1

LEMMA DeliveryConstants ==
  /\ {"m2"} \subseteq {"m1", "m2"} /\ Delivery!IsFiniteSet({"m1", "m2"})
  /\ 2 \in Nat \ {0} /\ 1 \in Nat \ {0}
  /\ {FALSE, FALSE, TRUE, FALSE} \subseteq BOOLEAN
  /\ {} \subseteq {"cancel", "requeue", "expire"}
  /\ {1, 2, 0, 1} \subseteq Nat
<1>1. IsFiniteSet({"m1"} \cup {"m2"})
  BY FS_EmptySet, FS_AddElement, FS_Singleton
<1>2. {"m1", "m2"} = {"m1"} \cup {"m2"}
  OBVIOUS
<1>3. IsFiniteSet({"m1", "m2"})
  BY <1>1, <1>2
<1>4. Delivery!IsFiniteSet({"m1", "m2"})
  BY <1>3 DEF IsFiniteSet, Delivery!IsFiniteSet
<1> QED BY <1>4

LEMMA SameCardinality == \A S : Stop!Cardinality(S) = Delivery!Cardinality(S)
  BY DEF Stop!Cardinality, Delivery!Cardinality

LEMMA SameMin == \A S : Stop!Min(S) = Delivery!Min(S)
  BY DEF Stop!Min, Delivery!Min

LEMMA SameStart == Stop!Init => Delivery!Init
  BY DEF Stop!Init, Delivery!Init, Stop!NoRow, Delivery!NoRow, Stop!NoToken, Delivery!NoToken,
    Stop!Idle, Delivery!Idle, Stop!NoCancel, Delivery!NoCancel

LEMMA SameSteps == Stop!Next => Delivery!Next
<1>1. Stop!Tick => Delivery!Tick
  BY DEF Stop!Tick, Delivery!Tick, Stop!GiveUpDue, Delivery!GiveUpDue, Stop!Margin, Delivery!Margin,
    Stop!Calling, Delivery!Calling, Stop!Less, Delivery!Less
<1>2. Stop!CancelRequest => Delivery!CancelRequest
  BY DEF Stop!CancelRequest, Delivery!CancelRequest, Stop!NoCancel, Delivery!NoCancel
<1>3. Stop!CancelRead => Delivery!CancelRead
  BY DEF Stop!CancelRead, Delivery!CancelRead, Stop!NoCancel, Delivery!NoCancel
<1>4. \A i : Stop!Enqueue(i) => Delivery!Enqueue(i)
  BY DEF Stop!Enqueue, Delivery!Enqueue, Stop!NoRow, Delivery!NoRow, Stop!NoToken, Delivery!NoToken
<1>5. \A i : Stop!Visible(i) => Delivery!Visible(i)
  BY DEF Stop!Visible, Delivery!Visible
<1>6. \A i : Stop!Expire(i) => Delivery!Expire(i)
  BY DEF Stop!Expire, Delivery!Expire, Stop!NoRow, Delivery!NoRow, Stop!NoToken, Delivery!NoToken
<1>7. \A i : Stop!CancelSettle(i) => Delivery!CancelSettle(i)
  BY DEF Stop!CancelSettle, Delivery!CancelSettle, Stop!NoCancel, Delivery!NoCancel, Stop!Lapsed,
    Delivery!Lapsed, Stop!Settle, Delivery!Settle, Stop!NoToken, Delivery!NoToken
<1>8. \A i : Stop!Requeue(i) => Delivery!Requeue(i)
  BY DEF Stop!Requeue, Delivery!Requeue
<1>9. \A w : Stop!Ask(w) => Delivery!Ask(w)
  BY SameCardinality DEF Stop!Ask, Delivery!Ask, Stop!InFlight, Delivery!InFlight
<1>10. \A w : Stop!ClaimOnce(w) => Delivery!ClaimOnce(w)
  BY SameCardinality, SameMin, ZenonT(60) DEF Stop!ClaimOnce, Delivery!ClaimOnce, Stop!Candidates, Delivery!Candidates,
    Stop!LapsedCandidates, Delivery!LapsedCandidates, Stop!Lapsed, Delivery!Lapsed,
    Stop!VisibleCandidates, Delivery!VisibleCandidates, Stop!MarkRunning, Delivery!MarkRunning,
    Stop!Lease, Delivery!Lease, Stop!SettleLapsedCancels, Delivery!SettleLapsedCancels,
    Stop!Settle, Delivery!Settle, Stop!NoToken, Delivery!NoToken, Stop!ClaimedOf,
    Delivery!ClaimedOf
<1>11. \A w : Stop!Receive(w) => Delivery!Receive(w)
  BY DEF Stop!Receive, Delivery!Receive, Stop!Answered, Delivery!Answered
<1>12. \A w : Stop!GraceOver(w) => Delivery!GraceOver(w)
  BY DEF Stop!GraceOver, Delivery!GraceOver, Stop!LoopOver, Delivery!LoopOver, Stop!InFlight,
    Delivery!InFlight, Stop!HandBack, Delivery!HandBack, Stop!Ended, Delivery!Ended
<1>13. \A w : Stop!Stopped(w) => Delivery!Stopped(w)
  BY DEF Stop!Stopped, Delivery!Stopped, Stop!LoopOver, Delivery!LoopOver, Stop!InFlight,
    Delivery!InFlight
<1>14. \A w : Stop!Restart(w) => Delivery!Restart(w)
  BY DEF Stop!Restart, Delivery!Restart, Stop!Vanish, Delivery!Vanish, Stop!Idle, Delivery!Idle
<1>15. \A w : Stop!ClaimFails(w) => Delivery!ClaimFails(w)
  BY DEF Stop!ClaimFails, Delivery!ClaimFails, Stop!Fault, Delivery!Fault, Stop!Answered,
    Delivery!Answered
<1>16. \A w : Stop!StopBegin(w) => Delivery!StopBegin(w)
  BY DEF Stop!StopBegin, Delivery!StopBegin
<1>17. \A w : Stop!Crash(w) => Delivery!Crash(w)
  BY DEF Stop!Crash, Delivery!Crash, Stop!Fault, Delivery!Fault, Stop!Vanish, Delivery!Vanish,
    Stop!Idle, Delivery!Idle
<1>18. \A f : Stop!Process(f) => Delivery!Process(f)
  BY DEF Stop!Process, Delivery!Process, Stop!With, Delivery!With, Stop!Forget, Delivery!Forget,
    Stop!Spent, Delivery!Spent, Stop!LapseUsedUp, Delivery!LapseUsedUp, Stop!Dead,
    Delivery!Dead, Stop!Sent, Delivery!Sent
<1>19. \A f : Stop!SettleExec(f) => Delivery!SettleExec(f)
  BY DEF Stop!SettleExec, Delivery!SettleExec, Stop!Calling, Delivery!Calling, Stop!HeldBy,
    Delivery!HeldBy, Stop!Written, Delivery!Written, Stop!Settle, Delivery!Settle,
    Stop!NoToken, Delivery!NoToken, Stop!Release, Delivery!Release, Stop!With, Delivery!With,
    Stop!Forget, Delivery!Forget, Stop!Spent, Delivery!Spent
<1>20. \A f : Stop!GiveUp(f) => Delivery!GiveUp(f)
  BY DEF Stop!GiveUp, Delivery!GiveUp, Stop!GiveUpDue, Delivery!GiveUpDue, Stop!Margin,
    Delivery!Margin, Stop!With, Delivery!With, Stop!Forget, Delivery!Forget, Stop!Spent,
    Delivery!Spent, Stop!Ended, Delivery!Ended
<1>21. \A f : Stop!HandBackExec(f) => Delivery!HandBackExec(f)
  BY DEF Stop!HandBackExec, Delivery!HandBackExec, Stop!HeldBy, Delivery!HeldBy, Stop!Release,
    Delivery!Release, Stop!NoToken, Delivery!NoToken, Stop!With, Delivery!With, Stop!Forget,
    Delivery!Forget, Stop!Spent, Delivery!Spent
<1>22. \A f, result : Stop!HandlerReturns(f, result) => Delivery!HandlerReturns(f, result)
  BY DEF Stop!HandlerReturns, Delivery!HandlerReturns, Stop!With, Delivery!With, Stop!Forget,
    Delivery!Forget, Stop!Spent, Delivery!Spent, Stop!Sent, Delivery!Sent, Stop!Dead,
    Delivery!Dead
<1>23. \A f, ok : Stop!OnDeadReturns(f, ok) => Delivery!OnDeadReturns(f, ok)
  BY DEF Stop!OnDeadReturns, Delivery!OnDeadReturns, Stop!With, Delivery!With, Stop!Forget,
    Delivery!Forget, Stop!Spent, Delivery!Spent, Stop!Sent, Delivery!Sent
<1>24. \A f : Stop!RenewSend(f) => Delivery!RenewSend(f)
  BY DEF Stop!RenewSend, Delivery!RenewSend, Stop!Margin, Delivery!Margin, Stop!With, Delivery!With,
    Stop!Forget, Delivery!Forget, Stop!Spent, Delivery!Spent, Stop!Lease, Delivery!Lease
<1>25. \A f : Stop!RenewExec(f) => Delivery!RenewExec(f)
  BY DEF Stop!RenewExec, Delivery!RenewExec, Stop!HeldBy, Delivery!HeldBy, Stop!Settle,
    Delivery!Settle, Stop!NoToken, Delivery!NoToken, Stop!Lease, Delivery!Lease, Stop!With,
    Delivery!With, Stop!Forget, Delivery!Forget, Stop!Spent, Delivery!Spent
<1>26. \A f : Stop!RenewAnswer(f) => Delivery!RenewAnswer(f)
  BY DEF Stop!RenewAnswer, Delivery!RenewAnswer, Stop!With, Delivery!With, Stop!Forget,
    Delivery!Forget, Stop!Spent, Delivery!Spent, Stop!Ended, Delivery!Ended
<1>27. \A f : Stop!RenewFails(f) => Delivery!RenewFails(f)
  BY DEF Stop!RenewFails, Delivery!RenewFails, Stop!With, Delivery!With, Stop!Forget,
    Delivery!Forget, Stop!Spent, Delivery!Spent
<1>28. \A f : Stop!SettleFails(f) => Delivery!SettleFails(f)
  BY DEF Stop!SettleFails, Delivery!SettleFails, Stop!Calling, Delivery!Calling, Stop!Fault,
    Delivery!Fault, Stop!With, Delivery!With, Stop!Forget, Delivery!Forget, Stop!Spent,
    Delivery!Spent
<1>29. \A f : Stop!HandBackFails(f) => Delivery!HandBackFails(f)
  BY DEF Stop!HandBackFails, Delivery!HandBackFails, Stop!Fault, Delivery!Fault, Stop!With,
    Delivery!With, Stop!Forget, Delivery!Forget, Stop!Spent, Delivery!Spent
<1> QED BY <1>1, <1>2, <1>3, <1>4, <1>5, <1>6, <1>7, <1>8, <1>9, <1>10, <1>11, <1>12, <1>13,
           <1>14, <1>15, <1>16, <1>17, <1>18, <1>19, <1>20, <1>21, <1>22, <1>23, <1>24, <1>25,
           <1>26, <1>27, <1>28, <1>29
        DEF Stop!Next, Delivery!Next, Stop!WorkerStep, Delivery!WorkerStep, Stop!FlightStep,
            Delivery!FlightStep, Stop!Renewal, Delivery!Renewal

WorkerInv == Delivery!BaseInv /\ Delivery!RoomInv

LEMMA WorkerStart == Stop!Init => WorkerInv
  BY SameStart, DeliveryConstants, Delivery!BaseStart, Delivery!RoomStart DEF WorkerInv

LEMMA WorkerStep ==
  ASSUME WorkerInv, [Stop!Next]_stopVars
  PROVE  WorkerInv'
<1>1. [Delivery!Next]_(Delivery!vars)
  BY SameSteps DEF stopVars, Delivery!vars
<1>2. Delivery!BaseInv'
  BY <1>1, DeliveryConstants, Delivery!BaseStep DEF WorkerInv
<1>3. Delivery!RoomInv'
  BY <1>1, <1>2, DeliveryConstants, Delivery!RoomStep DEF WorkerInv
<1> QED BY <1>2, <1>3 DEF WorkerInv

LEMMA WorkerBounds == WorkerInv => Stop!StopCancels /\ Stop!ConcurrencyBound
<1>1. Delivery!StopCancels => Stop!StopCancels
  BY DEF Stop!StopCancels, Delivery!StopCancels, Stop!Active, Delivery!Active,
         Stop!Running, Delivery!Running
<1>2. Delivery!ConcurrencyBound => Stop!ConcurrencyBound
  BY SameCardinality DEF Stop!ConcurrencyBound, Delivery!ConcurrencyBound,
         Stop!InFlight, Delivery!InFlight, Stop!Answered, Delivery!Answered
<1> QED BY <1>1, <1>2, DeliveryConstants, Delivery!BaseStops, Delivery!RoomBounds DEF WorkerInv

\* The runner of MCServices is one of those the proofs of RunnerSessions are about, and the
\* definitions of the two instances the same.
SessionsProofs == INSTANCE RunnerSessions_proofs WITH
  record <- hRecord, entry <- hEntry, about <- hAbout, outbox <- hOutbox,
  removing <- hRemoving, pods <- hPods, reserved <- hReserved, stray <- hStray, wear <- hWear,
  Hosted <- {"h"}, MaxSessions <- 1, MaxEpochs <- 6, MaxQueued <- 2, MaxFailures <- 2,
  MaxLostWrites <- 1, MaxRestarts <- 1

LEMMA SessionsCardinality == \A S : Sessions!Cardinality(S) = SessionsProofs!Cardinality(S)
  BY DEF Sessions!Cardinality, SessionsProofs!Cardinality

LEMMA SameSessionsStart == Sessions!SessionsInit => SessionsProofs!SessionsInit
  BY DEF Sessions!SessionsInit, SessionsProofs!SessionsInit

LEMMA SameSessionsSteps == Sessions!SessionsNext => SessionsProofs!SessionsNext
<1>1. Sessions!Restart => SessionsProofs!Restart
  BY SessionsCardinality DEF Sessions!Restart, SessionsProofs!Restart, Sessions!Wears,
    SessionsProofs!Wears, Sessions!WasLive, SessionsProofs!WasLive
<1>2. Sessions!Sweeps => SessionsProofs!Sweeps
  BY DEF Sessions!Sweeps, SessionsProofs!Sweeps, Sessions!At, SessionsProofs!At
<1>3. \A s : Sessions!AskCreate(s) => SessionsProofs!AskCreate(s)
  BY SessionsCardinality DEF Sessions!AskCreate, SessionsProofs!AskCreate,
    Sessions!Listening, SessionsProofs!Listening, Sessions!Admits, SessionsProofs!Admits
<1>4. \A s : Sessions!Register(s) => SessionsProofs!Register(s)
  BY DEF Sessions!Register, SessionsProofs!Register, Sessions!Started,
    SessionsProofs!Started
<1>5. \A s : Sessions!AskResume(s) => SessionsProofs!AskResume(s)
  BY SessionsCardinality DEF Sessions!AskResume, SessionsProofs!AskResume, Sessions!Idle,
    SessionsProofs!Idle, Sessions!Admits, SessionsProofs!Admits, Sessions!Goto,
    SessionsProofs!Goto, Sessions!Enqueue, SessionsProofs!Enqueue, Sessions!Listening,
    SessionsProofs!Listening, Sessions!Registered, SessionsProofs!Registered, Sessions!At,
    SessionsProofs!At, Sessions!Queued, SessionsProofs!Queued, Sessions!Statuses,
    SessionsProofs!Statuses, Sessions!WriteOf, SessionsProofs!WriteOf
<1>6. \A s : Sessions!ComesUp(s) => SessionsProofs!ComesUp(s)
  BY DEF Sessions!ComesUp, SessionsProofs!ComesUp, Sessions!At, SessionsProofs!At,
    Sessions!Goto, SessionsProofs!Goto
<1>7. \A s : Sessions!Resolves(s) => SessionsProofs!Resolves(s)
  BY DEF Sessions!Resolves, SessionsProofs!Resolves, Sessions!At, SessionsProofs!At,
    Sessions!Enqueue, SessionsProofs!Enqueue, Sessions!Goto, SessionsProofs!Goto,
    Sessions!Queued, SessionsProofs!Queued, Sessions!WriteOf, SessionsProofs!WriteOf
<1>8. \A s : Sessions!Discards(s) => SessionsProofs!Discards(s)
  BY DEF Sessions!Discards, SessionsProofs!Discards, Sessions!At, SessionsProofs!At,
    Sessions!Remove, SessionsProofs!Remove, Sessions!Goto, SessionsProofs!Goto,
    Sessions!Wears, SessionsProofs!Wears
<1>9. \A s : Sessions!Removed(s) => SessionsProofs!Removed(s)
  BY DEF Sessions!Removed, SessionsProofs!Removed, Sessions!Remove, SessionsProofs!Remove,
    Sessions!Enqueue, SessionsProofs!Enqueue, Sessions!Wears, SessionsProofs!Wears,
    Sessions!Queued, SessionsProofs!Queued, Sessions!WriteOf, SessionsProofs!WriteOf
<1>10. \A s : Sessions!CreationFails(s) => SessionsProofs!CreationFails(s)
  BY DEF Sessions!CreationFails, SessionsProofs!CreationFails, Sessions!At,
    SessionsProofs!At, Sessions!Wears, SessionsProofs!Wears, Sessions!Fail,
    SessionsProofs!Fail, Sessions!Goto, SessionsProofs!Goto, Sessions!Dropped,
    SessionsProofs!Dropped, Sessions!Enqueue, SessionsProofs!Enqueue, Sessions!Queued,
    SessionsProofs!Queued, Sessions!WriteOf, SessionsProofs!WriteOf
<1>11. \A s : Sessions!WorkloadFails(s) => SessionsProofs!WorkloadFails(s)
  BY DEF Sessions!WorkloadFails, SessionsProofs!WorkloadFails, Sessions!Registered,
    SessionsProofs!Registered, Sessions!Wears, SessionsProofs!Wears, Sessions!Fail,
    SessionsProofs!Fail, Sessions!Statuses, SessionsProofs!Statuses, Sessions!Dropped,
    SessionsProofs!Dropped, Sessions!Enqueue, SessionsProofs!Enqueue, Sessions!Queued,
    SessionsProofs!Queued, Sessions!WriteOf, SessionsProofs!WriteOf
<1>12. \A s : Sessions!AskSuspend(s) => SessionsProofs!AskSuspend(s)
  BY DEF Sessions!AskSuspend, SessionsProofs!AskSuspend, Sessions!Idle, SessionsProofs!Idle,
    Sessions!Goto, SessionsProofs!Goto, Sessions!Listening, SessionsProofs!Listening,
    Sessions!Registered, SessionsProofs!Registered, Sessions!At, SessionsProofs!At,
    Sessions!Statuses, SessionsProofs!Statuses
<1>13. \A s : Sessions!Suspends(s) => SessionsProofs!Suspends(s)
  BY DEF Sessions!Suspends, SessionsProofs!Suspends, Sessions!At, SessionsProofs!At,
    Sessions!Dropped, SessionsProofs!Dropped, Sessions!Enqueue, SessionsProofs!Enqueue,
    Sessions!Wears, SessionsProofs!Wears, Sessions!Goto, SessionsProofs!Goto, Sessions!Queued,
    SessionsProofs!Queued, Sessions!WriteOf, SessionsProofs!WriteOf
<1>14. \A s : Sessions!AskDelete(s) => SessionsProofs!AskDelete(s)
  BY DEF Sessions!AskDelete, SessionsProofs!AskDelete, Sessions!Idle, SessionsProofs!Idle,
    Sessions!Goto, SessionsProofs!Goto, Sessions!Listening, SessionsProofs!Listening,
    Sessions!Registered, SessionsProofs!Registered, Sessions!At, SessionsProofs!At,
    Sessions!Statuses, SessionsProofs!Statuses
<1>15. \A s : Sessions!DeleteRemoves(s) => SessionsProofs!DeleteRemoves(s)
  BY DEF Sessions!DeleteRemoves, SessionsProofs!DeleteRemoves, Sessions!At,
    SessionsProofs!At, Sessions!Dropped, SessionsProofs!Dropped
<1>16. \A s : Sessions!Destroys(s) => SessionsProofs!Destroys(s)
  BY DEF Sessions!Destroys, SessionsProofs!Destroys, Sessions!At, SessionsProofs!At,
    Sessions!Goto, SessionsProofs!Goto
<1>17. \A s : Sessions!Forgets(s) => SessionsProofs!Forgets(s)
  BY DEF Sessions!Forgets, SessionsProofs!Forgets, Sessions!At, SessionsProofs!At,
    Sessions!Goto, SessionsProofs!Goto
<1>18. \A s : Sessions!Drained(s) => SessionsProofs!Drained(s)
  BY DEF Sessions!Drained, SessionsProofs!Drained, Sessions!At, SessionsProofs!At
<1>19. \A s : Sessions!DeleteFails(s) => SessionsProofs!DeleteFails(s)
  BY DEF Sessions!DeleteFails, SessionsProofs!DeleteFails, Sessions!Wears,
    SessionsProofs!Wears, Sessions!Goto, SessionsProofs!Goto, Sessions!At, SessionsProofs!At
<1>20. \A s : Sessions!AskChange(s) => SessionsProofs!AskChange(s)
  BY DEF Sessions!AskChange, SessionsProofs!AskChange, Sessions!Idle, SessionsProofs!Idle,
    Sessions!Goto, SessionsProofs!Goto, Sessions!Enqueue, SessionsProofs!Enqueue,
    Sessions!Listening, SessionsProofs!Listening, Sessions!Registered,
    SessionsProofs!Registered, Sessions!At, SessionsProofs!At, Sessions!Queued,
    SessionsProofs!Queued, Sessions!Statuses, SessionsProofs!Statuses, Sessions!WriteOf,
    SessionsProofs!WriteOf
<1>21. \A s : Sessions!ChangeTearsDown(s) => SessionsProofs!ChangeTearsDown(s)
  BY DEF Sessions!ChangeTearsDown, SessionsProofs!ChangeTearsDown, Sessions!At,
    SessionsProofs!At, Sessions!Goto, SessionsProofs!Goto
<1>22. \A s : Sessions!ChangeRebuilds(s) => SessionsProofs!ChangeRebuilds(s)
  BY DEF Sessions!ChangeRebuilds, SessionsProofs!ChangeRebuilds, Sessions!At,
    SessionsProofs!At, Sessions!Goto, SessionsProofs!Goto, Sessions!Enqueue,
    SessionsProofs!Enqueue, Sessions!Queued, SessionsProofs!Queued, Sessions!WriteOf,
    SessionsProofs!WriteOf
<1>23. \A s : Sessions!ChangeFails(s) => SessionsProofs!ChangeFails(s)
  BY DEF Sessions!ChangeFails, SessionsProofs!ChangeFails, Sessions!Wears,
    SessionsProofs!Wears, Sessions!Fail, SessionsProofs!Fail, Sessions!Dropped,
    SessionsProofs!Dropped, Sessions!Enqueue, SessionsProofs!Enqueue, Sessions!Queued,
    SessionsProofs!Queued, Sessions!WriteOf, SessionsProofs!WriteOf
<1>24. \A s : Sessions!RunRecords(s) => SessionsProofs!RunRecords(s)
  BY DEF Sessions!RunRecords, SessionsProofs!RunRecords, Sessions!Listening,
    SessionsProofs!Listening, Sessions!Enqueue, SessionsProofs!Enqueue, Sessions!Queued,
    SessionsProofs!Queued, Sessions!WriteOf, SessionsProofs!WriteOf
<1>25. \A s : Sessions!Writes(s) => SessionsProofs!Writes(s)
  BY DEF Sessions!Writes, SessionsProofs!Writes, Sessions!Shown, SessionsProofs!Shown,
    Sessions!Continued, SessionsProofs!Continued, Sessions!At, SessionsProofs!At,
    Sessions!Registered, SessionsProofs!Registered, Sessions!Statuses, SessionsProofs!Statuses
<1>26. \A s : Sessions!GivesUp(s) => SessionsProofs!GivesUp(s)
  BY ZenonT(60) DEF Sessions!GivesUp, SessionsProofs!GivesUp, Sessions!Registered,
    SessionsProofs!Registered, Sessions!Wears, SessionsProofs!Wears, Sessions!Gives,
    SessionsProofs!Gives, Sessions!Dropped, SessionsProofs!Dropped, Sessions!Statuses,
    SessionsProofs!Statuses, Sessions!WriteOf, SessionsProofs!WriteOf
<1>27. \A s : Sessions!GaveUp(s) => SessionsProofs!GaveUp(s)
  BY DEF Sessions!GaveUp, SessionsProofs!GaveUp, Sessions!Remove, SessionsProofs!Remove,
    Sessions!Gives, SessionsProofs!Gives, Sessions!Wears, SessionsProofs!Wears,
    Sessions!Registered, SessionsProofs!Registered, Sessions!WriteOf, SessionsProofs!WriteOf,
    Sessions!Statuses, SessionsProofs!Statuses
<1>28. \A s : Sessions!Adopts(s) => SessionsProofs!Adopts(s)
  BY DEF Sessions!Adopts, SessionsProofs!Adopts, Sessions!At, SessionsProofs!At,
    Sessions!Enqueue, SessionsProofs!Enqueue, Sessions!Queued, SessionsProofs!Queued,
    Sessions!WriteOf, SessionsProofs!WriteOf
<1>29. \A s : Sessions!FindsNone(s) => SessionsProofs!FindsNone(s)
  BY DEF Sessions!FindsNone, SessionsProofs!FindsNone, Sessions!At, SessionsProofs!At,
    Sessions!Goto, SessionsProofs!Goto, Sessions!Enqueue, SessionsProofs!Enqueue,
    Sessions!Queued, SessionsProofs!Queued, Sessions!WriteOf, SessionsProofs!WriteOf
<1>30. \A s : Sessions!AdoptionFails(s) => SessionsProofs!AdoptionFails(s)
  BY DEF Sessions!AdoptionFails, SessionsProofs!AdoptionFails, Sessions!At,
    SessionsProofs!At, Sessions!Wears, SessionsProofs!Wears, Sessions!Fail,
    SessionsProofs!Fail, Sessions!Goto, SessionsProofs!Goto, Sessions!Dropped,
    SessionsProofs!Dropped, Sessions!Enqueue, SessionsProofs!Enqueue, Sessions!Queued,
    SessionsProofs!Queued, Sessions!WriteOf, SessionsProofs!WriteOf
<1> QED BY <1>1, <1>2, <1>3, <1>4, <1>5, <1>6, <1>7, <1>8, <1>9, <1>10, <1>11, <1>12,
           <1>13, <1>14, <1>15, <1>16, <1>17, <1>18, <1>19, <1>20, <1>21, <1>22, <1>23,
           <1>24, <1>25, <1>26, <1>27, <1>28, <1>29, <1>30
        DEF Sessions!SessionsNext, SessionsProofs!SessionsNext, Sessions!SessionStep,
            SessionsProofs!SessionStep

LEMMA SessionsStart == Sessions!SessionsInit => SessionsProofs!Inv
  BY SameSessionsStart, SessionsProofs!InvInit

LEMMA SessionsStep ==
  ASSUME SessionsProofs!Inv, [Sessions!SessionsNext]_sessionVars
  PROVE  SessionsProofs!Inv'
<1>1. [SessionsProofs!SessionsNext]_(SessionsProofs!sessionVars)
  BY SameSessionsSteps DEF sessionVars, SessionsProofs!sessionVars
<1> QED BY <1>1, SessionsProofs!InvStep

LEMMA SessionsSound ==
  SessionsProofs!Inv => Sessions!OneWorkload /\ Sessions!StatusIsTrue
<1>1. SessionsProofs!OneWorkload => Sessions!OneWorkload
  BY SessionsCardinality DEF Sessions!OneWorkload, SessionsProofs!OneWorkload,
    Sessions!Quiet, SessionsProofs!Quiet, Sessions!Registered, SessionsProofs!Registered,
    Sessions!Listening, SessionsProofs!Listening, Sessions!At, SessionsProofs!At,
    Sessions!Statuses, SessionsProofs!Statuses
<1>2. SessionsProofs!StatusIsTrue => Sessions!StatusIsTrue
  BY DEF Sessions!StatusIsTrue, SessionsProofs!StatusIsTrue, Sessions!Quiet,
    SessionsProofs!Quiet, Sessions!Registered, SessionsProofs!Registered, Sessions!Listening,
    SessionsProofs!Listening, Sessions!At, SessionsProofs!At, Sessions!Statuses,
    SessionsProofs!Statuses
<1> QED BY <1>1, <1>2, SessionsProofs!InvOneWorkload, SessionsProofs!InvStatus

ServicesInv ==
  /\ OnceInv /\ LeaseInv /\ LedgerInv /\ ScheduleInv /\ LockInv /\ FileInv /\ JournalInv
  /\ WorkerInv /\ SessionsProofs!Inv

\* The claims, leases, ledgers, schedules, locks, logs, the worker and the sessions all keep
\* their own invariants when they run side by side (once.ts, critical-controller.ts,
\* row-sweep.ts, schedule-runner.ts, directory-lock.ts, journal.ts of the file journal and of
\* the record stream, worker-loop.ts, session-lifecycle.ts).
THEOREM ServicesInvariant == ServicesSpec => []ServicesInv
<1>1. ServicesInit => ServicesInv
  BY OnceStart, LeaseStart, LedgerStart, ScheduleStart, LockInvInit, FileStart, JournalStart,
     WorkerStart, SessionsStart
  DEF ServicesInit, ServicesInv
<1>2. ServicesInv /\ [ServicesNext]_servicesVars => ServicesInv'
  BY ServicesStep, OnceStep, LeaseStep, LedgerStep, ScheduleStep, LockStep, FileStep, JournalStep,
     WorkerStep, SessionsStep
  DEF ServicesInv
<1> QED BY <1>1, <1>2, PTL DEF ServicesSpec, servicesVars

\* A key, a lease and a directory lock each have one holder at a time while nothing lapses
\* under it (once.ts, critical-controller.ts, directory-lock.ts).
THEOREM ServicesOneHolder == ServicesSpec => []OneHolder
<1>1. ServicesInv => OneHolder
  BY OnceSoleWorker, LeaseExcludes, LockInvExcludes DEF ServicesInv, OneHolder
<1> QED BY <1>1, ServicesInvariant, PTL

\* Every line of a run's file stays readable across exits, and a reader of a record stream
\* that ends has seen its whole log (journal.ts of the file journal and of the record
\* stream).
THEOREM ServicesLogs == ServicesSpec => []LogsAreWhole
<1>1. ServicesInv => LogsAreWhole
  BY DEF ServicesInv, FileInv, JournalInv, ReadersFollow, LogsAreWhole
<1> QED BY <1>1, ServicesInvariant, PTL

\* Whoever outlived its claim, its lease or its hold of a journal's key never takes or
\* writes its successor's (keyed-claim.ts, mutex.ts, record-stream journal.ts).
THEOREM ServicesSuccessors == ServicesSpec => SuccessorsAreSafe
<1>1. ServicesInv /\ [ServicesNext]_servicesVars =>
        [\A c \in Calls : Claimant(cell) = c /\ Claimant(cell') # c /\ Live(cell) =>
           \/ cell' = Lapsed(cell)
           \/ call[c].st \in {"settle", "release"}]_onceVars
  BY ServicesStep, OnceOwned DEF ServicesInv
<1>2. ServicesInv /\ [ServicesNext]_servicesVars =>
        [\A s \in Sections : Live(lock) /\ lock.holder = s /\ lock' # lock =>
           lock' = Lapsed(lock) \/ section[s] = "release"]_leaseVars
  BY ServicesStep, LeaseIsOwned DEF ServicesInv
<1>3. ServicesInv /\ [ServicesNext]_servicesVars =>
        [/\ Len(key'.log) > Len(key.log) =>
              key.st = "open" /\ key' = [key EXCEPT !.log = Append(@, key.drain)]
         /\ key.st = "finished" => key'.st \in {"finished", "removed"}
         /\ key.st = "open" /\ key.cancel /\ key'.st = "open" => key'.cancel]_journalVars
  BY ServicesStep, StepFollows DEF ServicesInv
<1> QED BY <1>1, <1>2, <1>3, ServicesInvariant, PTL
        DEF ServicesSpec, servicesVars, SuccessorsAreSafe, SuccessorIsSafe, SuccessorKeepsLease,
            KeyFollowsItsDrain

\* What is torn down leaves nothing behind that works on (row-sweep.ts stop,
\* schedule-runner.ts disarm, worker-loop.ts stop).
THEOREM ServicesStop == ServicesSpec => []NothingWorksOn
<1>1. ServicesInv => NothingWorksOn
  BY LedgerSweepStops, ScheduleHolds, WorkerBounds DEF ServicesInv, NothingWorksOn
<1> QED BY <1>1, ServicesInvariant, PTL

\* The worker never has more messages than its concurrency (worker-loop.ts loop).
THEOREM ServicesConcurrency == ServicesSpec => []ConcurrencyBound
<1>1. ServicesInv => ConcurrencyBound
  BY WorkerBounds DEF ServicesInv, ConcurrencyBound
<1> QED BY <1>1, ServicesInvariant, PTL

\* A runner's session has one workload at a time, and at rest exactly the one it holds,
\* across failures, refusals and restarts (session-lifecycle.ts startWorkload, fail, adopt).
THEOREM ServicesWorkload == ServicesSpec => []OneWorkload
<1>1. ServicesInv => OneWorkload
  BY SessionsSound DEF ServicesInv, OneWorkload
<1> QED BY <1>1, ServicesInvariant, PTL

\* At rest a session shows what the store has and what its workload is, as long as the store
\* takes its writes (session-lifecycle.ts commitStatus).
THEOREM ServicesStatus == ServicesSpec => []StatusIsTrue
<1>1. ServicesInv => StatusIsTrue
  BY SessionsSound DEF ServicesInv, StatusIsTrue
<1> QED BY <1>1, ServicesInvariant, PTL
================================================================================
