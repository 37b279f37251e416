---------------------------- MODULE LeaseCritical ----------------------------
(***************************************************************************)
(* Lease.Critical for one key: acquire the lease over a KvStore.Store, run *)
(* the body under it, release it.  In detach mode the body outlives the    *)
(* call that started it, and `op: cancel` ends it through a table its      *)
(* instance keeps.  The lease is not renewed: a body slower than `ttl`     *)
(* loses it without being told.                                            *)
(***************************************************************************)
EXTENDS Naturals, KvStore

CONSTANTS
  Sections,        \* calls with `op: run`
  Processes,       \* one Lease.Critical instance each
  ProcessOf,       \* ProcessOf[s]: where section s was called
  Detach,          \* the resource's `detach`
  MaxLeaseLapses,  \* bound on leases lapsing under a section that works
  MaxDeaths        \* bound on processes dying

ASSUME LeaseConstants ==
  /\ ProcessOf \in [Sections -> Processes]
  /\ Detach \in BOOLEAN
  /\ {MaxLeaseLapses, MaxDeaths} \subseteq Nat
  /\ Nobody \notin Sections
  /\ NoCell \notin Cells(Sections, Sections)

VARIABLES
  lock,       \* the key's record in the store
  section,    \* section[s]: where the call, and the body it started, stand
  active,     \* active[p]: the detached body process p believes to be running
  cancelled,  \* the sections whose cancellation scope was cancelled
  lapses,     \* lapses so far
  deaths      \* deaths so far

leaseVars == <<lock, section, active, cancelled, lapses, deaths>>

\* A section writes the record once, so it names the revision too.
Holding == {"acquired", "body", "release"}
SectionStates == {"idle", "read", "denied", "ending", "done", "dead"} \cup Holding

LeaseInit ==
  /\ lock = NoCell
  /\ section = [s \in Sections |-> "idle"]
  /\ active = [p \in Processes |-> Nobody]
  /\ cancelled = {}
  /\ lapses = 0 /\ deaths = 0

Moves(s, from, to) ==
  /\ section[s] = from
  /\ section' = [section EXCEPT ![s] = to]

\* Mutant: the body runs whatever the store answered.
Acquire_Unchecked(s) ==
  /\ Moves(s, "idle", "acquired")
  /\ lock' = PutIfAbsent(lock, Cell(s, FALSE, s))
  /\ UNCHANGED <<active, cancelled, lapses, deaths>>

\* Mutex.acquire: one conditional write.
Acquire(s) ==
  /\ Moves(s, "idle", IF Live(lock) THEN "read" ELSE "acquired")
  /\ lock' = PutIfAbsent(lock, Cell(s, FALSE, s))
  /\ UNCHANGED <<active, cancelled, lapses, deaths>>

\* The losing call reads who holds the lease and reports it: the body never runs.
Denied(s) ==
  /\ Moves(s, "read", "denied")
  /\ UNCHANGED <<lock, active, cancelled, lapses, deaths>>

\* The answer arrived: the body starts, registered for `op: cancel` when detached.
Enter(s) ==
  /\ Moves(s, "acquired", "body")
  /\ active' = IF Detach THEN [active EXCEPT ![ProcessOf[s]] = s] ELSE active
  /\ UNCHANGED <<lock, cancelled, lapses, deaths>>

\* The body returned, failed or honoured its cancellation: `finally`.
LeaveBody(s) ==
  /\ Moves(s, "body", "release")
  /\ active' = IF Detach THEN [active EXCEPT ![ProcessOf[s]] = Nobody] ELSE active
  /\ UNCHANGED <<lock, cancelled, lapses, deaths>>

\* Mutant: the lease is deleted whoever holds it.
ReleaseLease_Anyones(s) ==
  /\ Moves(s, "release", "ending")
  /\ lock' = NoCell
  /\ UNCHANGED <<active, cancelled, lapses, deaths>>

\* Mutex.release, executed by the store ...
ReleaseLease(s) ==
  /\ Moves(s, "release", "ending")
  /\ lock' = CompareAndDelete(lock, s)
  /\ UNCHANGED <<active, cancelled, lapses, deaths>>

\* ... and answered.
Released(s) ==
  /\ Moves(s, "ending", "done")
  /\ UNCHANGED <<lock, active, cancelled, lapses, deaths>>

\* `op: cancel` in process p, naming a holder or nobody in particular.
CancelActive(p, named) ==
  /\ active[p] # Nobody
  /\ named \in {Nobody, active[p]}
  /\ cancelled' = cancelled \cup {active[p]}
  /\ UNCHANGED <<lock, section, active, lapses, deaths>>

\* `ttl` passes; under a section that works, that takes a slow body.
LapseLease ==
  /\ Live(lock)
  /\ lock' = Lapsed(lock)
  /\ IF section[lock.holder] \in Holding
     THEN lapses < MaxLeaseLapses /\ lapses' = lapses + 1
     ELSE UNCHANGED lapses
  /\ UNCHANGED <<section, active, cancelled, deaths>>

\* A process dies with its table; what it held is freed by the lapse.
ProcessDies(p) ==
  /\ deaths < MaxDeaths
  /\ \E s \in Sections : ProcessOf[s] = p /\ section[s] \in Holding \cup {"read", "ending"}
  /\ deaths' = deaths + 1
  /\ section' = [s \in Sections |-> IF ProcessOf[s] = p /\ section[s] # "idle"
                                    THEN "dead" ELSE section[s]]
  /\ active' = [active EXCEPT ![p] = Nobody]
  /\ UNCHANGED <<lock, cancelled, lapses>>

LeaseNext ==
  \/ \E s \in Sections : \/ Acquire(s) \/ Denied(s) \/ Enter(s) \/ LeaveBody(s)
                         \/ ReleaseLease(s) \/ Released(s)
  \/ \E p \in Processes, named \in Sections \cup {Nobody} : CancelActive(p, named)
  \/ LapseLease
  \/ \E p \in Processes : ProcessDies(p)

LeaseSpec == LeaseInit /\ [][LeaseNext]_leaseVars

-----------------------------------------------------------------------------
(* Properties. *)

LeaseTypeOK ==
  /\ lock \in Cells(Sections, Sections) \cup {NoCell}
  /\ section \in [Sections -> SectionStates]
  /\ active \in [Processes -> Sections \cup {Nobody}]
  /\ cancelled \subseteq Sections
  /\ lapses \in 0..MaxLeaseLapses /\ deaths \in 0..MaxDeaths

\* A critical section (critical-controller.ts, mutex.ts): as long as no lease lapsed
\* under a body, no two sections hold the key, across processes, deaths and releases
\* that are answered late.
MutualExclusion ==
  lapses = 0 =>
    \A s, t \in Sections : section[s] \in Holding /\ section[t] \in Holding => s = t

\* A section that lost its lease never frees its successor's (mutex.ts, "a stale
\* holder whose lease already expired cannot free the new owner's").
SuccessorKeepsLease ==
  [][\A s \in Sections : Live(lock) /\ lock.holder = s /\ lock' # lock =>
       lock' = Lapsed(lock) \/ section[s] = "release"]_leaseVars

-----------------------------------------------------------------------------
(* Statements of the documentation that the code does not keep. *)

\* README.md, "op: cancel": a running detached body can be ended early.  The table is
\* keyed by the key alone, so a body that outlived its lease unregisters its successor.
AlwaysCancellable ==
  Detach => \A s \in Sections : section[s] = "body" /\ Claimant(lock) = s
                                  => active[ProcessOf[s]] = s
==============================================================================
