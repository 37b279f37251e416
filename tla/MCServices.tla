------------------------------ MODULE MCServices ------------------------------
(***************************************************************************)
(* The stores and services around the worker, each in a small instance of  *)
(* its own, and a worker that is stopped.  They share no state: a          *)
(* behaviour picks one of them at the start and only that one moves, so    *)
(* the run explores their specifications side by side.                     *)
(***************************************************************************)
EXTENDS QueueGroups, IdempotencyOnce, LeaseCritical, IdempotencyLedger, FileJournal,
        ScheduleRunner, DirectoryLock, RecordJournal, TLC

CONSTANTS s1, s2, s3, p1, p2, t1, t2, t3, f1, f2

VARIABLES
  component,                                                        \* the one that moves
  wRows, wFlights, wWorker, wClient, wClaims, wFaults, wStops,      \* of QueueDelivery
  hRecord, hEntry, hAbout, hOutbox, hRemoving, hPods, hReserved,
  hStray, hWear                                                     \* of RunnerSessions

stopVars == <<wRows, wFlights, wWorker, wClient, wClaims, wFaults, wStops>>
sessionVars == <<hRecord, hEntry, hAbout, hOutbox, hRemoving, hPods, hReserved, hStray, hWear>>

\* Two sections of one process and one of another.
Placement == (s1 :> p1) @@ (s2 :> p1) @@ (s3 :> p2)

\* Two transactions disagree on the fingerprint, the third presents none.
Prints == (t1 :> f1) @@ (t2 :> f2) @@ (t3 :> NoPrint)

\* One worker of two slots and two messages, one of them unreadable, and one shutdown.
Stop == INSTANCE QueueDelivery WITH
  rows <- wRows, flights <- wFlights, worker <- wWorker, client <- wClient,
  claims <- wClaims, faults <- wFaults, stops <- wStops,
  Workers <- {"v1"}, Ids <- {"m1", "m2"}, Unreadable <- {"m2"}, Concurrency <- 2, Budget <- 1,
  HasOnDead <- FALSE, LapseRetryable <- FALSE, Ops <- {}, MaxClaimWait <- 1,
  Punctual <- TRUE, Prompt <- FALSE, MaxClaims <- 2, MaxFaults <- 0, MaxStops <- 1

\* One session of a runner: two failures, a record write lost, a restart.
Sessions == INSTANCE RunnerSessions WITH
  record <- hRecord, entry <- hEntry, about <- hAbout, outbox <- hOutbox,
  removing <- hRemoving, pods <- hPods, reserved <- hReserved, stray <- hStray, wear <- hWear,
  Hosted <- {"h"}, MaxSessions <- 1, MaxEpochs <- 6, MaxQueued <- 2, MaxFailures <- 2,
  MaxLostWrites <- 1, MaxRestarts <- 1

ServicesInit ==
  /\ component \in {"groups", "once", "lease", "ledger", "file", "schedule", "lock", "journal",
                    "stop", "sessions"}
  /\ Init /\ OnceInit /\ LeaseInit /\ LedgerInit /\ FileInit /\ ScheduleInit /\ LockInit
  /\ JournalInit /\ (component # "journal" => \A x \in Clients : pc[x] = "away")
  /\ Stop!Init /\ Sessions!SessionsInit

GroupsMove ==
  /\ component = "groups" /\ Next
  /\ UNCHANGED <<component, onceVars, leaseVars, ledgerVars, fileVars, scheduleVars, lockVars,
                 journalVars, stopVars, sessionVars>>
OnceMoves ==
  /\ component = "once" /\ OnceNext
  /\ UNCHANGED <<component, vars, leaseVars, ledgerVars, fileVars, scheduleVars, lockVars,
                 journalVars, stopVars, sessionVars>>
LeaseMoves ==
  /\ component = "lease" /\ LeaseNext
  /\ UNCHANGED <<component, vars, onceVars, ledgerVars, fileVars, scheduleVars, lockVars,
                 journalVars, stopVars, sessionVars>>
LedgerMoves ==
  /\ component = "ledger" /\ LedgerNext
  /\ UNCHANGED <<component, vars, onceVars, leaseVars, fileVars, scheduleVars, lockVars,
                 journalVars, stopVars, sessionVars>>
FileMoves ==
  /\ component = "file" /\ FileNext
  /\ UNCHANGED <<component, vars, onceVars, leaseVars, ledgerVars, scheduleVars, lockVars,
                 journalVars, stopVars, sessionVars>>
ScheduleMoves ==
  /\ component = "schedule" /\ ScheduleNext
  /\ UNCHANGED <<component, vars, onceVars, leaseVars, ledgerVars, fileVars, lockVars,
                 journalVars, stopVars, sessionVars>>
LockMoves ==
  /\ component = "lock" /\ LockNext
  /\ UNCHANGED <<component, vars, onceVars, leaseVars, ledgerVars, fileVars, scheduleVars,
                 journalVars, stopVars, sessionVars>>
JournalMoves ==
  /\ component = "journal" /\ JournalNext
  /\ UNCHANGED <<component, vars, onceVars, leaseVars, ledgerVars, fileVars, scheduleVars,
                 lockVars, stopVars, sessionVars>>
StopMoves ==
  /\ component = "stop" /\ Stop!Next
  /\ UNCHANGED <<component, vars, onceVars, leaseVars, ledgerVars, fileVars, scheduleVars,
                 lockVars, journalVars, sessionVars>>

SessionsMove ==
  /\ component = "sessions" /\ Sessions!SessionsNext
  /\ UNCHANGED <<component, vars, onceVars, leaseVars, ledgerVars, fileVars, scheduleVars,
                 lockVars, journalVars, stopVars>>

ServicesNext ==
  \/ GroupsMove \/ OnceMoves \/ LeaseMoves \/ LedgerMoves \/ FileMoves \/ ScheduleMoves
  \/ LockMoves \/ JournalMoves \/ StopMoves \/ SessionsMove

ServicesSpec ==
  ServicesInit /\ [][ServicesNext]_<<component, vars, onceVars, leaseVars, ledgerVars, fileVars,
                                     scheduleVars, lockVars, journalVars, stopVars, sessionVars>>

\* One holder of a key at a time, as long as nothing lapses under it: of the claim of
\* Idempotency.Once (once.ts), of the lease of a section (critical-controller.ts) and of
\* the lock of a directory (directory-lock.ts).
OneHolder == SoleWorker /\ MutualExclusion /\ LockExcludes

\* Whoever outlived its claim (keyed-claim.ts), its lease (mutex.ts) or its hold of a
\* journal's key (journal.ts) never takes or writes its successor's.
SuccessorsAreSafe == SuccessorIsSafe /\ SuccessorKeepsLease /\ KeyFollowsItsDrain

\* What is torn down leaves nothing behind that works on: no pass and no timer of a
\* sweep (row-sweep.ts stop), no tick of a schedule (schedule-runner.ts disarm), and of
\* a worker no message in flight that was not cancelled and no claim (worker-loop.ts stop).
NothingWorksOn == SweepStops /\ WorksUnderHold /\ Stop!StopCancels

\* What was written to a log is read back whole: every line of a run's file parses
\* after an exit left a partial one (durable-journal-file journal.ts), and a reader that
\* ends has seen every record of its log (record-stream journal.ts).
LogsAreWhole == StaysReadable /\ ReplayIsWhole

\* A worker never holds more messages than its concurrency (worker-loop.ts).
ConcurrencyBound == Stop!ConcurrencyBound

\* A runner's session has one workload at a time, and at rest exactly the one it holds
\* (session-lifecycle.ts startWorkload, fail, adopt).
OneWorkload == Sessions!OneWorkload

\* At rest a session shows what the store has and what its workload is
\* (session-lifecycle.ts commitStatus).
StatusIsTrue == Sessions!StatusIsTrue
===============================================================================
