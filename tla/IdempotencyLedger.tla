-------------------------- MODULE IdempotencyLedger --------------------------
(***************************************************************************)
(* IdempotencySql.Once over one key of an IdempotencySql.Ledger: the key   *)
(* is recorded in the caller's own transaction, next to the work it        *)
(* guards, while a background RowSweep reclaims rows past their retention. *)
(*                                                                         *)
(* A statement is one step.  The database is external: an INSERT that      *)
(* meets a row another transaction wrote or locked waits for that one to   *)
(* end, a commit shows everything it wrote at once, a sweep passes over    *)
(* locked rows.                                                            *)
(***************************************************************************)
EXTENDS Naturals, FiniteSets

CONSTANTS
  Txs,             \* transactions that call IdempotencySql.Once with one key
  PrintOf,         \* PrintOf[t]: the fingerprint t presents, or NoPrint
  NoPrint,         \* no fingerprint
  NoTx,            \* no transaction
  LocksConflict,   \* an INSERT that met a fresh row has locked it, as in PostgreSQL
  MaxRetentions    \* bound on how often the row's retention passes

Attempts == 2      \* passes of record()

ASSUME LedgerConstants ==
  /\ NoTx \notin Txs
  /\ LocksConflict \in BOOLEAN
  /\ MaxRetentions \in Nat

VARIABLES
  row,         \* the committed row: who recorded the key, and whether it is expired
  writer,      \* the transaction that has written or locked the row
  tx,          \* tx[t]: where transaction t stands
  sweep,       \* the RowSweep
  bodies,      \* history: who committed a body since the retention last passed
  recorders,   \* history: who ever committed a body
  retentions   \* retentions passed

ledgerVars == <<row, writer, tx, sweep, bodies, recorders, retentions>>

NoRow == [by |-> NoTx, expired |-> FALSE]

\* "insert" and "select" are inside record(), "body" is the body, then the caller
\* commits or, when something raised, rolls back.
Open == {"insert", "select", "body", "commit", "abort"}
TxStates == {"idle", "committed", "rolledback"} \cup Open
Replies  == {"none", "recorded", "duplicate", "conflict", "unfound"}

LedgerInit ==
  /\ row = NoRow
  /\ writer = NoTx
  /\ tx = [t \in Txs |-> [st |-> "idle", attempt |-> 0, answer |-> "none"]]
  /\ sweep = [started |-> FALSE, timer |-> FALSE, pass |-> FALSE, stop |-> "no"]
  /\ bodies = {} /\ recorders = {}
  /\ retentions = 0

Absent == row.by = NoTx \/ row.expired
Mine(t) == writer \in {NoTx, t}

-----------------------------------------------------------------------------
(* IdempotencyLedger.record, on the caller's executor. *)

\* ensureStarted: the first write starts the sweep, unless run() did.
Begin(t) ==
  /\ tx[t].st = "idle"
  /\ tx' = [tx EXCEPT ![t].st = "insert", ![t].attempt = 1]
  /\ sweep' = IF sweep.started \/ sweep.stop # "no" THEN sweep
              ELSE [sweep EXCEPT !.started = TRUE, !.timer = TRUE]
  /\ UNCHANGED <<row, writer, bodies, recorders, retentions>>

\* Mutant: the INSERT does not wait for a transaction that has written the key.
InsertRow_NoWait(t) ==
  /\ tx[t].st = "insert"
  /\ IF Absent
     THEN /\ tx' = [tx EXCEPT ![t].st = "body", ![t].answer = "recorded"]
          /\ writer' = t
     ELSE /\ tx' = [tx EXCEPT ![t].st = "select"]
          /\ writer' = IF LocksConflict THEN t ELSE writer
  /\ UNCHANGED <<row, sweep, bodies, recorders, retentions>>

\* INSERT ... ON CONFLICT DO UPDATE ... WHERE the stored row is past its retention.
InsertRow(t) ==
  /\ tx[t].st = "insert"
  /\ Mine(t)
  /\ IF Absent
     THEN /\ tx' = [tx EXCEPT ![t].st = "body", ![t].answer = "recorded"]
          /\ writer' = t
     ELSE /\ tx' = [tx EXCEPT ![t].st = "select"]
          /\ writer' = IF LocksConflict THEN t ELSE writer
  /\ UNCHANGED <<row, sweep, bodies, recorders, retentions>>

Clash(t) ==
  /\ PrintOf[row.by] # NoPrint /\ PrintOf[t] # NoPrint
  /\ PrintOf[row.by] # PrintOf[t]

\* Mutant: one pass.
LastAttempt_First(n) == TRUE

LastAttempt(n) == n = Attempts

AnotherPass(a) == [st |-> "insert", attempt |-> a.attempt + 1, answer |-> a.answer]

\* storedFingerprint: a row swept meanwhile sends record() round once more.
ReadBack(t) ==
  /\ tx[t].st = "select"
  /\ tx' = [tx EXCEPT ![t] =
       IF row.by # NoTx
       THEN IF Clash(t) THEN [@ EXCEPT !.st = "abort", !.answer = "conflict"]
                        ELSE [@ EXCEPT !.st = "commit", !.answer = "duplicate"]
       ELSE IF LastAttempt(@.attempt) THEN [@ EXCEPT !.st = "abort", !.answer = "unfound"]
                                      ELSE AnotherPass(@)]
  /\ UNCHANGED <<row, writer, sweep, bodies, recorders, retentions>>

-----------------------------------------------------------------------------
(* IdempotencySql.Once.invoke, and the transaction around it. *)

BodyRuns(t) ==
  /\ tx[t].st = "body"
  /\ \E st \in {"commit", "abort"} : tx' = [tx EXCEPT ![t].st = st]
  /\ UNCHANGED <<row, writer, sweep, bodies, recorders, retentions>>

Unlock(t) == writer' = IF writer = t THEN NoTx ELSE writer

\* Key and body become visible together.
CommitAttempt(t) ==
  /\ tx[t].st = "commit"
  /\ tx' = [tx EXCEPT ![t].st = "committed"]
  /\ IF tx[t].answer = "recorded"
     THEN /\ row' = [by |-> t, expired |-> FALSE]
          /\ bodies' = bodies \cup {t} /\ recorders' = recorders \cup {t}
     ELSE UNCHANGED <<row, bodies, recorders>>
  /\ Unlock(t)
  /\ UNCHANGED <<sweep, retentions>>

\* The caller's rollback, or the end of its process, forgets the key.
RollbackAttempt(t) ==
  /\ tx[t].st \in Open
  /\ tx' = [tx EXCEPT ![t].st = "rolledback"]
  /\ Unlock(t)
  /\ UNCHANGED <<row, sweep, bodies, recorders, retentions>>

-----------------------------------------------------------------------------
(* Retention, and the RowSweep. *)

RetentionPasses ==
  /\ ~Absent
  /\ retentions < MaxRetentions
  /\ row' = [row EXCEPT !.expired = TRUE]
  /\ bodies' = {}
  /\ retentions' = retentions + 1
  /\ UNCHANGED <<writer, tx, sweep, recorders>>

\* startAt, from the ledger's run().
RunSweep ==
  /\ ~sweep.started /\ sweep.stop = "no"
  /\ sweep' = [sweep EXCEPT !.started = TRUE, !.timer = TRUE]
  /\ UNCHANGED <<row, writer, tx, bodies, recorders, retentions>>

SweepFires ==
  /\ sweep.timer
  /\ sweep' = [sweep EXCEPT !.timer = FALSE, !.pass = TRUE]
  /\ UNCHANGED <<row, writer, tx, bodies, recorders, retentions>>

\* Mutant: the timer is armed again whether or not the sweep was stopped.
SweepBatch_Rearms ==
  /\ sweep.pass
  /\ row' \in {row, IF row.expired /\ writer = NoTx THEN NoRow ELSE row}
  /\ sweep' = [sweep EXCEPT !.pass = FALSE, !.timer = TRUE]
  /\ UNCHANGED <<writer, tx, bodies, recorders, retentions>>

\* One DELETE ... SKIP LOCKED, or a failed pass; then the timer is armed again.
SweepBatch ==
  /\ sweep.pass
  /\ row' \in {row, IF row.expired /\ writer = NoTx THEN NoRow ELSE row}
  /\ sweep' = [sweep EXCEPT !.pass = FALSE, !.timer = sweep.stop = "no"]
  /\ UNCHANGED <<writer, tx, bodies, recorders, retentions>>

\* stop(): disarm, then wait for a pass in flight.
StopSweep ==
  /\ sweep.started /\ sweep.stop = "no"
  /\ sweep' = [sweep EXCEPT !.timer = FALSE, !.stop = "waiting"]
  /\ UNCHANGED <<row, writer, tx, bodies, recorders, retentions>>

SweepStopped ==
  /\ sweep.stop = "waiting" /\ ~sweep.pass
  /\ sweep' = [sweep EXCEPT !.stop = "done"]
  /\ UNCHANGED <<row, writer, tx, bodies, recorders, retentions>>

LedgerNext ==
  \/ \E t \in Txs : \/ Begin(t) \/ InsertRow(t) \/ ReadBack(t) \/ BodyRuns(t)
                    \/ CommitAttempt(t) \/ RollbackAttempt(t)
  \/ RetentionPasses \/ RunSweep \/ SweepFires \/ SweepBatch \/ StopSweep \/ SweepStopped

LedgerSpec == LedgerInit /\ [][LedgerNext]_ledgerVars

-----------------------------------------------------------------------------
(* Properties. *)

LedgerTypeOK ==
  /\ row \in [by : Txs \cup {NoTx}, expired : BOOLEAN]
  /\ writer \in Txs \cup {NoTx}
  /\ tx \in [Txs -> [st : TxStates, attempt : 0..Attempts, answer : Replies]]
  /\ sweep \in [started : BOOLEAN, timer : BOOLEAN, pass : BOOLEAN,
                stop : {"no", "waiting", "done"}]
  /\ bodies \subseteq recorders /\ recorders \subseteq Txs
  /\ retentions \in 0..MaxRetentions

\* Within a retention one committed transaction ran the body, however many overlap,
\* roll back and retry and whenever the sweep runs (ledger.ts record, once.ts).  record()
\* finds or records the key in its two passes: nothing the ledger itself does makes it
\* raise "neither recorded nor found", as long as the retention does not pass twice
\* inside one call.
RecordsOnce ==
  /\ Cardinality(bodies) <= 1
  /\ retentions <= 1 => \A t \in Txs : tx[t].answer # "unfound"

\* Once the inverse of the sweep has returned nothing of it is left: neither a pass nor
\* a timer that would start one on a connection torn down meanwhile (row-sweep.ts stop).
SweepStops ==
  sweep.stop = "done" => ~sweep.pass /\ ~sweep.timer
==============================================================================
