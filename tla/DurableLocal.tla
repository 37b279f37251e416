---------------------------- MODULE DurableLocal ----------------------------
(***************************************************************************)
(* The local durable-execution backend: DurableLocal.Workflow starts runs, *)
(* DurableLocal.Resumer picks up the interrupted ones, Deliver, Cancel,    *)
(* Resume and Schedule address a run from outside, and Durable.Sleep and   *)
(* Durable.Await park it.  They share nothing but the PostgreSQL journal,  *)
(* so one statement of the journal is one atomic step here and everything  *)
(* between two statements may interleave.                                  *)
(*                                                                         *)
(* Data is abstracted to its AUTHOR: the result of a step, a minted token  *)
(* and a computed deadline are the execution that produced them, so two    *)
(* executions producing different values is what the model tells apart.    *)
(* Time is abstracted to events: a claim lapses, a deadline elapses.       *)
(***************************************************************************)
EXTENDS Naturals, FiniteSets

CONSTANTS
  Runs,        \* run ids
  Starters,    \* calls of DurableLocal.Workflow.invoke
  Resumers,    \* DurableLocal.Resumer instances
  Clients,     \* calls of Deliver, Cancel, Resume and Schedule
  Hosts,       \* operating-system processes
  HostOf,      \* HostOf[x]: the process that runs slot x
  Holders,     \* the #holder identities, one per workflow or resumer instance
  HolderOf,    \* HolderOf[x]: the identity slot x claims under
  N,           \* number of steps of the body
  Body,        \* Body[k] \in StepKinds
  Swallowers,  \* waits whose caller catches the suspension and carries on
  OnConflict,  \* the workflow's onConflict: "attach" or "reject"
  Ops,         \* the addressing operations the clients use
  MaxFaults,   \* bound on crashes and cancelled bodies
  MaxLapses,   \* bound on claims lapsing under a live holder
  None,        \* an absent value
  Gone         \* the identity of a process that died: its UUID is never reused

Steps     == 1..N
Slots     == Starters \cup Resumers
StepKinds == {"effect", "sleep", "await", "awaitTimeout"}
\* Where the body's inputs came from: its caller, a Schedule, or nowhere.
InputOrigin == {"caller", "stored", "empty"}

ASSUME DurableConstants ==
  /\ N \in Nat
  /\ Body \in [Steps -> StepKinds]
  /\ HostOf \in [Slots -> Hosts]
  /\ HolderOf \in [Slots -> Holders]
  /\ \A x, y \in Slots : HolderOf[x] = HolderOf[y] => HostOf[x] = HostOf[y]
  /\ Gone \notin Holders /\ None \notin Holders /\ Gone # None
  /\ None \notin Slots \cup Clients \cup InputOrigin
  /\ None \notin (0..N) \X (Slots \cup Clients)
  /\ Starters \cap Resumers = {}
  /\ Slots \cap Clients = {}
  /\ Swallowers \subseteq Steps
  /\ MaxFaults \in Nat /\ MaxLapses \in Nat

VARIABLES
  run,        \* run[r]: the row of the runs table
  entries,    \* entries[r]: the entries table, path -> value
  exec,       \* exec[x]: what slot x is doing
  client,     \* client[c]: what call c is doing
  renewals,   \* claim renewals sent and not yet executed by the database
  elapsed,    \* the deadlines that have passed
  performed,  \* history: <<r, k, x>> when x really performed the effect k of r
  budget      \* faults and lapses spent

vars == <<run, entries, exec, client, renewals, elapsed, performed, budget>>

-----------------------------------------------------------------------------
(* Journal keys and values. *)

OwnPath(k)   == <<k, "own">>       \* the step's own entry
TokenPath(k) == <<k, "token">>     \* Durable.Await's token decision
AtPath(k)    == <<k, "at">>        \* wakeAt of a sleep, deadline of an await
InputsPath   == <<0, "inputs">>
OverridePath == <<0, "override">>
Path == {InputsPath, OverridePath} \cup (Steps \X {"own", "token", "at"})

Author   == Slots \cup Clients
Value    == Author \cup InputOrigin
Deadline == (0..N) \X Author

RunStatus == {"none", "scheduled", "running", "parked",
              "completed", "failed", "cancelled"}
Settled == {"completed", "failed", "cancelled"}

NoRun == [status |-> "none", parked |-> 0, token |-> None, due |-> None,
          stored |-> FALSE, holder |-> None, live |-> FALSE, result |-> None]

Row == [status : RunStatus, parked : 0..N, token : Value \cup {None},
        due : Deadline \cup {None}, stored : BOOLEAN,
        holder : Holders \cup {Gone, None}, live : BOOLEAN,
        result : [Steps -> Value \cup {None}] \cup {None}]

NothingSeen == [p \in Path |-> None]
Idle == [st |-> "idle", run |-> None, inputs |-> "empty", seen |-> NothingSeen,
         at |-> 0, latched |-> FALSE, batch |-> {}]

\* The states in which LocalRunHandle is open and the body is being driven.
InBody == {"inputs", "step", "record", "parking", "failing"}
\* The states in which a slot acts on a claim it won.
Owning == {"load", "open"} \cup InBody
ExecState == {"idle", "sweep", "admitted", "exists", "attach"} \cup Owning
Exec == [st : ExecState, run : Runs \cup {None}, inputs : InputOrigin,
         seen : [Path -> Value \cup {None}], at : 0..(N + 1),
         latched : BOOLEAN, batch : SUBSET Runs]

NoCall == [op |-> "none", run |-> None, at |-> 0]
Call == [op : {"none", "deliver", "unpark", "cancel", "override", "done"},
         run : Runs \cup {None}, at : 0..N]

Init ==
  /\ run = [r \in Runs |-> NoRun]
  /\ entries = [r \in Runs |-> NothingSeen]
  /\ exec = [x \in Slots |-> Idle]
  /\ client = [c \in Clients |-> NoCall]
  /\ renewals = {}
  /\ elapsed = {}
  /\ performed = {}
  /\ budget = [faults |-> 0, lapses |-> 0]

-----------------------------------------------------------------------------
(* The journal's statements. *)

\* Mutant: the last writer wins.
Stored_LastWriter(r, p, v) == v

\* append: INSERT ... ON CONFLICT DO NOTHING, answering with the stored entry.
Stored(r, p, v) == IF entries[r][p] = None THEN v ELSE entries[r][p]
Append(r, p, v) == entries' = [entries EXCEPT ![r][p] = Stored(r, p, v)]

\* Mutant: claimRun without its WHERE clause.
Claimable_Always(r, h) == TRUE

\* claimRun's WHERE clause.
Claimable(r, h) ==
  \/ run[r].holder = None
  \/ ~run[r].live
  \/ run[r].holder = h

Claimed(row, h) == [row EXCEPT !.holder = h, !.live = TRUE]

\* completeRun: an UPDATE of the row whatever its status is.
CompleteRun(r, status, result) ==
  run' = [run EXCEPT ![r] =
            [@ EXCEPT !.status = status, !.result = result, !.parked = 0,
                      !.token = None, !.due = None,
                      !.holder = None, !.live = FALSE]]

\* parkRun: likewise, and the claim goes with the park.
ParkRun(r, k, token, due) ==
  run' = [run EXCEPT ![r] =
            [@ EXCEPT !.status = "parked", !.parked = k, !.token = token,
                      !.due = due, !.holder = None, !.live = FALSE]]

\* unparkRun: only a parked row is touched, and its claim is left alone.
UnparkRun(r) ==
  run' = [run EXCEPT ![r] =
            IF @.status = "parked"
            THEN [@ EXCEPT !.status = "running", !.parked = 0,
                           !.token = None, !.due = None]
            ELSE @]

Passed(r, d) == <<r, d>> \in elapsed

\* Mutant: dueRuns without its EXISTS clause.
Due_NoAnswerClause(r) ==
  /\ run[r].holder = None \/ ~run[r].live
  /\ \/ run[r].status = "running"
     \/ /\ run[r].status \in {"scheduled", "parked"}
        /\ run[r].due # None
        /\ Passed(r, run[r].due)

\* Mutant: dueRuns looks for parked and scheduled runs only.
Due_WaitingOnly(r) ==
  /\ run[r].holder = None \/ ~run[r].live
  /\ \/ /\ run[r].status \in {"scheduled", "parked"}
        /\ run[r].due # None
        /\ Passed(r, run[r].due)
     \/ /\ run[r].status = "parked"
        /\ entries[r][OwnPath(run[r].parked)] # None

\* dueRuns: what a poller should work on now.
Due(r) ==
  /\ run[r].holder = None \/ ~run[r].live
  /\ \/ run[r].status = "running"
     \/ /\ run[r].status \in {"scheduled", "parked"}
        /\ run[r].due # None
        /\ Passed(r, run[r].due)
     \/ /\ run[r].status = "parked"
        /\ entries[r][OwnPath(run[r].parked)] # None

DueRuns == {r \in Runs : Due(r)}

-----------------------------------------------------------------------------
(* DurableLocal.Workflow.invoke: admit, then claim, then execute detached. *)

Become(x, st) == exec' = [exec EXCEPT ![x].st = st]

\* What a slot does once a run is over: a resumer goes on with its batch.
After(batch) == [Idle EXCEPT !.st = IF batch = {} THEN "idle" ELSE "sweep",
                             !.batch = batch]
Finish(x) == exec' = [exec EXCEPT ![x] = After(exec[x].batch)]

\* Mutant: the insert does not carry the claim.
AdmitRun_Unclaimed(x, r) ==
  /\ x \in Starters
  /\ exec[x].st = "idle"
  /\ run' = [run EXCEPT ![r] = IF @.status = "none"
                               THEN [NoRun EXCEPT !.status = "running"] ELSE @]
  /\ exec' = [exec EXCEPT ![x] =
                [Idle EXCEPT !.st = IF run[r].status = "none" THEN "admitted" ELSE "exists",
                             !.run = r, !.inputs = "caller"]]
  /\ UNCHANGED <<entries, client, renewals, elapsed, performed, budget>>

AdmitRun(x, r) ==
  /\ x \in Starters
  /\ exec[x].st = "idle"
  /\ IF run[r].status = "none"
     THEN /\ run' = [run EXCEPT ![r] =
                       [NoRun EXCEPT !.status = "running",
                                     !.holder = HolderOf[x], !.live = TRUE]]
          /\ exec' = [exec EXCEPT ![x] = [Idle EXCEPT !.st = "admitted", !.run = r,
                                                      !.inputs = "caller"]]
     ELSE /\ exec' = [exec EXCEPT ![x] = [Idle EXCEPT !.st = "exists", !.run = r,
                                                      !.inputs = "caller"]]
          /\ UNCHANGED run
  /\ UNCHANGED <<entries, client, renewals, elapsed, performed, budget>>

\* The run exists: reject it, answer from its record, or try to take it over.
ReadExisting(x) ==
  /\ exec[x].st = "exists"
  /\ IF OnConflict = "reject" \/ run[exec[x].run].status \in {"completed", "failed"}
     THEN Finish(x)
     ELSE Become(x, "attach")
  /\ UNCHANGED <<run, entries, client, renewals, elapsed, performed, budget>>

ClaimStart(x) ==
  LET r == exec[x].run IN
  /\ exec[x].st \in {"admitted", "attach"}
  /\ IF Claimable(r, HolderOf[x])
     THEN /\ run' = [run EXCEPT ![r] = Claimed(run[r], HolderOf[x])]
          /\ Become(x, "open")
     ELSE /\ Finish(x)
          /\ UNCHANGED run
  /\ UNCHANGED <<entries, client, renewals, elapsed, performed, budget>>

-----------------------------------------------------------------------------
(* DurableLocal.Resumer.sweep: list, then claim and execute one by one. *)

Sweep(x) ==
  /\ x \in Resumers
  /\ exec[x].st = "idle"
  /\ DueRuns # {}
  /\ exec' = [exec EXCEPT ![x] = After(DueRuns)]
  /\ UNCHANGED <<run, entries, client, renewals, elapsed, performed, budget>>

\* claimRun does not look at the status: the list may be stale by now.
SweepNext(x) ==
  /\ exec[x].st = "sweep"
  /\ \E r \in exec[x].batch :
       LET rest == exec[x].batch \ {r} IN
       IF Claimable(r, HolderOf[x])
       THEN /\ run' = [run EXCEPT ![r] = Claimed(run[r], HolderOf[x])]
            /\ exec' = [exec EXCEPT ![x] = [Idle EXCEPT !.st = "load", !.run = r,
                                                        !.batch = rest]]
       ELSE /\ exec' = [exec EXCEPT ![x] = After(rest)]
            /\ UNCHANGED run
  /\ UNCHANGED <<entries, client, renewals, elapsed, performed, budget>>

\* readRun: only what a Schedule stored can stand in for the caller's inputs.
Load(x) ==
  /\ exec[x].st = "load"
  /\ exec' = [exec EXCEPT ![x].st = "open",
                          ![x].inputs = IF run[exec[x].run].stored THEN "stored" ELSE "empty"]
  /\ UNCHANGED <<run, entries, client, renewals, elapsed, performed, budget>>

-----------------------------------------------------------------------------
(* WorkflowController.execute: open the handle, pin the inputs, drive the     *)
(* steps.  LocalRunHandle reads the entries once, when it is opened.          *)

\* Mutant: a handle that does not read the journal.
Open_Unread(x) ==
  /\ exec[x].st = "open"
  /\ exec' = [exec EXCEPT ![x].st = "inputs", ![x].at = 1]
  /\ UNCHANGED <<run, entries, client, renewals, elapsed, performed, budget>>

Open(x) ==
  /\ exec[x].st = "open"
  /\ exec' = [exec EXCEPT ![x].st = "inputs", ![x].at = 1,
                          ![x].seen = entries[exec[x].run]]
  /\ UNCHANGED <<run, entries, client, renewals, elapsed, performed, budget>>

\* #write: append v at p and go on with the entry that won.
Write(x, p, v, st, at) ==
  /\ Append(exec[x].run, p, v)
  /\ exec' = [exec EXCEPT ![x].st = st, ![x].at = at,
                          ![x].seen[p] = Stored(exec[x].run, p, v)]

DecideInputs(x) ==
  /\ exec[x].st = "inputs"
  /\ IF exec[x].seen[InputsPath] # None
     THEN /\ Become(x, "step")
          /\ UNCHANGED entries
     ELSE Write(x, InputsPath, exec[x].inputs, "step", 1)
  /\ UNCHANGED <<run, client, renewals, elapsed, performed, budget>>

\* The body is about to dispatch a step of one of these kinds, unrecorded.
Reaching(x, kinds) ==
  /\ exec[x].st = "step"
  /\ exec[x].at \in Steps
  /\ exec[x].seen[OwnPath(exec[x].at)] = None
  /\ Body[exec[x].at] \in kinds

\* A recorded step hands back its entry, whatever its kind.
Replay(x) ==
  /\ exec[x].st = "step"
  /\ exec[x].at \in Steps
  /\ exec[x].seen[OwnPath(exec[x].at)] # None
  /\ exec' = [exec EXCEPT ![x].at = exec[x].at + 1]
  /\ UNCHANGED <<run, entries, client, renewals, elapsed, performed, budget>>

PerformEffect(x) ==
  /\ Reaching(x, {"effect"})
  /\ performed' = performed \cup {<<exec[x].run, exec[x].at, x>>}
  /\ Become(x, "record")
  /\ UNCHANGED <<run, entries, client, renewals, elapsed, budget>>

\* Mutant: an effect that raised is recorded as a completed step.
FailEffect_Recorded(x) ==
  /\ Reaching(x, {"effect"})
  /\ Become(x, "record")
  /\ UNCHANGED <<run, entries, client, renewals, elapsed, performed, budget>>

\* Mutant: an effect that raised is skipped.
FailEffect_Skipped(x) ==
  /\ Reaching(x, {"effect"})
  /\ exec' = [exec EXCEPT ![x].at = exec[x].at + 1]
  /\ UNCHANGED <<run, entries, client, renewals, elapsed, performed, budget>>

FailEffect(x) ==
  /\ Reaching(x, {"effect"})
  /\ Become(x, "failing")
  /\ UNCHANGED <<run, entries, client, renewals, elapsed, performed, budget>>

\* Recorded on completion, first writer wins.
RecordStep(x) ==
  /\ exec[x].st = "record"
  /\ Write(x, OwnPath(exec[x].at), x, "step", exec[x].at + 1)
  /\ UNCHANGED <<run, client, renewals, elapsed, performed, budget>>

-----------------------------------------------------------------------------
(* Durable.Await and Durable.Sleep: pin the token, pin the deadline, then let *)
(* the clock decide between going on, timing out and parking.                 *)

Waits == {"sleep", "await", "awaitTimeout"}
Timed == {"sleep", "awaitTimeout"}

PinToken(x) ==
  LET p == TokenPath(exec[x].at) IN
  /\ Reaching(x, {"await", "awaitTimeout"})
  /\ exec[x].seen[p] = None
  /\ Write(x, p, x, "step", exec[x].at)
  /\ UNCHANGED <<run, client, renewals, elapsed, performed, budget>>

TokenPinned(x) ==
  Body[exec[x].at] = "sleep" \/ exec[x].seen[TokenPath(exec[x].at)] # None

\* Mutant: the deadline is computed afresh and not journaled.
PinDeadline_Recomputed(x) ==
  /\ Reaching(x, Timed)
  /\ TokenPinned(x)
  /\ exec[x].seen[AtPath(exec[x].at)] = None
  /\ exec' = [exec EXCEPT ![x].seen[AtPath(exec[x].at)] = x]
  /\ UNCHANGED <<run, entries, client, renewals, elapsed, performed, budget>>

PinDeadline(x) ==
  LET p == AtPath(exec[x].at) IN
  /\ Reaching(x, Timed)
  /\ TokenPinned(x)
  /\ exec[x].seen[p] = None
  /\ Write(x, p, x, "step", exec[x].at)
  /\ UNCHANGED <<run, client, renewals, elapsed, performed, budget>>

\* The wait's deadline as this execution knows it, None for an untimed await.
DeadlineOf(x) ==
  IF Body[exec[x].at] \in Timed
  THEN <<exec[x].at, exec[x].seen[AtPath(exec[x].at)]>>
  ELSE None

\* Mutant: the deadline is used before it is pinned.
Pinned_TokenOnly(x) == TokenPinned(x)

Pinned(x) ==
  /\ TokenPinned(x)
  /\ Body[exec[x].at] \in Timed => exec[x].seen[AtPath(exec[x].at)] # None

SleepDone(x) ==
  /\ Reaching(x, {"sleep"})
  /\ Pinned(x)
  /\ Passed(exec[x].run, DeadlineOf(x))
  /\ Become(x, "record")
  /\ UNCHANGED <<run, entries, client, renewals, elapsed, performed, budget>>

\* Mutant: a timeout returns instead of raising.
AwaitTimeout_Returns(x) ==
  /\ Reaching(x, {"awaitTimeout"})
  /\ Pinned(x)
  /\ Passed(exec[x].run, DeadlineOf(x))
  /\ Become(x, "record")
  /\ UNCHANGED <<run, entries, client, renewals, elapsed, performed, budget>>

AwaitTimeout(x) ==
  /\ Reaching(x, {"awaitTimeout"})
  /\ Pinned(x)
  /\ Passed(exec[x].run, DeadlineOf(x))
  /\ Become(x, "failing")
  /\ UNCHANGED <<run, entries, client, renewals, elapsed, performed, budget>>

\* The clock is read here; parkRun is a statement of its own, later.
DecideToPark(x) ==
  /\ Reaching(x, Waits)
  /\ Pinned(x)
  /\ ~Passed(exec[x].run, DeadlineOf(x))
  /\ Become(x, "parking")
  /\ UNCHANGED <<run, entries, client, renewals, elapsed, performed, budget>>

\* park: recorded, then unwound to the boundary - unless the step's target
\* catches the signal, returns, and is recorded as a completed step.
Park(x) ==
  LET k == exec[x].at
      token == IF Body[k] = "sleep" THEN None ELSE exec[x].seen[TokenPath(k)]
  IN
  /\ exec[x].st = "parking"
  /\ ParkRun(exec[x].run, k, token, DeadlineOf(x))
  /\ IF k \in Swallowers
     THEN exec' = [exec EXCEPT ![x].st = "record", ![x].latched = TRUE]
     ELSE Finish(x)
  /\ UNCHANGED <<entries, client, renewals, elapsed, performed, budget>>

-----------------------------------------------------------------------------
(* How an execution ends. *)

SettleFailed(x) ==
  /\ exec[x].st = "failing"
  /\ CompleteRun(exec[x].run, "failed", None)
  /\ Finish(x)
  /\ UNCHANGED <<entries, client, renewals, elapsed, performed, budget>>

\* Mutant: the body is settled one step early.
Complete_Early(x) ==
  /\ exec[x].st = "step"
  /\ exec[x].at = N
  /\ CompleteRun(exec[x].run, "completed",
                 [k \in Steps |-> exec[x].seen[OwnPath(k)]])
  /\ Finish(x)
  /\ UNCHANGED <<entries, client, renewals, elapsed, performed, budget>>

\* assertNotSwallowed raises outside the try, so a latched run is not settled.
Complete(x) ==
  /\ exec[x].st = "step"
  /\ exec[x].at = N + 1
  /\ IF exec[x].latched
     THEN UNCHANGED run
     ELSE CompleteRun(exec[x].run, "completed",
                      [k \in Steps |-> exec[x].seen[OwnPath(k)]])
  /\ Finish(x)
  /\ UNCHANGED <<entries, client, renewals, elapsed, performed, budget>>

\* A cancelled body, or a journal error outside the try: not settled.
Interrupt(x) ==
  /\ exec[x].st \in Owning
  /\ budget.faults < MaxFaults
  /\ budget' = [budget EXCEPT !.faults = @ + 1]
  /\ Finish(x)
  /\ UNCHANGED <<run, entries, client, renewals, elapsed, performed>>

\* A write inside the body raises: an unrecordable value, a lost connection.
\* The body fails although an effect may have been performed.
FailWrite(x) ==
  /\ exec[x].st \in {"record", "parking"} \/ Reaching(x, Waits)
  /\ budget.faults < MaxFaults
  /\ budget' = [budget EXCEPT !.faults = @ + 1]
  /\ Become(x, "failing")
  /\ UNCHANGED <<run, entries, client, renewals, elapsed, performed>>

-----------------------------------------------------------------------------
(* The claim's timer, the clock, and processes dying. *)

\* The renewal interval sends a claimRun nobody waits for ...
FireRenewal(x) ==
  /\ exec[x].st \in InBody
  /\ renewals' = renewals \cup {<<exec[x].run, HolderOf[x]>>}
  /\ UNCHANGED <<run, entries, exec, client, elapsed, performed, budget>>

\* ... so it may land after the body settled or parked the run.
LandRenewal(r, h) ==
  /\ <<r, h>> \in renewals
  /\ renewals' = renewals \ {<<r, h>>}
  /\ run' = IF Claimable(r, h) THEN [run EXCEPT ![r] = Claimed(run[r], h)] ELSE run
  /\ UNCHANGED <<entries, exec, client, elapsed, performed, budget>>

\* Is somebody acting on the claim that r carries?
Worked(r) ==
  \E x \in Slots : /\ exec[x].run = r
                   /\ exec[x].st \in Owning \cup {"admitted"}
                   /\ HolderOf[x] = run[r].holder

\* claim_until passes.  Under a working holder that takes lost renewals.
Lapse(r) ==
  /\ run[r].live
  /\ IF Worked(r)
     THEN /\ budget.lapses < MaxLapses
          /\ budget' = [budget EXCEPT !.lapses = @ + 1]
     ELSE UNCHANGED budget
  /\ run' = [run EXCEPT ![r].live = FALSE]
  /\ UNCHANGED <<entries, exec, client, renewals, elapsed, performed>>

\* A scheduled time, a wake time or a deadline passes.
Elapse(r) ==
  /\ \E d \in {run[r].due} \cup
              {<<k, entries[r][AtPath(k)]>> : k \in {j \in Steps : entries[r][AtPath(j)] # None}} :
       /\ d # None
       /\ ~Passed(r, d)
       /\ elapsed' = elapsed \cup {<<r, d>>}
  /\ UNCHANGED <<run, entries, exec, client, renewals, performed, budget>>

\* The process dies and is restarted.  What it held or sent keeps its old
\* identity, which no slot has any more: #holder is a fresh UUID.
Crash(host) ==
  LET dead == {HolderOf[x] : x \in {y \in Slots : HostOf[y] = host}}
      Now(h) == IF h \in dead THEN Gone ELSE h
  IN
  /\ \E x \in Slots : HostOf[x] = host /\ exec[x].st # "idle"
  /\ budget.faults < MaxFaults
  /\ budget' = [budget EXCEPT !.faults = @ + 1]
  /\ exec' = [x \in Slots |-> IF HostOf[x] = host THEN Idle ELSE exec[x]]
  /\ run' = [r \in Runs |-> [run[r] EXCEPT !.holder = Now(run[r].holder)]]
  /\ renewals' = {<<m[1], Now(m[2])>> : m \in renewals}
  /\ UNCHANGED <<entries, client, elapsed, performed>>

-----------------------------------------------------------------------------
(* Addressing a run from outside: each call is several statements.            *)

Enter(c, op, r, k) ==
  client' = [client EXCEPT ![c] = [op |-> op, run |-> r, at |-> k]]
Return(c) == client' = [client EXCEPT ![c] = [NoCall EXCEPT !.op = "done"]]

\* Deliver: runParkedOn(token), append the payload at the park, unparkRun.
DeliverFind(c, r) ==
  /\ client[c].op = "none" /\ "deliver" \in Ops
  /\ run[r].status = "parked" /\ run[r].token # None
  /\ Enter(c, "deliver", r, run[r].parked)
  /\ UNCHANGED <<run, entries, exec, renewals, elapsed, performed, budget>>

DeliverAppend(c) ==
  /\ client[c].op = "deliver"
  /\ Append(client[c].run, OwnPath(client[c].at), c)
  /\ Enter(c, "unpark", client[c].run, 0)
  /\ UNCHANGED <<run, exec, renewals, elapsed, performed, budget>>

Unpark(c) ==
  /\ client[c].op = "unpark"
  /\ UnparkRun(client[c].run)
  /\ Return(c)
  /\ UNCHANGED <<entries, exec, renewals, elapsed, performed, budget>>

\* Cancel: readRun, then completeRun whatever happened in between.
CancelRead(c, r) ==
  /\ client[c].op = "none" /\ "cancel" \in Ops
  /\ run[r].status \notin {"none", "completed", "failed"}
  /\ Enter(c, "cancel", r, 0)
  /\ UNCHANGED <<run, entries, exec, renewals, elapsed, performed, budget>>

CancelWrite(c) ==
  /\ client[c].op = "cancel"
  /\ CompleteRun(client[c].run, "cancelled", None)
  /\ Return(c)
  /\ UNCHANGED <<entries, exec, renewals, elapsed, performed, budget>>

\* Resume: readRun, append the override, unparkRun.
ResumeRead(c, r) ==
  /\ client[c].op = "none" /\ "resume" \in Ops
  /\ run[r].status \notin {"none"} \cup Settled
  /\ Enter(c, "override", r, 0)
  /\ UNCHANGED <<run, entries, exec, renewals, elapsed, performed, budget>>

OverrideAppend(c) ==
  /\ client[c].op = "override"
  /\ Append(client[c].run, OverridePath, c)
  /\ Enter(c, "unpark", client[c].run, 0)
  /\ UNCHANGED <<run, exec, renewals, elapsed, performed, budget>>

\* Schedule: one insert, with the inputs and without a claim.
Schedule(c, r) ==
  /\ client[c].op = "none" /\ "schedule" \in Ops
  /\ run[r].status = "none"
  /\ run' = [run EXCEPT ![r] = [NoRun EXCEPT !.status = "scheduled",
                                             !.due = <<0, c>>, !.stored = TRUE]]
  /\ Return(c)
  /\ UNCHANGED <<entries, exec, renewals, elapsed, performed, budget>>

\* The calling process dies, or its next statement fails.
Abandon(c) ==
  /\ client[c].op \in {"deliver", "unpark", "cancel", "override"}
  /\ Return(c)
  /\ UNCHANGED <<run, entries, exec, renewals, elapsed, performed, budget>>

-----------------------------------------------------------------------------
\* What a slot does by itself once it has something to do.
Drive(x) ==
  \/ ReadExisting(x) \/ ClaimStart(x) \/ SweepNext(x) \/ Load(x) \/ Open(x)
  \/ DecideInputs(x) \/ Replay(x) \/ PerformEffect(x) \/ FailEffect(x)
  \/ RecordStep(x) \/ PinToken(x) \/ PinDeadline(x) \/ SleepDone(x)
  \/ AwaitTimeout(x) \/ DecideToPark(x) \/ Park(x) \/ SettleFailed(x) \/ Complete(x)

Address(c) ==
  \/ \E r \in Runs : DeliverFind(c, r) \/ CancelRead(c, r) \/ ResumeRead(c, r)
                     \/ Schedule(c, r)
  \/ DeliverAppend(c) \/ Unpark(c) \/ CancelWrite(c) \/ OverrideAppend(c)
  \/ Abandon(c)

Next ==
  \/ \E x \in Slots : \/ \E r \in Runs : AdmitRun(x, r)
                      \/ Sweep(x) \/ Drive(x) \/ FireRenewal(x)
                      \/ Interrupt(x) \/ FailWrite(x)
  \/ \E r \in Runs, h \in Holders \cup {Gone} : LandRenewal(r, h)
  \/ \E r \in Runs : Lapse(r) \/ Elapse(r)
  \/ \E host \in Hosts : Crash(host)
  \/ \E c \in Clients : Address(c)

Spec == Init /\ [][Next]_vars

\* The event loop runs what is ready, the sweep timer keeps firing, time
\* passes.  No fairness for starts, addressing calls, renewals or faults.
Fairness ==
  /\ \A x \in Slots : WF_vars(Drive(x))
  /\ \A x \in Resumers : WF_vars(Sweep(x))
  /\ \A r \in Runs : WF_vars(Lapse(r)) /\ WF_vars(Elapse(r))

FairSpec == Spec /\ Fairness
-----------------------------------------------------------------------------
(* Properties. *)

\* Types of the journal's rows and of what the processes hold in memory.
TypeOK ==
  /\ run \in [Runs -> Row]
  /\ entries \in [Runs -> [Path -> Value \cup {None}]]
  /\ exec \in [Slots -> Exec]
  /\ client \in [Clients -> Call]
  /\ renewals \subseteq Runs \X (Holders \cup {Gone})
  /\ elapsed \subseteq Runs \X Deadline
  /\ performed \subseteq Runs \X Steps \X Slots
  /\ budget \in [faults : 0..MaxFaults, lapses : 0..MaxLapses]

\* Two executions of one run never work with different values of a step or a
\* decision: whatever LocalRunHandle hands to the body is what the journal holds,
\* however many executions race (run-handle.ts #write, "the value that WON").
ReplayAgreement ==
  \A x \in Slots, p \in Path :
    exec[x].seen[p] # None => entries[exec[x].run][p] = exec[x].seen[p]

\* Recorded on COMPLETION (run-handle.ts step): an effect's entry written by an
\* execution means that execution really performed the effect, so an interrupted
\* step re-executes rather than being skipped.
JournalOnCompletion ==
  \A r \in Runs, k \in Steps :
    Body[k] = "effect" /\ entries[r][OwnPath(k)] # None
      => <<r, k, entries[r][OwnPath(k)]>> \in performed

\* A step is recorded only after every step before it, whoever wrote them: a
\* delivery cannot land ahead of the body, and no replay skips a step.
RecordedInOrder ==
  \A r \in Runs, j, k \in Steps :
    j < k /\ entries[r][OwnPath(k)] # None => entries[r][OwnPath(j)] # None

\* What completeRun stored as the result of a completed run is exactly what the
\* journal recorded for its steps, all of them.
ResultIsJournal ==
  \A r \in Runs :
    run[r].status = "completed" =>
      \A k \in Steps : /\ run[r].result[k] # None
                      /\ run[r].result[k] = entries[r][OwnPath(k)]

\* A parked run waits on its journaled token and deadline: no resume re-mints the
\* token or slides the deadline (await-delivery.ts, sleep.ts "pinned").
ParkIsPinned ==
  \A r \in Runs :
    run[r].status = "parked" =>
      LET k == run[r].parked IN
      /\ k \in Steps
      /\ run[r].token # None => run[r].token = entries[r][TokenPath(k)]
      /\ run[r].due # None => run[r].due = <<k, entries[r][AtPath(k)]>>
      /\ Body[k] \in Timed <=> run[r].due # None
      /\ Body[k] = "sleep" <=> run[r].token = None

\* A wait that nothing swallows ends only the way it promises: a sleep is over
\* once its pinned wake time has passed, an await once a delivery answered it.
WaitsAreHonoured ==
  \A r \in Runs, k \in Steps \ Swallowers :
    entries[r][OwnPath(k)] # None =>
      /\ Body[k] = "sleep" => Passed(r, <<k, entries[r][AtPath(k)]>>)
      /\ Body[k] \in {"await", "awaitTimeout"} => entries[r][OwnPath(k)] \in Clients

\* As long as no process died and no claim lapsed under its holder, no body runs
\* on empty inputs: the claim in the admitting insert keeps the resumer away until
\* the start has pinned what its caller sent (workflow.ts, admitRun's claim).
InputsSurvive ==
  \A r \in Runs :
    budget.faults = 0 /\ budget.lapses = 0 => entries[r][InputsPath] # "empty"

\* The conditions the claim protects under: claims were renewed in time, no two
\* starts share one workflow instance, nothing cancels runs, and no body goes on
\* after the park that gave its claim up.
ClaimsHold ==
  /\ budget.lapses = 0
  /\ \A x, y \in Slots : HolderOf[x] = HolderOf[y] => x = y
  /\ "cancel" \notin Ops
  /\ Swallowers = {}

\* The claim keeps executions apart: while every claim is renewed in time, two
\* slots never act on one run together (workflow.ts CLAIM_RENEW_MS, resumer.ts).
Alone ==
  \A x, y \in Slots :
    exec[x].st \in Owning /\ exec[y].st \in Owning /\ exec[x].run = exec[y].run
      => x = y
ExclusiveExecution == ClaimsHold => Alone

\* Exactly once when nothing goes wrong: without faults and with claims renewed
\* in time, no effect is performed by two executions of a run.
EffectOnce ==
  ClaimsHold /\ budget.faults = 0 =>
    \A r \in Runs, k \in Steps, x, y \in Slots :
      <<r, k, x>> \in performed /\ <<r, k, y>> \in performed => x = y

\* What the claim is for: renewed in time, it keeps executions apart, and without a
\* fault the body runs on what its caller sent and performs each effect once
\* (workflow.ts, resumer.ts).
ClaimsProtect == InputsSurvive /\ ExclusiveExecution /\ EffectOnce

\* Under the same conditions a completed run stays completed with the result it
\* has, although a stale sweep or a stale attach may execute it once more.
CompletedIsFinal ==
  [][ClaimsHold => \A r \in Runs : run[r].status = "completed" =>
       run'[r].status = "completed" /\ run'[r].result = run[r].result]_vars

\* The journal, whoever writes it and whatever crashes, lapses or is cancelled,
\* is one history per run (run-handle.ts, deliver.ts): DurableHistory.
History == INSTANCE DurableHistory WITH
  inputs    <- [r \in Runs |-> entries[r][InputsPath]],
  steps     <- [r \in Runs |-> [k \in 1..N |-> entries[r][OwnPath(k)]]],
  pins      <- [r \in Runs |-> [k \in 1..N |->
                  [d \in {"token", "at"} |-> entries[r][<<k, d>>]]]],
  overrides <- [r \in Runs |-> entries[r][OverridePath]],
  result    <- [r \in Runs |-> run[r].result]

OneHistory == History!HistorySpec

\* A delivery that was recorded wakes its run, even when the deliverer dies
\* between the append and unparkRun (the EXISTS clause of dueRuns).
DeliveryWakes ==
  \A r \in Runs, k \in Steps :
    (run[r].status = "parked" /\ run[r].parked = k /\ entries[r][OwnPath(k)] \in Clients)
      ~> (run[r].parked # k)

\* An admitted run is settled or waits for a delivery: no crash, lapse or lost
\* wake-up strands it.
Outcome(r) ==
  run[r].status \in Settled \/ (run[r].status = "parked" /\ run[r].due = None)
AdmittedSettles ==
  \A r \in Runs : (run[r].status # "none") ~> Outcome(r)

\* A run recorded as completed really waited at each of its waits: the latch
\* keeps a body that swallowed a suspension from settling (workflow.ts, "Checked
\* before the settlement, so the false record is never written").
NoFalseCompletion ==
  \A r \in Runs, k \in Steps :
    run[r].status = "completed" =>
      /\ Body[k] = "sleep" => Passed(r, <<k, entries[r][AtPath(k)]>>)
      /\ Body[k] \in {"await", "awaitTimeout"} => entries[r][OwnPath(k)] \in Clients

-----------------------------------------------------------------------------
(* Statements of the source that the code does not keep.  CancelledIsTerminal  *)
(* has a run of its own; the README names the instances that refute the others.*)

\* cancel.ts: a cancelled run is terminal.
CancelledIsTerminal ==
  [][\A r \in Runs : run[r].status = "cancelled" => run'[r].status = "cancelled"]_vars

\* workflow.ts: failing to take the claim means someone is working the run, so
\* taking it means nobody is, as long as it was renewed in time.
ClaimMeansAlone == budget.lapses = 0 => Alone

\* cancel.ts: a run that already finished is not cancelled retroactively.
NoRetroactiveCancel ==
  [][\A r \in Runs : run[r].status = "completed" => run'[r].status # "cancelled"]_vars

\* workflow.ts: a failed run is terminal, the next process refuses to continue it.
FailedIsTerminal ==
  [][\A r \in Runs : run[r].status = "failed" => run'[r].status = "failed"]_vars

\* workflow.ts: no resume runs the body against empty inputs.
InputsNeverEmpty ==
  \A r \in Runs : entries[r][InputsPath] # "empty"

\* await-delivery.ts: an await times out only with nothing delivered, because a
\* recorded delivery means the await is not reached at all.
AnswerOutranksDeadline ==
  [][\A r \in Runs : run[r].status # "failed" /\ run'[r].status = "failed" =>
       \A k \in Steps : Body[k] = "awaitTimeout" => entries[r][OwnPath(k)] = None]_vars
=============================================================================
