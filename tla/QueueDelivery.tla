--------------------------- MODULE QueueDelivery ---------------------------
(***************************************************************************)
(* Queue delivery: the WorkerLoop of Queue.Worker (claim, run under a      *)
(* renewed lease, settle, hand back at shutdown) over the rows of an       *)
(* ungrouped SqlQueueStore, with Enqueue, Cancel and Requeue beside it.    *)
(*                                                                         *)
(* A statement, or a transaction whose row locks make it one, is one step. *)
(* A store call of the worker is three: sent, executed, answered.  Time is *)
(* counted in thirds of the lease, the unit the worker reckons in, and     *)
(* passes for the store's clock and the workers' alike.                    *)
(***************************************************************************)
EXTENDS Naturals, FiniteSets, FiniteSetsExt

CONSTANTS
  Workers,         \* processes that run a Queue.Worker
  Ids,             \* message ids
  Unreadable,      \* ids whose stored body does not have the message type
  Concurrency,     \* the worker's concurrency
  Budget,          \* 1 + retry.attempts
  HasOnDead,       \* whether the worker declares onDead
  LapseRetryable,  \* ERR_QUEUE_LEASE_EXPIRED is not in retry.nonRetryable
  Ops,             \* operations used beside the workers
  MaxClaimWait,    \* thirds of a lease a claim call may take
  Punctual,        \* whether a worker does what is due within a third of a lease
  Prompt,          \* whether a settling call takes less than a third of a lease
  MaxClaims,       \* bound on the claims that take something
  MaxFaults,       \* bound on crashes and failed store calls
  MaxStops         \* bound on graceful shutdowns

Lease == 3        \* the lease, in thirds of it
Margin == 1        \* what is left of the lease when the worker gives up

ASSUME QueueConstants ==
  /\ Unreadable \subseteq Ids /\ IsFiniteSet(Ids)
  /\ Concurrency \in Nat \ {0} /\ Budget \in Nat \ {0}
  /\ {HasOnDead, LapseRetryable, Punctual, Prompt} \subseteq BOOLEAN
  /\ Ops \subseteq {"cancel", "requeue", "expire"}
  /\ {MaxClaimWait, MaxClaims, MaxFaults, MaxStops} \subseteq Nat

VARIABLES
  rows,     \* rows[i]: the row of message i
  flights,  \* the messages workers hold, claimed and not yet let go
  worker,   \* worker[w]: the loop and the shutdown of worker w
  client,   \* the Cancel call under way
  claims,   \* claims that took something: each has a token of its own
  faults,   \* faults spent
  stops     \* shutdowns spent

vars == <<rows, flights, worker, client, claims, faults, stops>>

-----------------------------------------------------------------------------
(* The store's rows. *)

Settled   == {"completed", "dead", "cancelled"}
RowStates == {"none", "scheduled", "pending", "running"} \cup Settled
NoToken   == 0
Tokens    == 1..MaxClaims

NoRow == [st |-> "none", lease |-> 0, token |-> NoToken, attempts |-> 0,
          dying |-> FALSE, cancel |-> FALSE]

\* What every settling statement clears.
Settle(row, st) ==
  [row EXCEPT !.st = st, !.token = NoToken, !.lease = 0, !.dying = FALSE]

\* release: a cancel requested meanwhile settles the message instead.
Release(row, giveBack, dying, st) ==
  [row EXCEPT !.st = IF row.cancel THEN "cancelled" ELSE st,
              !.token = NoToken, !.lease = 0, !.dying = dying,
              !.attempts = IF giveBack THEN @ - 1 ELSE @]

\* Wrong form: the claim token is not compared.
HeldBy_AnyClaim(f) == rows[f.id].st = "running"

HeldBy(f) == rows[f.id].st = "running" /\ rows[f.id].token = f.token

Lapsed(row) == row.st = "running" /\ row.lease = 0

-----------------------------------------------------------------------------
(* The worker's side. *)

\* A message while a worker has to do with it.  `held` and `fresh` are what is
\* left of heldUntil, and of the heldUntil an unanswered renewal would give.
FlightStates == {"coming", "begin", "handler", "onDead", "complete", "release",
                 "mark", "kill", "unrun", "done"}
Running  == {"handler", "onDead"}
Calling  == {"complete", "release", "mark", "kill", "unrun"}

FlightType ==
  [id: Ids, token: Tokens, w: Workers, st: FlightStates, attempt: Nat,
   lapsed: BOOLEAN, dying: BOOLEAN, held: 0..Lease, fresh: 0..Lease,
   renew: {"none", "sent", "held", "lost", "cancelled"},
   ending: {"none", "lost", "cancelled", "shutdown"},
   back: {"no", "sent", "done"}]

Idle(phase) == [phase |-> phase, pc |-> "free", age |-> 0, room |-> 0]

InFlight(w) == {f \in flights : f.w = w /\ f.st \notin {"coming", "unrun", "done"}}
Answered(w) == {f \in flights : f.w = w /\ f.st = "coming"}

\* The loop function returned: awaited by stop() before it looks at inFlight.
LoopOver(w) ==
  worker[w].pc = "free" /\ \A f \in flights : f.w = w => f.st # "unrun"

\* A flight nothing refers to any more leaves the map, and what will not be read
\* again is forgotten: heldUntil once the delivery has ended, lapsed and dying once
\* the handler was chosen.
Spent(f) == f.st = "done" /\ f.renew = "none" /\ f.back # "sent"
Forget(f) ==
  LET ended == f.st = "done" \/ f.ending # "none"
      begun == f.st \notin {"coming", "begin"}
  IN  [f EXCEPT !.held = IF ended THEN 0 ELSE @, !.fresh = IF ended THEN 0 ELSE @,
                !.lapsed = @ /\ ~begun, !.dying = @ /\ ~begun]
With(f, g) == (flights \ {f}) \cup {Forget(x) : x \in {y \in {g} : ~Spent(y)}}

\* settle() sends nothing through a claim that is lost, cancelled or handed back.
Sent(f, call) ==
  [f EXCEPT !.st = IF f.ending \in {"lost", "cancelled"} \/ f.back # "no"
                     THEN "done" ELSE call]

Ended(f, why) == [f EXCEPT !.ending = IF @ = "none" THEN why ELSE @]

NoCancel == [pc |-> "idle"]

Init ==
  /\ rows = [i \in Ids |-> NoRow]
  /\ flights = {}
  /\ worker = [w \in Workers |-> Idle("run")]
  /\ client = NoCancel
  /\ claims = 0 /\ faults = 0 /\ stops = 0

Fault == faults < MaxFaults /\ faults' = faults + 1

-----------------------------------------------------------------------------
(* Producers, and the passage of time. *)

\* enqueue: the unique index lets one row per id in; an expired one is replaced.
Enqueue(i) ==
  /\ rows[i].st = "none"
  /\ \E st \in {"pending", "scheduled"} : rows' = [rows EXCEPT ![i] = [NoRow EXCEPT !.st = st]]
  /\ UNCHANGED <<flights, worker, client, claims, faults, stops>>

\* The visibility time has come.
Visible(i) ==
  /\ rows[i].st = "scheduled"
  /\ rows' = [rows EXCEPT ![i].st = "pending"]
  /\ UNCHANGED <<flights, worker, client, claims, faults, stops>>

\* Retention has passed: the message reads as absent, and enqueue and the purge
\* of a claim remove its row.  Dead messages never expire.
Expire(i) ==
  /\ "expire" \in Ops
  /\ rows[i].st \in {"completed", "cancelled"}
  /\ rows' = [rows EXCEPT ![i] = NoRow]
  /\ UNCHANGED <<flights, worker, client, claims, faults, stops>>

\* Wrong form: the worker gives up when the lease is over, without a margin.
GiveUpDue_NoMargin(f) ==
  f.st \notin {"coming", "unrun", "done"} /\ f.ending = "none" /\ f.back = "no" /\ f.held = 0

\* The give-up timer of this flight is due.
GiveUpDue(f) ==
  f.st \notin {"coming", "unrun", "done"} /\ f.ending = "none" /\ f.back = "no" /\ f.held <= Margin

Less(n) == IF n = 0 THEN 0 ELSE n - 1

\* A third of a lease passes; a punctual worker has done by then what was due.
Tick ==
  /\ Punctual => \A f \in flights : ~GiveUpDue(f) /\ f.st # "begin"
  /\ Prompt => \A f \in flights : f.st \notin Calling
  /\ \A w \in Workers : worker[w].pc # "free" => worker[w].age < MaxClaimWait
  /\ rows' = [i \in Ids |-> [rows[i] EXCEPT !.lease = Less(@)]]
  /\ flights' = {[f EXCEPT !.held = Less(@), !.fresh = Less(@)] : f \in flights}
  /\ worker' = [w \in Workers |->
                  IF worker[w].pc = "free" THEN worker[w] ELSE [worker[w] EXCEPT !.age = @ + 1]]
  /\ UNCHANGED <<client, claims, faults, stops>>

-----------------------------------------------------------------------------
(* Claiming. *)

\* Wrong form: asks for the whole concurrency, whatever is in flight.
Ask_WholeConcurrency(w) ==
  /\ worker[w].phase = "run" /\ worker[w].pc = "free"
  /\ claims + Cardinality({v \in Workers : worker[v].pc = "asked"}) < MaxClaims
  /\ Cardinality(InFlight(w)) < Concurrency
  /\ worker' = [worker EXCEPT ![w].pc = "asked", ![w].age = 0, ![w].room = Concurrency]
  /\ UNCHANGED <<rows, flights, client, claims, faults, stops>>

\* The loop dates the lease from here.
Ask(w) ==
  /\ worker[w].phase = "run" /\ worker[w].pc = "free"
  /\ claims + Cardinality({v \in Workers : worker[v].pc = "asked"}) < MaxClaims
  /\ Cardinality(InFlight(w)) < Concurrency
  /\ worker' = [worker EXCEPT ![w].pc = "asked", ![w].age = 0,
                              ![w].room = Concurrency - Cardinality(InFlight(w))]
  /\ UNCHANGED <<rows, flights, client, claims, faults, stops>>

\* Wrong form: a lapsed message is delivered again although its cancel was requested.
LapsedCandidates_Any == {i \in Ids : Lapsed(rows[i])}

\* Lapsed running messages that nobody asked to cancel, then visible pending ones.
LapsedCandidates == {i \in Ids : Lapsed(rows[i]) /\ ~rows[i].cancel}
VisibleCandidates == {i \in Ids : rows[i].st = "pending"}
Candidates(limit) ==
  {S \in SUBSET (LapsedCandidates \cup VisibleCandidates) :
     /\ Cardinality(S) = Min({limit, Cardinality(LapsedCandidates \cup VisibleCandidates)})
     /\ S \cap VisibleCandidates # {} => LapsedCandidates \subseteq S}

\* Wrong form: a lapsed message asked to cancel is left as it is.
SettleLapsedCancels_Never(row) == row

SettleLapsedCancels(row) ==
  IF Lapsed(row) /\ row.cancel THEN Settle(row, "cancelled") ELSE row

MarkRunning(row, token) ==
  [row EXCEPT !.st = "running", !.token = token, !.lease = Lease, !.attempts = @ + 1]

ClaimedOf(i, w, token, age) ==
  [id |-> i, token |-> token, w |-> w, st |-> "coming", attempt |-> rows[i].attempts + 1,
   lapsed |-> rows[i].st = "running", dying |-> rows[i].dying,
   held |-> IF age > Lease THEN 0 ELSE Lease - age, fresh |-> 0,
   renew |-> "none", ending |-> "none", back |-> "no"]

\* claimOnce: one transaction.
ClaimOnce(w) ==
  /\ worker[w].pc = "asked"
  /\ \E S \in Candidates(worker[w].room) :
       LET token == claims + 1
       IN  /\ claims' = IF S = {} THEN claims ELSE token
           /\ rows' = [i \in Ids |-> IF i \in S THEN MarkRunning(rows[i], token)
                                     ELSE SettleLapsedCancels(rows[i])]
           /\ flights' = flights \cup {ClaimedOf(i, w, token, worker[w].age) : i \in S}
           /\ worker' = [worker EXCEPT ![w].pc = IF S = {} THEN "free" ELSE "answered",
                                       ![w].age = IF S = {} THEN 0 ELSE @, ![w].room = 0]
  /\ UNCHANGED <<client, faults, stops>>

\* The claim failed, before or after the store executed it.
ClaimFails(w) ==
  /\ worker[w].pc # "free" /\ Fault
  /\ flights' = flights \ Answered(w)
  /\ worker' = [worker EXCEPT ![w].pc = "free", ![w].age = 0, ![w].room = 0]
  /\ UNCHANGED <<rows, client, claims, stops>>

\* What was claimed begins, or is handed straight back when the worker stops.
Receive(w) ==
  /\ worker[w].pc = "answered"
  /\ flights' = (flights \ Answered(w)) \cup
       {[f EXCEPT !.st = IF worker[w].phase = "run" THEN "begin" ELSE "unrun"] : f \in Answered(w)}
  /\ worker' = [worker EXCEPT ![w].pc = "free", ![w].age = 0]
  /\ UNCHANGED <<rows, client, claims, faults, stops>>

-----------------------------------------------------------------------------
(* One delivery. *)

\* dead(): onDead first when there is one.
Dead(f) == IF HasOnDead THEN [f EXCEPT !.st = "onDead"] ELSE Sent(f, "kill")

\* Wrong form: the attempt under way is taken for the one that lapsed.
LapseUsedUp_OffByOne(f) == f.lapsed /\ (f.attempt - 2 >= Budget \/ ~LapseRetryable)

LapseUsedUp(f) == f.lapsed /\ (f.attempt - 1 >= Budget \/ ~LapseRetryable)

\* Wrong form: the dying mark is not looked at.
Process_IgnoresDying(f) ==
  /\ f.st = "begin"
  /\ flights' = With(f, IF f.id \in Unreadable \/ LapseUsedUp(f)
                          THEN Dead(f) ELSE [f EXCEPT !.st = "handler"])
  /\ UNCHANGED <<rows, worker, client, claims, faults, stops>>

\* process(): what happens before the handler is called.
Process(f) ==
  /\ f.st = "begin"
  /\ flights' = With(f, IF f.dying \/ f.id \in Unreadable \/ LapseUsedUp(f)
                          THEN Dead(f) ELSE [f EXCEPT !.st = "handler"])
  /\ UNCHANGED <<rows, worker, client, claims, faults, stops>>

\* The handler returned, failed retryably (a timeout too) or failed for good.
HandlerReturns(f, result) ==
  /\ f.st = "handler"
  /\ flights' = With(f,
       IF f.ending # "none" THEN [f EXCEPT !.st = "done"]
       ELSE IF result = "ok" THEN Sent(f, "complete")
       ELSE IF result = "final" \/ f.attempt >= Budget THEN Dead(f)
       ELSE Sent(f, "release"))
  /\ UNCHANGED <<rows, worker, client, claims, faults, stops>>

\* onDead returned, or failed: then the message is released marked as dying.
OnDeadReturns(f, ok) ==
  /\ f.st = "onDead"
  /\ flights' = With(f, IF f.ending # "none" THEN [f EXCEPT !.st = "done"]
                        ELSE Sent(f, IF ok THEN "kill" ELSE "mark"))
  /\ UNCHANGED <<rows, worker, client, claims, faults, stops>>

\* What a settling call writes; a backoff is a visibility time ahead, or none.
Written(f, row) ==
  CASE f.st = "complete" -> {Settle(row, "completed")}
    [] f.st = "kill"     -> {Settle(row, IF row.cancel THEN "cancelled" ELSE "dead")}
    [] f.st = "release"  -> {Release(row, FALSE, FALSE, st) : st \in {"pending", "scheduled"}}
    [] f.st = "mark"     -> {Release(row, FALSE, TRUE, st) : st \in {"pending", "scheduled"}}
    [] f.st = "unrun"    -> {Release(row, TRUE, FALSE, "pending")}

\* The store executes the call; a claim no longer held changes nothing.
SettleExec(f) ==
  /\ f.st \in Calling
  /\ IF HeldBy(f) THEN \E row \in Written(f, rows[f.id]) : rows' = [rows EXCEPT ![f.id] = row]
     ELSE UNCHANGED rows
  /\ flights' = With(f, [f EXCEPT !.st = "done"])
  /\ UNCHANGED <<worker, client, claims, faults, stops>>

SettleFails(f) ==
  /\ f.st \in Calling /\ Fault
  /\ flights' = With(f, [f EXCEPT !.st = "done"])
  /\ UNCHANGED <<rows, worker, client, claims, stops>>

-----------------------------------------------------------------------------
(* The lease. *)

GiveUp(f) ==
  /\ GiveUpDue(f)
  /\ flights' = With(f, Ended(f, "lost"))
  /\ UNCHANGED <<rows, worker, client, claims, faults, stops>>

RenewSend(f) ==
  /\ f.st \notin {"coming", "unrun", "done"} /\ f.renew = "none"
  /\ f.ending = "none" /\ f.back = "no" /\ f.held > Margin
  /\ flights' = With(f, [f EXCEPT !.renew = "sent", !.fresh = Lease])
  /\ UNCHANGED <<rows, worker, client, claims, faults, stops>>

\* renew: a requested cancel settles the message, else the lease is extended.
RenewExec(f) ==
  /\ f.renew = "sent"
  /\ LET outcome == IF ~HeldBy(f) THEN "lost"
                    ELSE IF rows[f.id].cancel THEN "cancelled" ELSE "held"
     IN  /\ rows' = [rows EXCEPT ![f.id] =
                       IF outcome = "lost" THEN @
                       ELSE IF outcome = "cancelled" THEN Settle(@, "cancelled")
                       ELSE [@ EXCEPT !.lease = Lease]]
         /\ flights' = With(f, [f EXCEPT !.renew = outcome])
  /\ UNCHANGED <<worker, client, claims, faults, stops>>

\* The answer arrives.
RenewAnswer(f) ==
  /\ f.renew \in {"held", "lost", "cancelled"}
  /\ LET g == [f EXCEPT !.renew = "none", !.fresh = 0]
     IN  flights' = With(f, IF f.renew = "held" THEN [g EXCEPT !.held = f.fresh]
                            ELSE Ended(g, f.renew))
  /\ UNCHANGED <<rows, worker, client, claims, faults, stops>>

\* The renewal failed, was refused its bound, or its answer was lost.
RenewFails(f) ==
  /\ f.renew # "none"
  /\ flights' = With(f, [f EXCEPT !.renew = "none", !.fresh = 0])
  /\ UNCHANGED <<rows, worker, client, claims, faults, stops>>

-----------------------------------------------------------------------------
(* Shutdown, crash, restart. *)

StopBegin(w) ==
  /\ worker[w].phase = "run" /\ stops < MaxStops /\ stops' = stops + 1
  /\ worker' = [worker EXCEPT ![w].phase = "stopping"]
  /\ UNCHANGED <<rows, flights, client, claims, faults>>

\* Wrong form: handed back without telling the handler to stop.
HandBack_Uncancelled(f) == [f EXCEPT !.back = IF f.ending = "none" THEN "sent" ELSE "done"]

\* shutdownGrace is over: what is left is cancelled and handed back.
HandBack(f) ==
  [Ended(f, "shutdown") EXCEPT !.back = IF f.ending = "none" THEN "sent" ELSE "done"]
GraceOver(w) ==
  /\ worker[w].phase = "stopping" /\ LoopOver(w) /\ InFlight(w) # {}
  /\ flights' = (flights \ InFlight(w)) \cup {HandBack(f) : f \in InFlight(w)}
  /\ worker' = [worker EXCEPT ![w].phase = "handing"]
  /\ UNCHANGED <<rows, client, claims, faults, stops>>

HandBackExec(f) ==
  /\ f.back = "sent"
  /\ rows' = [rows EXCEPT ![f.id] = IF HeldBy(f) THEN Release(@, TRUE, FALSE, "pending") ELSE @]
  /\ flights' = With(f, [f EXCEPT !.back = "done"])
  /\ UNCHANGED <<worker, client, claims, faults, stops>>

HandBackFails(f) ==
  /\ f.back = "sent" /\ Fault
  /\ flights' = With(f, [f EXCEPT !.back = "done"])
  /\ UNCHANGED <<rows, worker, client, claims, stops>>

\* Everything finished in time, or was handed back: stop() returns, a handler that
\* ignores its cancellation notwithstanding.
Stopped(w) ==
  /\ \/ worker[w].phase = "stopping" /\ LoopOver(w) /\ InFlight(w) = {}
     \/ worker[w].phase = "handing" /\ \A f \in flights : f.w = w => f.back # "sent"
  /\ worker' = [worker EXCEPT ![w].phase = "stopped"]
  /\ UNCHANGED <<rows, flights, client, claims, faults, stops>>

\* The process is gone, and with it whatever its worker was doing.
Vanish(w, phase) ==
  /\ flights' = {f \in flights : f.w # w}
  /\ worker' = [worker EXCEPT ![w] = Idle(phase)]

Crash(w) ==
  /\ worker[w].phase # "stopped" /\ Fault /\ Vanish(w, "stopped")
  /\ UNCHANGED <<rows, client, claims, stops>>

Restart(w) ==
  /\ worker[w].phase = "stopped" /\ Vanish(w, "run")
  /\ UNCHANGED <<rows, client, claims, faults, stops>>

-----------------------------------------------------------------------------
(* Addressing a message. *)

\* Wrong form: settles the message whatever its state.
CancelSettle_AnyState(i) ==
  /\ "cancel" \in Ops /\ client = NoCancel
  /\ rows[i].st # "none"
  /\ rows' = [rows EXCEPT ![i] = Settle(@, "cancelled")]
  /\ UNCHANGED <<flights, worker, client, claims, faults, stops>>

\* cancel, first statement: settle what nobody works on.
CancelSettle(i) ==
  /\ "cancel" \in Ops /\ client = NoCancel
  /\ IF rows[i].st \in {"scheduled", "pending", "dead"} \/ Lapsed(rows[i])
       THEN /\ rows' = [rows EXCEPT ![i] = Settle(@, "cancelled")]
            /\ client' = NoCancel
       ELSE /\ client' = [pc |-> "request", id |-> i, found |-> rows[i].st]
            /\ UNCHANGED rows
  /\ UNCHANGED <<flights, worker, claims, faults, stops>>

\* Second statement: mark a running message.
CancelRequest ==
  /\ client.pc = "request"
  /\ IF rows[client.id].st = "running"
       THEN /\ rows' = [rows EXCEPT ![client.id].cancel = TRUE]
            /\ client' = NoCancel
       ELSE /\ client' = [client EXCEPT !.pc = "read"]
            /\ UNCHANGED rows
  /\ UNCHANGED <<flights, worker, claims, faults, stops>>

\* Third: read the state the answer `unchanged` carries.
CancelRead ==
  /\ client.pc = "read"
  /\ client' = NoCancel
  /\ UNCHANGED <<rows, flights, worker, claims, faults, stops>>

Requeue(i) ==
  /\ "requeue" \in Ops /\ rows[i].st = "dead"
  /\ rows' = [rows EXCEPT ![i] = [@ EXCEPT !.st = "pending", !.attempts = 0, !.dying = FALSE]]
  /\ UNCHANGED <<flights, worker, client, claims, faults, stops>>

-----------------------------------------------------------------------------

\* What the program does by itself, given time and a store that answers.
WorkerStep(w) == Ask(w) \/ ClaimOnce(w) \/ Receive(w) \/ GraceOver(w) \/ Stopped(w) \/ Restart(w)
FlightStep(f) ==
  \/ Process(f) \/ SettleExec(f) \/ GiveUp(f) \/ HandBackExec(f)
  \/ \E result \in {"ok", "fail", "final"} : HandlerReturns(f, result)
  \/ \E ok \in BOOLEAN : OnDeadReturns(f, ok)
Renewal(f) == RenewSend(f) \/ RenewExec(f) \/ RenewAnswer(f) \/ RenewFails(f)

Next ==
  \/ Tick \/ CancelRequest \/ CancelRead
  \/ \E i \in Ids : Enqueue(i) \/ Visible(i) \/ Expire(i) \/ CancelSettle(i) \/ Requeue(i)
  \/ \E w \in Workers : WorkerStep(w) \/ ClaimFails(w) \/ StopBegin(w) \/ Crash(w)
  \/ \E f \in flights : FlightStep(f) \/ Renewal(f) \/ SettleFails(f) \/ HandBackFails(f)

Spec == Init /\ [][Next]_vars

\* Time passes, messages become visible, the loops keep claiming, handlers return
\* (they are cancelled at their timeout), calls to the store are executed.
Fairness ==
  /\ WF_vars(Tick)
  /\ \A i \in Ids : WF_vars(Visible(i))
  /\ \A w \in Workers : WF_vars(WorkerStep(w))
  /\ \A w \in Workers : WF_vars(\E f \in flights : f.w = w /\ FlightStep(f))

FairSpec == Spec /\ Fairness

-----------------------------------------------------------------------------
(* Properties. *)

\* A handler nobody told to stop.
Active(f) == f.st \in Running /\ f.ending = "none"

\* Every row, flight and loop has its shape; an attempt given back was counted.
TypeOK ==
  /\ rows \in [Ids -> [st: RowStates, lease: 0..Lease, token: Tokens \cup {NoToken},
                       attempts: Nat, dying: BOOLEAN, cancel: BOOLEAN]]
  /\ flights \subseteq FlightType
  /\ worker \in [Workers -> [phase: {"run", "stopping", "handing", "stopped"},
                             pc: {"free", "asked", "answered"}, age: 0..MaxClaimWait,
                             room: 0..Concurrency]]
  /\ client \in [pc: {"request", "read"}, id: Ids, found: RowStates] \cup {NoCancel}
  /\ claims \in 0..MaxClaims /\ faults \in 0..MaxFaults /\ stops \in 0..MaxStops
  /\ \A i \in Ids : rows[i].st = "running" => rows[i].attempts > 0 /\ rows[i].token # NoToken

\* One consumer at a time (renewLease): with timers that fire when due, claims
\* answered within a third of the lease and a retention that outlasts it, a handler
\* that was not told to stop runs under its own unexpired claim, whose lease the store
\* grants at least as long as the worker reckons, unless a renewal settled its message
\* as cancelled and the answer is on its way or was lost.
LeaseCoversHandler ==
  \A f \in flights :
    Active(f) => \/ HeldBy(f) /\ rows[f.id].lease > 0 /\ rows[f.id].lease >= f.held
                 \/ rows[f.id].st = "cancelled"

\* Two handlers of one message never run side by side, neither told to stop.
SoleDelivery ==
  \A f, g \in flights : Active(f) /\ Active(g) /\ f.id = g.id => f = g

\* A message is completed only through the claim that holds it, whose handler
\* returned: a delivery that lost its lease, or the handler of an earlier message of
\* the same id, completes nothing.
CompletedByHolder ==
  [][\A i \in Ids : rows[i].st # "completed" /\ rows'[i].st = "completed" =>
       \E f \in flights : f.id = i /\ f.token = rows[i].token /\ f.st = "complete"]_vars

\* A settled message stays settled: only retention removes a completed or cancelled
\* one, and only Requeue, with its attempts reset, or Cancel takes a dead one.
SettledIsFinal ==
  [][\A i \in Ids :
       /\ rows[i].st \in {"completed", "cancelled"} => rows'[i].st \in {rows[i].st, "none"}
       /\ rows[i].st = "dead" =>
            \/ rows'[i].st \in {"dead", "cancelled"}
            \/ rows'[i].st = "pending" /\ rows'[i].attempts = 0]_vars

\* A message whose cancel was requested is never offered to a handler again,
\* whichever of a renewal, a failure, a hand-back or a lapse comes next.
CancelSticks ==
  [][\A i \in Ids : rows[i].cancel /\ rows[i].st = "running" =>
       \/ rows'[i].st = "running" /\ rows'[i].cancel /\ rows'[i].token = rows[i].token
       \/ rows'[i].st \in {"completed", "cancelled"}]_vars

\* The handler is called at most `Budget` times counting lapsed claims, and never for a
\* message whose dead-letter handler failed: as long as it carries the mark each of its
\* claims goes to onDead, however often they lapse.  Holds when no worker shuts down.
HandlerIsDue ==
  stops = 0 => \A f \in flights : f.st = "handler" =>
    /\ f.attempt <= Budget
    /\ HeldBy(f) => ~rows[f.id].dying

\* Once stop() returned, whatever handler still runs in the worker was told to stop:
\* the resources it uses are about to be torn down.
StopCancels ==
  \A f \in flights : worker[f.w].phase = "stopped" => ~Active(f)

\* A worker never has more messages than its concurrency, those still on their way
\* from the store included.
ConcurrencyBound ==
  \A w \in Workers : Cardinality(InFlight(w) \cup Answered(w)) <= Concurrency

\* Every message is eventually settled, across one crash, failed call or shutdown.
EventuallySettled ==
  \A i \in Ids : (rows[i].st # "none") ~> (rows[i].st \in Settled)

-----------------------------------------------------------------------------
(* Statements of the documentation that the code does not keep; the README    *)
(* names the instances that refute them.                                      *)

\* delivery.md: a lapse that used up the budget is settled without the handler being
\* run again, whatever shuts down in between.
WithinBudget == \A f \in flights : f.st = "handler" => f.attempt <= Budget

\* delivery.md: a failed onDead leaves the message marked as dying, its next claim goes
\* straight to onDead again; store-contract.md: a complete, a kill, a requeue or a
\* cancel clears the mark.
DyingStays ==
  [][\A i \in Ids : rows[i].dying /\ ~rows'[i].dying =>
       rows'[i].st \in Settled \cup {"none"} \/ rows[i].st = "dead"]_vars

\* queue-store-contract.ts: cancel answers `unchanged` for a completed or an already
\* cancelled message, so a message it found running is not answered so while it is
\* still to be delivered.
UnchangedMeansSettled ==
  [][client.pc = "read" /\ client' = NoCancel /\ client.found = "running" =>
       rows[client.id].st \in {"completed", "cancelled", "none"}]_vars
=============================================================================
