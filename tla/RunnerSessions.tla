---------------------------- MODULE RunnerSessions ----------------------------
(***************************************************************************)
(* SessionLifecycle: the sessions of a runner.  The store has each one's   *)
(* record, the registry its live entry, the backend its workload.  Writes  *)
(* of one session's record go through a queue of their own; an operation   *)
(* keeps its session busy; a workload fails whenever it likes, and the     *)
(* runner may end and boot again over what it left.                        *)
(*                                                                         *)
(* A step is the code between two awaits.  The backend is external: a      *)
(* workload is named by the epoch its callbacks carry.                     *)
(***************************************************************************)
EXTENDS Naturals, Sequences, FiniteSets

CONSTANTS
  Hosted,        \* session ids
  MaxSessions,   \* maxSessions: the ceiling
  MaxEpochs,     \* bound on the epochs an operation begins in
  MaxQueued,     \* bound on the queue a run's record write joins
  MaxFailures,   \* bound on workloads failing and backend calls refused
  MaxLostWrites, \* bound on record writes that fail after every retry
  MaxRestarts    \* bound on the runner ending

VARIABLES
  record,    \* record[s]: the status in the store, or "none"
  entry,     \* entry[s]: the live entry; `busy` also says where the operation is
  about,     \* about[s]: the epoch of the workload the operation works on
  outbox,    \* outbox[s]: the queue of record writes
  removing,  \* removing[s]: the workloads a fail() is removing
  pods,      \* pods[s]: the workloads the backend runs
  reserved,  \* the creates admitted and not yet registered
  stray,     \* history: how a workload got out of its session's hands
  wear       \* failures, lost writes and restarts so far

sessionVars == <<record, entry, about, outbox, removing, pods, reserved, stray, wear>>

Strays == {"refused", "rebuilt", "adopted", "undeleted", "outrun"}

Statuses == {"starting", "running", "suspended", "failed"}
Registered(s) == entry[s].status \in Statuses

\* Where the awaits of the operations are.  "settling": the write that ends it.
Busy == {"idle", "suspending", "resuming", "creating", "up", "discarding", "recording",
         "changing", "rebuilding", "destroyRemove", "destroy", "forget", "drain",
         "settling", "adopting", "unadopted", "sweeping"}

\* boot() is awaited before the runner listens.
Listening == \A s \in Hosted : entry[s].busy \notin {"adopting", "unadopted", "sweeping"}

SessionsInit ==
  /\ record = [s \in Hosted |-> "none"]
  /\ entry = [s \in Hosted |-> [status |-> "new", busy |-> "idle", workload |-> 0, epoch |-> 0]]
  /\ about = [s \in Hosted |-> 0]
  /\ outbox = [s \in Hosted |-> <<>>]
  /\ removing = [s \in Hosted |-> {}]
  /\ pods = [s \in Hosted |-> {}]
  /\ reserved = {}
  /\ stray = [s \in Hosted |-> {}]
  /\ wear = [failures |-> 0, writes |-> 0, restarts |-> 0]

Wears(what, max) == wear[what] < max /\ wear' = [wear EXCEPT ![what] = @ + 1]

\* A write: the status ("same" leaves it), and who goes on when it is done: the "op",
\* "none", or "late" for the write storeFailed makes, which shows nothing.  `removes` is
\* the workload storeFailed is removing.
WriteOf(status, by) == [status |-> status, by |-> by, removes |-> 0]
Queued(s, status, by) == Append(outbox[s], WriteOf(status, by))
Enqueue(s, status, by) == outbox' = [outbox EXCEPT ![s] = Queued(s, status, by)]

\* dropWorkload, leaving the operation at `busy`.
Dropped(s, busy) ==
  [entry EXCEPT ![s].workload = 0, ![s].epoch = @ + 1, ![s].busy = busy]
Goto(s, busy) == entry' = [entry EXCEPT ![s].busy = busy]
At(s, busy) == entry[s].busy = busy

\* The backend removes a workload, or refuses to.
Remove(s, w) ==
  \/ pods' = [pods EXCEPT ![s] = @ \ {w}] /\ UNCHANGED <<stray, wear>>
  \/ /\ Wears("failures", MaxFailures) /\ w \in pods[s]
     /\ stray' = [stray EXCEPT ![s] = @ \cup {"refused"}] /\ UNCHANGED pods

-----------------------------------------------------------------------------
(* Creating and resuming. *)

Admits ==
  Cardinality({s \in Hosted : entry[s].status \in {"starting", "running"}})
    + Cardinality(reserved) < MaxSessions

\* Mutant: a session that is failing may be resumed before its creation settled.
Idle_Eager(s) ==
  /\ Listening /\ Registered(s)
  /\ At(s, "idle") \/ entry[s].status = "failed"
  /\ entry[s].epoch <= MaxEpochs

\* requireIdleTransition.
Idle(s) ==
  /\ Listening /\ Registered(s)
  /\ At(s, "idle")
  /\ entry[s].epoch <= MaxEpochs

\* startWorkload: backend.create is called, nobody waits for it.
Started(s) == [entry EXCEPT ![s].busy = "creating", ![s].epoch = @ + 1]

AskCreate(s) ==
  /\ Listening /\ entry[s].status = "new" /\ s \notin reserved
  /\ Admits
  /\ reserved' = reserved \cup {s}
  /\ UNCHANGED <<record, entry, about, outbox, removing, pods, stray, wear>>

\* The store has the record, or refused it.
Register(s) ==
  /\ s \in reserved
  /\ reserved' = reserved \ {s}
  /\ \/ /\ record' = [record EXCEPT ![s] = "starting"]
        /\ entry' = [Started(s) EXCEPT ![s].status = "starting"]
        /\ about' = [about EXCEPT ![s] = entry[s].epoch + 1]
     \/ UNCHANGED <<record, entry, about>>
  /\ UNCHANGED <<outbox, removing, pods, stray, wear>>

AskResume(s) ==
  /\ Idle(s) /\ entry[s].status \in {"suspended", "failed"}
  /\ Admits
  /\ Goto(s, "resuming")
  /\ Enqueue(s, "starting", "op")
  /\ stray' = [stray EXCEPT ![s] = IF removing[s] = {} THEN @ ELSE @ \cup {"outrun"}]
  /\ UNCHANGED <<record, about, removing, pods, reserved, wear>>

\* backend.create: the workload is up, and not yet reported.
ComesUp(s) ==
  /\ At(s, "creating")
  /\ pods' = [pods EXCEPT ![s] = @ \cup {about[s]}]
  /\ Goto(s, "up")
  /\ UNCHANGED <<record, about, outbox, removing, reserved, stray, wear>>

\* Mutant: a creation that was given up on is taken all the same.
Resolves_Unchecked(s) ==
  /\ At(s, "up")
  /\ entry' = [entry EXCEPT ![s].workload = about[s], ![s].busy = "idle"]
  /\ Enqueue(s, "running", "none")
  /\ UNCHANGED <<record, about, removing, pods, reserved, stray, wear>>

\* It reports `running` and resolves; given up on meanwhile, it is removed again.
Resolves(s) ==
  /\ At(s, "up")
  /\ IF entry[s].epoch = about[s]
       THEN /\ entry' = [entry EXCEPT ![s].workload = about[s], ![s].busy = "idle"]
            /\ Enqueue(s, "running", "none")
       ELSE Goto(s, "discarding") /\ UNCHANGED outbox
  /\ UNCHANGED <<record, about, removing, pods, reserved, stray, wear>>

Discards(s) ==
  /\ At(s, "discarding")
  /\ Remove(s, about[s])
  /\ Goto(s, "idle")
  /\ UNCHANGED <<record, about, outbox, removing, reserved>>

-----------------------------------------------------------------------------
(* Failing. *)

\* fail() in the epoch it was called for: the workload there is is removed first, then
\* the failure is written; `busy` is where the operation it is called from goes on.
Fail(s, by, busy) ==
  LET w == entry[s].workload IN
  /\ entry' = Dropped(s, busy)
  /\ IF w = 0
       THEN Enqueue(s, "failed", by) /\ UNCHANGED removing
       ELSE removing' = [removing EXCEPT ![s] = @ \cup {[w |-> w, by |-> by]}] /\ UNCHANGED outbox

Removed(s) == \E x \in removing[s] :
  /\ Remove(s, x.w)
  /\ removing' = [removing EXCEPT ![s] = @ \ {x}]
  /\ Enqueue(s, "failed", x.by)
  /\ UNCHANGED <<record, entry, about, reserved>>

\* The creation fails, and the backend leaves nothing of it.
CreationFails(s) ==
  /\ At(s, "creating") /\ Wears("failures", MaxFailures)
  /\ IF entry[s].epoch = about[s]
       THEN Fail(s, "op", "settling")
       ELSE Goto(s, "idle") /\ UNCHANGED <<outbox, removing>>
  /\ UNCHANGED <<record, about, pods, reserved, stray>>

\* A workload reports its failure; a replaced one is not heard.
WorkloadFails(s) ==
  /\ Registered(s) /\ entry[s].epoch \in pods[s]
  /\ Wears("failures", MaxFailures)
  /\ Fail(s, "none", entry[s].busy)
  /\ UNCHANGED <<record, about, pods, reserved, stray>>

-----------------------------------------------------------------------------
(* Suspending, deleting, changing, running. *)

\* By a client, or by tick(): idle too long, or running too long.
AskSuspend(s) ==
  /\ Idle(s) /\ entry[s].status = "running" /\ entry[s].workload # 0
  /\ Goto(s, "suspending")
  /\ about' = [about EXCEPT ![s] = entry[s].workload]
  /\ UNCHANGED <<record, outbox, removing, pods, reserved, stray, wear>>

Suspends(s) ==
  /\ At(s, "suspending")
  /\ \/ /\ pods' = [pods EXCEPT ![s] = @ \ {about[s]}]
        /\ entry' = Dropped(s, "settling")
        /\ Enqueue(s, "suspended", "op")
        /\ UNCHANGED wear
     \/ /\ Wears("failures", MaxFailures)
        /\ Goto(s, "idle")
        /\ UNCHANGED <<pods, outbox>>
  /\ UNCHANGED <<record, about, removing, reserved, stray>>

\* By a client, or by tick() past the retention.
AskDelete(s) ==
  /\ Idle(s)
  /\ Goto(s, IF entry[s].workload = 0 THEN "destroy" ELSE "destroyRemove")
  /\ about' = [about EXCEPT ![s] = entry[s].workload]
  /\ UNCHANGED <<record, outbox, removing, pods, reserved, stray, wear>>

DeleteRemoves(s) ==
  /\ At(s, "destroyRemove")
  /\ pods' = [pods EXCEPT ![s] = @ \ {about[s]}]
  /\ entry' = Dropped(s, "destroy")
  /\ UNCHANGED <<record, about, outbox, removing, reserved, stray, wear>>

Destroys(s) ==
  /\ At(s, "destroy")
  /\ pods' = [pods EXCEPT ![s] = {}]
  /\ Goto(s, "forget")
  /\ UNCHANGED <<record, about, outbox, removing, reserved, stray, wear>>

Forgets(s) ==
  /\ At(s, "forget")
  /\ record' = [record EXCEPT ![s] = "none"]
  /\ Goto(s, "drain")
  /\ UNCHANGED <<about, outbox, removing, pods, reserved, stray, wear>>

Drained(s) ==
  /\ At(s, "drain") /\ outbox[s] = <<>>
  /\ entry' = [entry EXCEPT ![s].status = "gone", ![s].busy = "idle"]
  /\ UNCHANGED <<record, about, outbox, removing, pods, reserved, stray, wear>>

\* A step of delete() is refused: what was done stays done.
DeleteFails(s) ==
  /\ entry[s].busy \in {"destroyRemove", "destroy", "forget"}
  /\ Wears("failures", MaxFailures)
  /\ Goto(s, "idle")
  /\ stray' = [stray EXCEPT ![s] = IF At(s, "destroyRemove") THEN @ ELSE @ \cup {"undeleted"}]
  /\ UNCHANGED <<record, about, outbox, removing, pods, reserved>>

\* setAgent, and setApps where it recreates: the record first, then the workload.
AskChange(s) ==
  /\ Idle(s) /\ entry[s].status # "starting"
  /\ Goto(s, "recording")
  /\ Enqueue(s, "same", "op")
  /\ UNCHANGED <<record, about, removing, pods, reserved, stray, wear>>

ChangeTearsDown(s) ==
  /\ At(s, "changing")
  /\ pods' = [pods EXCEPT ![s] = @ \ {about[s]}]
  /\ Goto(s, "rebuilding")
  /\ UNCHANGED <<record, about, outbox, removing, reserved, stray, wear>>

\* The workload is back and says so, to the session or to nobody.
ChangeRebuilds(s) ==
  /\ At(s, "rebuilding")
  /\ pods' = [pods EXCEPT ![s] = @ \cup {about[s]}]
  /\ Goto(s, "idle")
  /\ IF entry[s].epoch = about[s]
       THEN Enqueue(s, "running", "none") /\ UNCHANGED stray
       ELSE stray' = [stray EXCEPT ![s] = @ \cup {"rebuilt"}] /\ UNCHANGED outbox
  /\ UNCHANGED <<record, about, removing, reserved, wear>>

ChangeFails(s) ==
  /\ entry[s].busy \in {"changing", "rebuilding"} /\ Wears("failures", MaxFailures)
  /\ Fail(s, "op", "settling")
  /\ UNCHANGED <<record, about, pods, reserved, stray>>

\* run(): whether or not the session is busy, and the record is written after it.
RunRecords(s) ==
  /\ Listening /\ entry[s].status = "running" /\ entry[s].workload # 0
  /\ Len(outbox[s]) < MaxQueued
  /\ Enqueue(s, "same", "none")
  /\ UNCHANGED <<record, entry, about, removing, pods, reserved, stray, wear>>

-----------------------------------------------------------------------------
(* The queue of record writes. *)

Shown(s, status) ==
  IF Registered(s) /\ status # "same" THEN [entry EXCEPT ![s].status = status] ELSE entry

\* What the operation whose write is done does next.
Continued(s, e) ==
  CASE e[s].busy = "resuming" -> [e EXCEPT ![s].busy = "creating", ![s].epoch = @ + 1]
    [] e[s].busy = "recording" /\ e[s].workload # 0 -> [e EXCEPT ![s].busy = "changing"]
    [] e[s].busy = "unadopted" -> [e EXCEPT ![s].busy = "sweeping"]
    [] OTHER -> [e EXCEPT ![s].busy = "idle"]

\* Mutant: the status is shown before the store has it, and whatever becomes of the write.
Writes_Unstored(s) ==
  LET j == Head(outbox[s])
      e == IF j.by = "late" THEN entry ELSE Shown(s, j.status)
  IN
  /\ outbox[s] # <<>> /\ j.removes = 0
  /\ entry' = IF j.by = "op" THEN Continued(s, e) ELSE e
  /\ about' = IF j.by = "op" /\ At(s, "resuming") THEN [about EXCEPT ![s] = entry[s].epoch + 1]
              ELSE IF j.by = "op" /\ At(s, "recording") THEN [about EXCEPT ![s] = entry[s].workload]
              ELSE about
  /\ outbox' = [outbox EXCEPT ![s] = Tail(@)]
  /\ UNCHANGED <<record, removing, pods, reserved, stray, wear>>

\* commitStatus and commitRecord: the store first, then the entry and the stream.
Writes(s) ==
  LET j == Head(outbox[s])
      e == IF j.by = "late" THEN entry ELSE Shown(s, j.status)
  IN
  /\ outbox[s] # <<>> /\ j.removes = 0
  /\ record' = IF record[s] = "none" \/ j.status = "same" THEN record
               ELSE [record EXCEPT ![s] = j.status]
  /\ entry' = IF j.by = "op" THEN Continued(s, e) ELSE e
  /\ about' = IF j.by = "op" /\ At(s, "resuming") THEN [about EXCEPT ![s] = entry[s].epoch + 1]
              ELSE IF j.by = "op" /\ At(s, "recording") THEN [about EXCEPT ![s] = entry[s].workload]
              ELSE about
  /\ outbox' = [outbox EXCEPT ![s] = Tail(@)]
  /\ UNCHANGED <<removing, pods, reserved, stray, wear>>

\* The end of storeFailed: the failure is shown, its write queued, the operation told.
Gives(s, e) ==
  /\ entry' = [e EXCEPT ![s].status = IF Registered(s) THEN "failed" ELSE @,
                        ![s].busy = IF Head(outbox[s]).by # "op" THEN @
                                    ELSE IF @ = "unadopted" THEN "sweeping" ELSE "idle"]
  /\ outbox' = [outbox EXCEPT ![s] = Append(Tail(@), WriteOf("failed", "late"))]

\* A write failed after every retry: storeFailed drops the workload and removes it.  With
\* none in hand it shows the failure at once, though a fail() may still be removing one.
GivesUp(s) ==
  LET j == Head(outbox[s])
      w == entry[s].workload
  IN
  /\ outbox[s] # <<>> /\ j.removes = 0 /\ Registered(s)
  /\ Wears("writes", MaxLostWrites)
  /\ CASE j.by = "late" -> outbox' = [outbox EXCEPT ![s] = Tail(@)] /\ UNCHANGED entry
       [] j.by # "late" /\ w = 0 -> Gives(s, Dropped(s, entry[s].busy))
       [] j.by # "late" /\ w # 0 -> /\ entry' = Dropped(s, entry[s].busy)
                                    /\ outbox' = [outbox EXCEPT ![s][1].removes = w]
  /\ UNCHANGED <<record, about, removing, pods, reserved, stray>>

GaveUp(s) ==
  /\ outbox[s] # <<>> /\ Head(outbox[s]).removes # 0
  /\ Remove(s, Head(outbox[s]).removes)
  /\ Gives(s, entry)
  /\ UNCHANGED <<record, about, removing, reserved>>

-----------------------------------------------------------------------------
(* The runner ends and boots again: every session stored as live is adopted or     *)
(* suspended, then the orphan sweep removes the workloads of all that are not live. *)

WasLive(s) == record[s] \in {"starting", "running"}

Restart ==
  /\ Wears("restarts", MaxRestarts)
  /\ entry' = [s \in Hosted |->
       [status |-> IF record[s] # "none" THEN IF WasLive(s) THEN "starting" ELSE record[s]
                   ELSE IF entry[s].status = "new" THEN "new" ELSE "gone",
        busy |-> IF WasLive(s) THEN "adopting" ELSE "sweeping",
        workload |-> 0, epoch |-> entry[s].epoch + 1]]
  /\ about' = [s \in Hosted |-> entry[s].epoch + 1]
  /\ pods' = [s \in Hosted |->
       IF WasLive(s) /\ Cardinality(pods[s]) = 1 THEN {entry[s].epoch + 1} ELSE pods[s]]
  /\ outbox' = [s \in Hosted |-> <<>>]
  /\ removing' = [s \in Hosted |-> {}]
  /\ reserved' = {}
  /\ UNCHANGED <<record, stray>>

\* The workload is taken over and its `running` handed on, to the entry of then.
Adopts(s) ==
  /\ At(s, "adopting") /\ pods[s] = {about[s]}
  /\ entry' = [entry EXCEPT ![s].workload = about[s], ![s].busy = "idle"]
  /\ IF entry[s].epoch = about[s]
       THEN Enqueue(s, "running", "none") /\ UNCHANGED stray
       ELSE stray' = [stray EXCEPT ![s] = @ \cup {"adopted"}] /\ UNCHANGED outbox
  /\ UNCHANGED <<record, about, removing, pods, reserved, wear>>

\* It is gone, or not one to take over and removed.
FindsNone(s) ==
  /\ At(s, "adopting")
  /\ pods' = [pods EXCEPT ![s] = {}]
  /\ Goto(s, "unadopted")
  /\ Enqueue(s, "suspended", "op")
  /\ UNCHANGED <<record, about, removing, reserved, stray, wear>>

AdoptionFails(s) ==
  /\ At(s, "adopting") /\ Wears("failures", MaxFailures)
  /\ IF entry[s].epoch = about[s]
       THEN Fail(s, "op", "unadopted")
       ELSE Goto(s, "sweeping") /\ UNCHANGED <<outbox, removing>>
  /\ UNCHANGED <<record, about, pods, reserved, stray>>

\* reapOrphans, once every adoption has been tried.
Sweeps ==
  /\ \E s \in Hosted : At(s, "sweeping")
  /\ \A s \in Hosted : entry[s].busy \notin {"adopting", "unadopted"}
  /\ pods' = [s \in Hosted |-> IF At(s, "sweeping") THEN {} ELSE pods[s]]
  /\ stray' = [s \in Hosted |-> IF At(s, "sweeping") THEN {} ELSE stray[s]]
  /\ entry' = [s \in Hosted |->
       IF At(s, "sweeping") THEN [entry[s] EXCEPT !.busy = "idle"] ELSE entry[s]]
  /\ UNCHANGED <<record, about, outbox, removing, reserved, wear>>

-----------------------------------------------------------------------------

SessionStep(s) ==
  \/ AskCreate(s) \/ Register(s) \/ AskResume(s) \/ ComesUp(s) \/ Resolves(s) \/ Discards(s)
  \/ Removed(s) \/ CreationFails(s) \/ WorkloadFails(s)
  \/ AskSuspend(s) \/ Suspends(s)
  \/ AskDelete(s) \/ DeleteRemoves(s) \/ Destroys(s) \/ Forgets(s) \/ Drained(s)
  \/ DeleteFails(s)
  \/ AskChange(s) \/ ChangeTearsDown(s) \/ ChangeRebuilds(s) \/ ChangeFails(s)
  \/ RunRecords(s)
  \/ Writes(s) \/ GivesUp(s) \/ GaveUp(s)
  \/ Adopts(s) \/ FindsNone(s) \/ AdoptionFails(s)

SessionsNext == Restart \/ Sweeps \/ \E s \in Hosted : SessionStep(s)

SessionsSpec == SessionsInit /\ [][SessionsNext]_sessionVars

-----------------------------------------------------------------------------
(* Properties. *)

SessionsTypeOK ==
  /\ record \in [Hosted -> Statuses \cup {"none"}]
  /\ entry \in [Hosted -> [status : Statuses \cup {"new", "gone"}, busy : Busy,
                           workload : Nat, epoch : Nat]]
  /\ about \in [Hosted -> Nat]
  /\ outbox \in [Hosted -> Seq([status : Statuses \cup {"same"}, by : {"op", "none", "late"},
                                removes : Nat])]
  /\ removing \in [Hosted -> SUBSET [w : Nat, by : {"op", "none"}]]
  /\ pods \in [Hosted -> SUBSET Nat]
  /\ reserved \subseteq Hosted
  /\ stray \in [Hosted -> SUBSET Strays]

\* Nothing of the session is under way.
Quiet(s) ==
  Registered(s) /\ Listening /\ At(s, "idle") /\ outbox[s] = <<>> /\ removing[s] = {}

\* A session never has two workloads over its one storage, and when it comes to rest
\* the backend runs the workload it holds and no other, whatever failed, was given up
\* on or was restarted in between (session-lifecycle.ts startWorkload, "so two creations
\* never overlap"), unless the backend refused to remove one, one was brought back for
\* a session that had let go of it, or a resume came while a fail() was removing one.
OneWorkload ==
  \A s \in Hosted : stray[s] \subseteq {"undeleted"} =>
    /\ Cardinality(pods[s]) <= 1
    /\ Quiet(s) => pods[s] = {entry[s].workload} \ {0}

\* When a session comes to rest, what it shows is what the store has and what the
\* backend runs (registry.ts, "The live backend workload; null while starting, suspended or
\* failed"), as long as the store takes its writes, no delete stopped halfway, no failed
\* adoption was taken over and no resume came while a fail() was removing a workload.
StatusIsTrue ==
  \A s \in Hosted :
    Quiet(s) /\ wear.writes = 0 /\ {"undeleted", "adopted", "outrun"} \cap stray[s] = {} =>
    /\ record[s] = entry[s].status
    /\ entry[s].status # "starting"
    /\ entry[s].status = "running" <=> entry[s].workload # 0

-----------------------------------------------------------------------------
(* Statements of the source and the documentation that the code does not keep. *)

\* README.md, RUNNER_MAX_SESSIONS: "Most running sessions at once".
UnderCeiling ==
  Cardinality({s \in Hosted : entry[s].status \in {"starting", "running"}}) <= MaxSessions

\* registry.ts: the workload is null while the session is suspended or failed.
FailedHoldsNothing ==
  \A s \in Hosted : entry[s].status \in {"suspended", "failed"} => entry[s].workload = 0

\* session-lifecycle.ts storeFailed: a session whose record cannot be written is failed,
\* its workload removed.
UnwritableIsRemoved ==
  \A s \in Hosted : Quiet(s) /\ "refused" \notin stray[s] => pods[s] \subseteq {entry[s].workload}

\* session-lifecycle.ts fail: what is left of a workload is removed, then the failure is
\* recorded and `resume` rebuilds it, so a new one never meets the old.
OneAtOnce == \A s \in Hosted : "refused" \notin stray[s] => Cardinality(pods[s]) <= 1

\* session-lifecycle.ts: a session that is left running can be suspended, and one that
\* lost its workload resumed.
NeverStuck ==
  \A s \in Hosted : Quiet(s) /\ entry[s].status = "running" => entry[s].workload # 0
===============================================================================
