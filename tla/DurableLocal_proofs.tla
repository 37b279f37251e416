------------------------ MODULE DurableLocal_proofs -------------------------
(*****************************************************************************)
(* The journal invariants of DurableLocal, and what its claims protect, hold *)
(* for every number of runs, slots, clients, steps and faults, and for every *)
(* body.                                                                     *)
(*                                                                           *)
(* None of them is inductive alone.  What the journal holds is only right    *)
(* because of what each slot and each call is about to write: IInv adds that *)
(* (SlotOK, CallOK), who may have written an entry (AuthorsOK), and that a   *)
(* park was reached in order (ParkOK).  What the claim protects rests on who *)
(* holds which row and on what each body has read of it: CInv, below.        *)
(*****************************************************************************)
EXTENDS DurableLocal, TLAPS

\* Decisions are taken by executions, a step is recorded by an execution or a
\* delivery.
AuthorsOK ==
  \A r \in Runs, k \in Steps :
    /\ entries[r][TokenPath(k)] \in Slots \cup {None}
    /\ entries[r][AtPath(k)] \in Slots \cup {None}
    /\ entries[r][OwnPath(k)] \in Author \cup {None}

\* What a slot must have done to be where it is.
SlotOK(x) ==
  /\ exec[x].st \notin {"idle", "sweep"} => exec[x].run \in Runs
  /\ exec[x].st \in InBody =>
       /\ exec[x].at \in 1..(N + 1)
       /\ \A j \in Steps : j < exec[x].at => exec[x].seen[OwnPath(j)] # None
  /\ exec[x].st = "parking" =>
       exec[x].at \in Steps /\ Body[exec[x].at] \in Waits /\ Pinned(x)
  /\ exec[x].st = "record" =>
       /\ exec[x].at \in Steps
       /\ Body[exec[x].at] = "effect" => <<exec[x].run, exec[x].at, x>> \in performed
       /\ exec[x].at \notin Swallowers =>
            /\ Body[exec[x].at] \in {"effect", "sleep"}
            /\ Body[exec[x].at] = "sleep" =>
                 /\ exec[x].seen[AtPath(exec[x].at)] # None
                 /\ Passed(exec[x].run, <<exec[x].at, exec[x].seen[AtPath(exec[x].at)]>>)

\* What a slot has read is what the journal holds.
AgreeOK(x) ==
  \A p \in Path :
    exec[x].seen[p] # None =>
      exec[x].run \in Runs /\ entries[exec[x].run][p] = exec[x].seen[p]

\* Every step before k is recorded.
ReachedOK(r, k) == \A j \in Steps : j < k => entries[r][OwnPath(j)] # None

\* A call that is about to deliver found a run that was parked at an await.
CallOK(c) ==
  /\ client[c].op \in {"deliver", "unpark", "cancel", "override"} => client[c].run \in Runs
  /\ client[c].op = "deliver" =>
       /\ client[c].at \in Steps
       /\ Body[client[c].at] \in {"await", "awaitTimeout"}
       /\ ReachedOK(client[c].run, client[c].at)

\* A run's row agrees with the journal: a parked run was parked by a wait that
\* the body had reached, on its pinned token and deadline; a completed run
\* carries the recorded results.
ParkOK(r) ==
  run[r].status = "parked" =>
    LET k == run[r].parked IN
    /\ k \in Steps
    /\ Body[k] \in Waits
    /\ ReachedOK(r, k)
    /\ run[r].token # None => run[r].token = entries[r][TokenPath(k)]
    /\ run[r].due # None => run[r].due = <<k, entries[r][AtPath(k)]>>
    /\ Body[k] \in Timed <=> run[r].due # None
    /\ Body[k] = "sleep" <=> run[r].token = None

ResultOK(r) ==
  run[r].status = "completed" =>
    \A k \in Steps : /\ run[r].result[k] # None
                    /\ run[r].result[k] = entries[r][OwnPath(k)]

\* A recorded step was performed, or waited for, and reached in order.
EntryOK(r, k) ==
  entries[r][OwnPath(k)] # None =>
    /\ ReachedOK(r, k)
    /\ Body[k] = "effect" => <<r, k, entries[r][OwnPath(k)]>> \in performed
    /\ k \notin Swallowers =>
         /\ Body[k] = "sleep" => Passed(r, <<k, entries[r][AtPath(k)]>>)
         /\ Body[k] \in {"await", "awaitTimeout"} => entries[r][OwnPath(k)] \in Clients

IInv ==
  /\ TypeOK
  /\ AuthorsOK
  /\ \A x \in Slots : SlotOK(x) /\ AgreeOK(x)
  /\ \A c \in Clients : CallOK(c)
  /\ \A r \in Runs : ParkOK(r) /\ ResultOK(r)
  /\ \A r \in Runs, k \in Steps : EntryOK(r, k)

-----------------------------------------------------------------------------
\* The journal only grows, and so do the clock and the history.
Grows ==
  /\ \A r \in Runs, p \in Path : entries[r][p] # None => entries'[r][p] = entries[r][p]
  /\ elapsed \subseteq elapsed'
  /\ performed \subseteq performed'

LEMMA Paths ==
  /\ InputsPath \in Path /\ OverridePath \in Path
  /\ \A k \in Steps : OwnPath(k) \in Path /\ TokenPath(k) \in Path /\ AtPath(k) \in Path
BY DEF Path, InputsPath, OverridePath, OwnPath, TokenPath, AtPath

\* A slot that a step leaves alone stays right while the journal grows.
LEMMA SlotsFrame ==
  ASSUME IInv, Grows, NEW x \in Slots,
         exec' \in [Slots -> Exec],
         \A y \in Slots \ {x} : exec'[y] = exec[y],
         SlotOK(x)', AgreeOK(x)'
  PROVE  \A y \in Slots : SlotOK(y)' /\ AgreeOK(y)'
<1> SUFFICES ASSUME NEW y \in Slots, y # x PROVE SlotOK(y)' /\ AgreeOK(y)'
  OBVIOUS
<1>1. exec'[y] = exec[y] /\ SlotOK(y) /\ AgreeOK(y)
  BY DEF IInv
<1>2. SlotOK(y)'
  BY <1>1 DEF SlotOK, Grows, Pinned, TokenPinned, Passed
<1>3. AgreeOK(y)'
  BY <1>1 DEF AgreeOK, Grows
<1> QED BY <1>2, <1>3

\* So does a row whose park and result are left alone, and one that is neither
\* parked nor completed afterwards.
LEMMA RowFrame ==
  ASSUME IInv, Grows, NEW r \in Runs,
         \/ /\ run'[r].status = run[r].status /\ run'[r].parked = run[r].parked
            /\ run'[r].token = run[r].token /\ run'[r].due = run[r].due
            /\ run'[r].result = run[r].result
         \/ run'[r].status \notin {"parked", "completed"}
  PROVE  ParkOK(r)' /\ ResultOK(r)'
<1>1. CASE run'[r].status \notin {"parked", "completed"}
  BY <1>1 DEF ParkOK, ResultOK
<1>2. CASE /\ run'[r].status = run[r].status /\ run'[r].parked = run[r].parked
           /\ run'[r].token = run[r].token /\ run'[r].due = run[r].due
           /\ run'[r].result = run[r].result
  <2>1. run[r] \in Row /\ ParkOK(r) /\ ResultOK(r) /\ AuthorsOK
    BY DEF IInv, TypeOK
  <2>2. ResultOK(r)'
    BY <1>2, <2>1, Paths DEF ResultOK, Grows
  <2>3. ASSUME run[r].status = "parked" PROVE ParkOK(r)'
    <3> DEFINE k == run[r].parked
    <3>1. k \in Steps /\ \A j \in Steps : j < k => entries'[r][OwnPath(j)] # None
      BY <2>1, <2>3, Paths DEF ParkOK, ReachedOK, Grows
    <3>2. run[r].token # None => entries'[r][TokenPath(k)] = entries[r][TokenPath(k)]
      BY <2>1, <2>3, <3>1, Paths DEF ParkOK, Grows
    <3>3. run[r].due # None => entries[r][AtPath(k)] \in Author
      BY <2>1, <2>3, <3>1 DEF ParkOK, Row, Deadline
    <3>4. run[r].due # None => entries'[r][AtPath(k)] = entries[r][AtPath(k)]
      BY <3>1, <3>3, Paths, DurableConstants DEF Grows, Author
    <3> QED BY <1>2, <2>1, <2>3, <3>1, <3>2, <3>4 DEF ParkOK, ReachedOK
  <2> QED BY <1>2, <2>2, <2>3 DEF ParkOK
<1> QED BY <1>1, <1>2

LEMMA CallFrame ==
  ASSUME IInv, Grows, NEW c \in Clients, client'[c] = client[c]
  PROVE  CallOK(c)'
BY Paths DEF IInv, CallOK, ReachedOK, Grows

\* Entries that are not written stay right.
LEMMA EntryFrame ==
  ASSUME IInv, Grows, NEW r \in Runs, NEW k \in Steps,
         entries'[r][OwnPath(k)] = entries[r][OwnPath(k)]
  PROVE  EntryOK(r, k)'
<1> SUFFICES ASSUME entries[r][OwnPath(k)] # None PROVE EntryOK(r, k)'
  BY DEF EntryOK
<1>1. EntryOK(r, k) /\ TypeOK
  BY DEF IInv
<1>2. ReachedOK(r, k)'
  BY <1>1, Paths DEF EntryOK, ReachedOK, Grows
<1>3. ASSUME k \notin Swallowers, Body[k] = "sleep"
      PROVE  Passed(r, <<k, entries[r][AtPath(k)]>>)'
  <2>1. <<r, <<k, entries[r][AtPath(k)]>>>> \in elapsed
    BY <1>1, <1>3 DEF EntryOK, Passed
  <2>2. entries[r][AtPath(k)] \in Author
    BY <1>1, <2>1 DEF TypeOK, Deadline
  <2>3. entries'[r][AtPath(k)] = entries[r][AtPath(k)]
    BY <2>2, Paths, DurableConstants DEF Grows, Author
  <2> QED BY <2>1, <2>3 DEF Passed, Grows
<1> QED BY <1>1, <1>2, <1>3 DEF EntryOK, Grows

\* A step of one slot that leaves the journal alone.
LEMMA SlotStep ==
  ASSUME IInv, TypeOK', NEW x \in Slots,
         \A y \in Slots \ {x} : exec'[y] = exec[y],
         UNCHANGED <<entries, client>>,
         elapsed \subseteq elapsed', performed \subseteq performed',
         \A r \in Runs : ParkOK(r)' /\ ResultOK(r)',
         SlotOK(x)', AgreeOK(x)'
  PROVE  IInv'
<1>1. Grows
  BY DEF Grows
<1>2. \A y \in Slots : SlotOK(y)' /\ AgreeOK(y)'
  BY <1>1, SlotsFrame DEF TypeOK
<1>3. \A c \in Clients : CallOK(c)'
  BY <1>1, CallFrame
<1>4. \A r \in Runs, k \in Steps : EntryOK(r, k)'
  BY <1>1, EntryFrame
<1>5. AuthorsOK'
  BY DEF IInv, AuthorsOK
<1> QED BY <1>2, <1>3, <1>4, <1>5 DEF IInv

-----------------------------------------------------------------------------
(* The slots. *)

LEMMA IdleType ==
  /\ Idle \in Exec
  /\ Idle.st = "idle" /\ Idle.seen = NothingSeen
<1>1. NothingSeen \in [Path -> Value \cup {None}] /\ 0 \in 0..(N + 1)
  BY DurableConstants DEF NothingSeen
<1> QED BY <1>1 DEF Idle, Exec, ExecState, InputOrigin

LEMMA AfterType ==
  ASSUME NEW batch \in SUBSET Runs
  PROVE  /\ After(batch) \in Exec
         /\ After(batch).st \in {"idle", "sweep"}
         /\ After(batch).seen = NothingSeen
BY IdleType DEF After, Exec, ExecState

\* A slot that is done with a run is in a right state, whatever it did.
LEMMA AfterOK ==
  ASSUME IInv, NEW x \in Slots, NEW batch \in SUBSET Runs,
         exec' = [exec EXCEPT ![x] = After(batch)]
  PROVE  /\ exec' \in [Slots -> Exec]
         /\ \A y \in Slots \ {x} : exec'[y] = exec[y]
         /\ SlotOK(x)' /\ AgreeOK(x)'
<1>1. exec \in [Slots -> Exec]
  BY DEF IInv, TypeOK
<1>2. exec'[x] = After(batch)
  BY <1>1
<1>3. exec' \in [Slots -> Exec] /\ \A y \in Slots \ {x} : exec'[y] = exec[y]
  BY <1>1, AfterType
<1>4. SlotOK(x)'
  BY <1>2, AfterType DEF SlotOK, InBody
<1>5. AgreeOK(x)'
  BY <1>2, AfterType DEF AgreeOK, NothingSeen
<1> QED BY <1>3, <1>4, <1>5

LEMMA FinishOK ==
  ASSUME IInv, NEW x \in Slots, Finish(x)
  PROVE  /\ exec' \in [Slots -> Exec]
         /\ \A y \in Slots \ {x} : exec'[y] = exec[y]
         /\ SlotOK(x)' /\ AgreeOK(x)'
<1>1. exec[x].batch \in SUBSET Runs
  BY DEF IInv, TypeOK, Exec
<1> QED BY <1>1, AfterOK DEF Finish

\* Moving on leaves what the slot has read, so only SlotOK has to be shown.
LEMMA MoveOK ==
  ASSUME IInv, NEW x \in Slots,
         exec' \in [Slots -> Exec],
         \A y \in Slots \ {x} : exec'[y] = exec[y],
         exec'[x].run = exec[x].run, exec'[x].seen = exec[x].seen,
         UNCHANGED <<run, entries, client, renewals, elapsed, budget>>,
         performed \subseteq performed', performed' \subseteq Runs \X Steps \X Slots,
         SlotOK(x)'
  PROVE  IInv'
<1>1. TypeOK'
  BY DEF IInv, TypeOK
<1>2. AgreeOK(x)'
  BY DEF IInv, AgreeOK
<1>3. \A r \in Runs : ParkOK(r)' /\ ResultOK(r)'
  BY RowFrame DEF Grows
<1> QED BY <1>1, <1>2, <1>3, SlotStep

LEMMA BecomeType ==
  ASSUME IInv, NEW x \in Slots, NEW st \in ExecState, Become(x, st)
  PROVE  /\ exec' \in [Slots -> Exec]
         /\ \A y \in Slots \ {x} : exec'[y] = exec[y]
         /\ exec'[x].st = st /\ exec'[x].run = exec[x].run /\ exec'[x].at = exec[x].at
         /\ exec'[x].seen = exec[x].seen
BY DEF IInv, TypeOK, Become, Exec

LEMMA ReadExistingOK ==
  ASSUME IInv, NEW x \in Slots, ReadExisting(x)
  PROVE  IInv'
<1>1. CASE Finish(x)
  <2>1. TypeOK'
    BY <1>1, FinishOK DEF IInv, TypeOK, ReadExisting
  <2>2. \A r \in Runs : ParkOK(r)' /\ ResultOK(r)'
    BY RowFrame DEF Grows, ReadExisting
  <2> QED BY <1>1, <2>1, <2>2, FinishOK, SlotStep DEF ReadExisting
<1>2. CASE Become(x, "attach")
  <2>1. exec'[x].st = "attach" /\ exec'[x].run = exec[x].run
    BY <1>2, BecomeType DEF ExecState
  <2>2. SlotOK(x)'
    BY <2>1 DEF IInv, SlotOK, ReadExisting, InBody
  <2>3. "attach" \in ExecState /\ performed \subseteq Runs \X Steps \X Slots
    BY DEF ExecState, IInv, TypeOK
  <2> QED BY <1>2, <2>2, <2>3, BecomeType, MoveOK DEF ReadExisting
<1> QED BY <1>1, <1>2 DEF ReadExisting

LEMMA SweepOK ==
  ASSUME IInv, NEW x \in Slots, Sweep(x)
  PROVE  IInv'
<1>1. DueRuns \in SUBSET Runs
  BY DEF DueRuns
<1>2. TypeOK'
  BY <1>1, AfterOK DEF IInv, TypeOK, Sweep
<1>3. \A r \in Runs : ParkOK(r)' /\ ResultOK(r)'
  BY RowFrame DEF Grows, Sweep
<1> QED BY <1>1, <1>2, <1>3, AfterOK, SlotStep DEF Sweep

LEMMA LoadOK ==
  ASSUME IInv, NEW x \in Slots, Load(x)
  PROVE  IInv'
<1> DEFINE origin == IF run[exec[x].run].stored THEN "stored" ELSE "empty"
<1>a. origin \in InputOrigin /\ "open" \in ExecState
  BY DEF InputOrigin, ExecState, Owning
<1>b. exec' = [exec EXCEPT ![x].st = "open", ![x].inputs = origin]
  BY DEF Load
<1> HIDE DEF origin
<1>1. /\ exec' \in [Slots -> Exec]
      /\ \A y \in Slots \ {x} : exec'[y] = exec[y]
      /\ exec'[x].st = "open" /\ exec'[x].run = exec[x].run /\ exec'[x].seen = exec[x].seen
  BY <1>a, <1>b, ZenonT(60) DEF IInv, TypeOK, Exec
<1>2. SlotOK(x)'
  BY <1>1 DEF IInv, SlotOK, Load, InBody
<1>3. performed \subseteq Runs \X Steps \X Slots
  BY DEF IInv, TypeOK
<1> QED BY <1>1, <1>2, <1>3, MoveOK DEF Load

LEMMA OpenOK ==
  ASSUME IInv, NEW x \in Slots, Open(x)
  PROVE  IInv'
<1>0. 1 \in 0..(N + 1) /\ 1 \in 1..(N + 1)
  BY DurableConstants
<1>1. exec[x].run \in Runs /\ entries[exec[x].run] \in [Path -> Value \cup {None}]
  BY DEF IInv, TypeOK, SlotOK, Open
<1>a. "inputs" \in ExecState
  BY DEF ExecState, Owning, InBody
<1> DEFINE read == entries[exec[x].run]
<1>b. exec' = [exec EXCEPT ![x].st = "inputs", ![x].at = 1, ![x].seen = read]
  BY DEF Open
<1>c. exec \in [Slots -> Exec] /\ read \in [Path -> Value \cup {None}]
  BY <1>1 DEF IInv, TypeOK
<1> HIDE DEF read
<1>2. /\ exec' \in [Slots -> Exec]
      /\ \A y \in Slots \ {x} : exec'[y] = exec[y]
      /\ exec'[x].st = "inputs" /\ exec'[x].run = exec[x].run
      /\ exec'[x].at = 1 /\ exec'[x].seen = read
  BY <1>0, <1>a, <1>b, <1>c, ZenonT(60) DEF Exec
<1> USE DEF read
<1>3. SlotOK(x)'
  BY <1>0, <1>1, <1>2, DurableConstants DEF SlotOK, InBody, Steps
<1>4. AgreeOK(x)'
  BY <1>1, <1>2 DEF AgreeOK, Open
<1>5. TypeOK'
  BY <1>2 DEF IInv, TypeOK, Open
<1>6. \A r \in Runs : ParkOK(r)' /\ ResultOK(r)'
  BY RowFrame DEF Grows, Open
<1> QED BY <1>2, <1>3, <1>4, <1>5, <1>6, SlotStep DEF Open

LEMMA ReplayOK ==
  ASSUME IInv, NEW x \in Slots, Replay(x)
  PROVE  IInv'
<1>1. exec[x].at + 1 \in 0..(N + 1) /\ exec[x].at + 1 \in 1..(N + 1)
  BY DurableConstants DEF Replay, Steps
<1>2. /\ exec' \in [Slots -> Exec]
      /\ \A y \in Slots \ {x} : exec'[y] = exec[y]
      /\ exec'[x].st = "step" /\ exec'[x].run = exec[x].run
      /\ exec'[x].at = exec[x].at + 1 /\ exec'[x].seen = exec[x].seen
  BY <1>1 DEF IInv, TypeOK, Replay, Exec
<1>3. \A j \in Steps : j < exec[x].at + 1 => exec[x].seen[OwnPath(j)] # None
  <2> SUFFICES ASSUME NEW j \in Steps, j < exec[x].at + 1
               PROVE  exec[x].seen[OwnPath(j)] # None
    OBVIOUS
  <2>1. CASE j = exec[x].at
    BY <2>1 DEF Replay
  <2>2. CASE j < exec[x].at
    BY <2>2 DEF Replay, IInv, SlotOK, InBody
  <2> QED BY <2>1, <2>2, DurableConstants DEF Replay, Steps
<1>4. SlotOK(x)'
  BY <1>1, <1>2, <1>3 DEF IInv, SlotOK, Replay, InBody
<1>5. performed \subseteq Runs \X Steps \X Slots
  BY DEF IInv, TypeOK
<1> QED BY <1>2, <1>4, <1>5, MoveOK DEF Replay

LEMMA PerformEffectOK ==
  ASSUME IInv, NEW x \in Slots, PerformEffect(x)
  PROVE  IInv'
<1>1. "record" \in ExecState
  BY DEF ExecState, Owning, InBody
<1>2. /\ exec' \in [Slots -> Exec]
      /\ \A y \in Slots \ {x} : exec'[y] = exec[y]
      /\ exec'[x].st = "record" /\ exec'[x].run = exec[x].run
      /\ exec'[x].at = exec[x].at /\ exec'[x].seen = exec[x].seen
  BY <1>1, BecomeType DEF PerformEffect
<1>3. exec[x].run \in Runs /\ exec[x].at \in Steps
  BY DEF IInv, SlotOK, PerformEffect, Reaching
<1>4. performed \subseteq performed' /\ performed' \subseteq Runs \X Steps \X Slots
  BY <1>3 DEF IInv, TypeOK, PerformEffect
<1>5. SlotOK(x)'
  BY <1>2, <1>3 DEF IInv, SlotOK, PerformEffect, Reaching, InBody, Passed
<1> QED BY <1>2, <1>4, <1>5, MoveOK DEF PerformEffect

LEMMA FailEffectOK ==
  ASSUME IInv, NEW x \in Slots, FailEffect(x)
  PROVE  IInv'
<1>1. "failing" \in ExecState
  BY DEF ExecState, Owning, InBody
<1>2. /\ exec' \in [Slots -> Exec]
      /\ \A y \in Slots \ {x} : exec'[y] = exec[y]
      /\ exec'[x].st = "failing" /\ exec'[x].run = exec[x].run
      /\ exec'[x].at = exec[x].at /\ exec'[x].seen = exec[x].seen
  BY <1>1, BecomeType DEF FailEffect
<1>3. exec[x].run \in Runs /\ exec[x].at \in Steps
  BY DEF IInv, SlotOK, FailEffect, Reaching
<1>4. performed \subseteq performed' /\ performed' \subseteq Runs \X Steps \X Slots
  BY <1>3 DEF IInv, TypeOK, FailEffect
<1>5. SlotOK(x)'
  BY <1>2, <1>3 DEF IInv, SlotOK, FailEffect, Reaching, InBody
<1> QED BY <1>2, <1>4, <1>5, MoveOK DEF FailEffect

LEMMA SleepDoneOK ==
  ASSUME IInv, NEW x \in Slots, SleepDone(x)
  PROVE  IInv'
<1>1. "record" \in ExecState
  BY DEF ExecState, Owning, InBody
<1>2. /\ exec' \in [Slots -> Exec]
      /\ \A y \in Slots \ {x} : exec'[y] = exec[y]
      /\ exec'[x].st = "record" /\ exec'[x].run = exec[x].run
      /\ exec'[x].at = exec[x].at /\ exec'[x].seen = exec[x].seen
  BY <1>1, BecomeType DEF SleepDone
<1>3. exec[x].run \in Runs /\ exec[x].at \in Steps
  BY DEF IInv, SlotOK, SleepDone, Reaching
<1>4. performed \subseteq performed' /\ performed' \subseteq Runs \X Steps \X Slots
  BY <1>3 DEF IInv, TypeOK, SleepDone
<1>5. SlotOK(x)'
  BY <1>2, <1>3 DEF IInv, SlotOK, SleepDone, Reaching, InBody, Pinned, DeadlineOf, Passed, Timed
<1> QED BY <1>2, <1>4, <1>5, MoveOK DEF SleepDone

LEMMA AwaitTimeoutOK ==
  ASSUME IInv, NEW x \in Slots, AwaitTimeout(x)
  PROVE  IInv'
<1>1. "failing" \in ExecState
  BY DEF ExecState, Owning, InBody
<1>2. /\ exec' \in [Slots -> Exec]
      /\ \A y \in Slots \ {x} : exec'[y] = exec[y]
      /\ exec'[x].st = "failing" /\ exec'[x].run = exec[x].run
      /\ exec'[x].at = exec[x].at /\ exec'[x].seen = exec[x].seen
  BY <1>1, BecomeType DEF AwaitTimeout
<1>3. exec[x].run \in Runs /\ exec[x].at \in Steps
  BY DEF IInv, SlotOK, AwaitTimeout, Reaching
<1>4. performed \subseteq performed' /\ performed' \subseteq Runs \X Steps \X Slots
  BY <1>3 DEF IInv, TypeOK, AwaitTimeout
<1>5. SlotOK(x)'
  BY <1>2, <1>3 DEF IInv, SlotOK, AwaitTimeout, Reaching, InBody
<1> QED BY <1>2, <1>4, <1>5, MoveOK DEF AwaitTimeout

LEMMA DecideToParkOK ==
  ASSUME IInv, NEW x \in Slots, DecideToPark(x)
  PROVE  IInv'
<1>1. "parking" \in ExecState
  BY DEF ExecState, Owning, InBody
<1>2. /\ exec' \in [Slots -> Exec]
      /\ \A y \in Slots \ {x} : exec'[y] = exec[y]
      /\ exec'[x].st = "parking" /\ exec'[x].run = exec[x].run
      /\ exec'[x].at = exec[x].at /\ exec'[x].seen = exec[x].seen
  BY <1>1, BecomeType DEF DecideToPark
<1>3. exec[x].run \in Runs /\ exec[x].at \in Steps
  BY DEF IInv, SlotOK, DecideToPark, Reaching
<1>4. performed \subseteq performed' /\ performed' \subseteq Runs \X Steps \X Slots
  BY <1>3 DEF IInv, TypeOK, DecideToPark
<1>5. SlotOK(x)'
  BY <1>2, <1>3 DEF IInv, SlotOK, DecideToPark, Reaching, InBody, Pinned, TokenPinned
<1> QED BY <1>2, <1>4, <1>5, MoveOK DEF DecideToPark

LEMMA InterruptOK ==
  ASSUME IInv, NEW x \in Slots, Interrupt(x)
  PROVE  IInv'
<1>1. budget' \in [faults : 0..MaxFaults, lapses : 0..MaxLapses]
  BY DurableConstants DEF IInv, TypeOK, Interrupt
<1>2. TypeOK'
  BY <1>1, FinishOK DEF IInv, TypeOK, Interrupt
<1>3. \A r \in Runs : ParkOK(r)' /\ ResultOK(r)'
  BY RowFrame DEF Grows, Interrupt
<1> QED BY <1>2, <1>3, FinishOK, SlotStep DEF Interrupt

LEMMA FailWriteOK ==
  ASSUME IInv, NEW x \in Slots, FailWrite(x)
  PROVE  IInv'
<1>1. budget' \in [faults : 0..MaxFaults, lapses : 0..MaxLapses]
  BY DurableConstants DEF IInv, TypeOK, FailWrite
<1>2. "failing" \in ExecState
  BY DEF ExecState, Owning, InBody
<1>3. /\ exec' \in [Slots -> Exec]
      /\ \A y \in Slots \ {x} : exec'[y] = exec[y]
      /\ exec'[x].st = "failing" /\ exec'[x].run = exec[x].run
      /\ exec'[x].at = exec[x].at /\ exec'[x].seen = exec[x].seen
  BY <1>2, BecomeType DEF FailWrite
<1>4. TypeOK'
  BY <1>1, <1>3 DEF IInv, TypeOK, FailWrite
<1>5. SlotOK(x)' /\ AgreeOK(x)'
  BY <1>3, ZenonT(60) DEF IInv, SlotOK, AgreeOK, FailWrite, Reaching, InBody
<1>6. \A r \in Runs : ParkOK(r)' /\ ResultOK(r)'
  BY RowFrame DEF Grows, FailWrite
<1> QED BY <1>3, <1>4, <1>5, <1>6, SlotStep DEF FailWrite

LEMMA FireRenewalOK ==
  ASSUME IInv, NEW x \in Slots, FireRenewal(x)
  PROVE  IInv'
<1>1. <<exec[x].run, HolderOf[x]>> \in Runs \X (Holders \cup {Gone})
  BY DurableConstants DEF IInv, SlotOK, FireRenewal, InBody
<1>2. TypeOK'
  BY <1>1 DEF IInv, TypeOK, FireRenewal
<1>3. \A r \in Runs : ParkOK(r)' /\ ResultOK(r)'
  BY RowFrame DEF Grows, FireRenewal
<1>4. SlotOK(x)' /\ AgreeOK(x)'
  BY DEF IInv, SlotOK, AgreeOK, FireRenewal, Pinned, TokenPinned, Passed
<1> QED BY <1>2, <1>3, <1>4, SlotStep DEF FireRenewal

-----------------------------------------------------------------------------
(* The writes. *)

\* What makes it right to write v at p.
WriteAllowed(r, p, v) ==
  \A k \in Steps :
    /\ p = TokenPath(k) \/ p = AtPath(k) => v \in Slots
    /\ p = OwnPath(k) =>
         /\ v \in Author
         /\ ReachedOK(r, k)
         /\ Body[k] = "effect" => <<r, k, v>> \in performed
         /\ k \notin Swallowers =>
              /\ Body[k] = "sleep" => Passed(r, <<k, entries[r][AtPath(k)]>>)
              /\ Body[k] \in {"await", "awaitTimeout"} => v \in Clients

LEMMA PathsDiffer ==
  \A j, k \in Steps :
    /\ OwnPath(j) # TokenPath(k) /\ OwnPath(j) # AtPath(k) /\ TokenPath(j) # AtPath(k)
    /\ OwnPath(j) = OwnPath(k) => j = k
    /\ InputsPath \notin {OwnPath(k), TokenPath(k), AtPath(k)}
    /\ OverridePath \notin {OwnPath(k), TokenPath(k), AtPath(k)}
BY DEF OwnPath, TokenPath, AtPath, InputsPath, OverridePath

LEMMA AppendGrows ==
  ASSUME IInv, NEW r \in Runs, NEW p \in Path, NEW v \in Value,
         Append(r, p, v), UNCHANGED <<elapsed, performed>>
  PROVE  /\ Grows
         /\ entries' \in [Runs -> [Path -> Value \cup {None}]]
         /\ entries'[r][p] = Stored(r, p, v)
         /\ \A q \in Runs, o \in Path : q # r \/ o # p => entries'[q][o] = entries[q][o]
<1>1. entries \in [Runs -> [Path -> Value \cup {None}]]
  BY DEF IInv, TypeOK
<1>2. Stored(r, p, v) \in Value \cup {None}
  BY <1>1 DEF Stored
<1>3. /\ entries' \in [Runs -> [Path -> Value \cup {None}]]
      /\ entries'[r][p] = Stored(r, p, v)
      /\ \A q \in Runs, o \in Path : q # r \/ o # p => entries'[q][o] = entries[q][o]
  BY <1>1, <1>2 DEF Append
<1>4. Grows
  BY <1>3 DEF Grows, Stored
<1> QED BY <1>3, <1>4

LEMMA AppendOK ==
  ASSUME IInv, NEW r \in Runs, NEW p \in Path, NEW v \in Value,
         Append(r, p, v), UNCHANGED <<elapsed, performed>>, WriteAllowed(r, p, v)
  PROVE  /\ AuthorsOK'
         /\ \A q \in Runs, k \in Steps : EntryOK(q, k)'
<1>1. /\ Grows
      /\ entries'[r][p] = Stored(r, p, v)
      /\ \A q \in Runs, o \in Path : q # r \/ o # p => entries'[q][o] = entries[q][o]
  BY AppendGrows
<1>2. AuthorsOK'
  BY <1>1, Paths, ZenonT(60) DEF IInv, AuthorsOK, Stored, WriteAllowed
<1>3. ASSUME NEW q \in Runs, NEW k \in Steps PROVE EntryOK(q, k)'
  <2>1. CASE entries'[q][OwnPath(k)] = entries[q][OwnPath(k)]
    BY <1>1, <2>1, EntryFrame
  <2>2. CASE q = r /\ p = OwnPath(k) /\ entries[r][p] = None /\ entries'[r][p] = v
    <3>1. entries'[r][AtPath(k)] = entries[r][AtPath(k)]
      BY <1>1, <2>2, Paths, PathsDiffer
    <3>2. ReachedOK(r, k)'
      BY <1>1, <2>2, Paths DEF WriteAllowed, ReachedOK, Grows
    <3> QED BY <2>2, <3>1, <3>2 DEF EntryOK, WriteAllowed, Passed
  <2> QED BY <1>1, <2>1, <2>2, Paths DEF Stored
<1> QED BY <1>2, <1>3

LEMMA WriteExec ==
  ASSUME exec \in [Slots -> Exec],
         NEW x \in Slots, NEW p \in Path, NEW st \in ExecState, NEW at \in 0..(N + 1),
         NEW v, Write(x, p, v, st, at), Stored(exec[x].run, p, v) \in Value \cup {None}
  PROVE  /\ exec' \in [Slots -> Exec]
         /\ \A y \in Slots \ {x} : exec'[y] = exec[y]
         /\ exec'[x].st = st /\ exec'[x].run = exec[x].run /\ exec'[x].at = at
         /\ \A o \in Path : o # p => exec'[x].seen[o] = exec[x].seen[o]
         /\ exec'[x].seen[p] = Stored(exec[x].run, p, v)
<1> DEFINE won == Stored(exec[x].run, p, v)
<1>1. exec[x].seen \in [Path -> Value \cup {None}]
  BY DEF Exec
<1>2. exec' = [exec EXCEPT ![x].st = st, ![x].at = at, ![x].seen[p] = won]
  BY DEF Write
<1> HIDE DEF won
<1>3. exec' = [exec EXCEPT ![x].st = st, ![x].at = at,
                           ![x].seen = [exec[x].seen EXCEPT ![p] = won]]
  BY <1>2 DEF Exec
<1>4. PICK seen \in [Path -> Value \cup {None}] : seen = [exec[x].seen EXCEPT ![p] = won]
  BY <1>1 DEF won
<1>5. exec' = [exec EXCEPT ![x].st = st, ![x].at = at, ![x].seen = seen]
  BY <1>3, <1>4
<1>6. /\ exec' \in [Slots -> Exec]
      /\ \A y \in Slots \ {x} : exec'[y] = exec[y]
      /\ exec'[x].st = st /\ exec'[x].run = exec[x].run
      /\ exec'[x].at = at /\ exec'[x].seen = seen
  BY <1>5, ZenonT(60) DEF Exec
<1>7. seen[p] = won /\ \A o \in Path : o # p => seen[o] = exec[x].seen[o]
  BY <1>1, <1>4
<1> QED BY <1>6, <1>7 DEF won

\* #write: the slot goes on with the entry that is in the journal.
LEMMA WriteOK ==
  ASSUME IInv, NEW x \in Slots, NEW p \in Path, NEW v \in Value,
         NEW st \in ExecState, NEW at \in 0..(N + 1),
         exec[x].run \in Runs, Write(x, p, v, st, at), v # None,
         UNCHANGED <<run, client, renewals, elapsed, performed, budget>>,
         WriteAllowed(exec[x].run, p, v),
         /\ exec'[x].st = st /\ exec'[x].run = exec[x].run /\ exec'[x].at = at
         /\ \A o \in Path : o # p => exec'[x].seen[o] = exec[x].seen[o]
         /\ exec'[x].seen[p] # None
         => SlotOK(x)'
  PROVE  IInv'
<1> DEFINE r == exec[x].run
<1> DEFINE won == Stored(r, p, v)
<1>1. /\ Append(r, p, v)
      /\ exec' = [exec EXCEPT ![x].st = st, ![x].at = at, ![x].seen[p] = won]
  BY DEF Write
<1>2. /\ Grows
      /\ entries' \in [Runs -> [Path -> Value \cup {None}]]
      /\ entries'[r][p] = won
  BY <1>1, AppendGrows
<1>3. exec \in [Slots -> Exec] /\ entries \in [Runs -> [Path -> Value \cup {None}]]
  BY DEF IInv, TypeOK
<1>4. won \in Value \cup {None} /\ won # None
  BY <1>3 DEF Stored
<1>5. /\ exec' \in [Slots -> Exec]
      /\ \A y \in Slots \ {x} : exec'[y] = exec[y]
      /\ exec'[x].st = st /\ exec'[x].run = r /\ exec'[x].at = at
      /\ \A o \in Path : o # p => exec'[x].seen[o] = exec[x].seen[o]
      /\ exec'[x].seen[p] = won
  BY <1>3, <1>4, WriteExec
<1>6. SlotOK(x)'
  BY <1>4, <1>5
<1>7. AgreeOK(x)'
  BY <1>2, <1>4, <1>5 DEF IInv, AgreeOK, Grows
<1>8. \A y \in Slots : SlotOK(y)' /\ AgreeOK(y)'
  BY <1>2, <1>5, <1>6, <1>7, SlotsFrame
<1>9. AuthorsOK' /\ \A q \in Runs, k \in Steps : EntryOK(q, k)'
  BY <1>1, AppendOK
<1>10. TypeOK'
  BY <1>2, <1>5 DEF IInv, TypeOK
<1>11. \A c \in Clients : CallOK(c)'
  BY <1>2, CallFrame
<1>12. \A q \in Runs : ParkOK(q)' /\ ResultOK(q)'
  BY <1>2, RowFrame
<1> QED BY <1>8, <1>9, <1>10, <1>11, <1>12 DEF IInv

LEMMA DecideInputsOK ==
  ASSUME IInv, NEW x \in Slots, DecideInputs(x)
  PROVE  IInv'
<1>1. /\ exec[x].run \in Runs /\ exec[x].at \in 1..(N + 1)
      /\ exec[x].inputs \in InputOrigin /\ "step" \in ExecState
  BY DEF IInv, TypeOK, Exec, SlotOK, DecideInputs, ExecState, Owning, InBody
<1>2. 1 \in 0..(N + 1) /\ 1 \in 1..(N + 1) /\ \A j \in Steps : ~(j < 1)
  BY DurableConstants DEF Steps
<1>3. CASE exec[x].seen[InputsPath] # None
  <2>1. /\ exec' \in [Slots -> Exec]
        /\ \A y \in Slots \ {x} : exec'[y] = exec[y]
        /\ exec'[x].st = "step" /\ exec'[x].run = exec[x].run
        /\ exec'[x].at = exec[x].at /\ exec'[x].seen = exec[x].seen
    BY <1>1, <1>3, BecomeType DEF DecideInputs
  <2>2. SlotOK(x)'
    BY <2>1, <1>1 DEF IInv, SlotOK, DecideInputs, InBody
  <2>3. performed \subseteq Runs \X Steps \X Slots
    BY DEF IInv, TypeOK
  <2> QED BY <1>3, <2>1, <2>2, <2>3, MoveOK DEF DecideInputs
<1>4. CASE exec[x].seen[InputsPath] = None
  <2>1. Write(x, InputsPath, exec[x].inputs, "step", 1)
    BY <1>4 DEF DecideInputs
  <2>2. exec[x].inputs \in Value /\ exec[x].inputs # None
    BY <1>1, DurableConstants DEF Value
  <2>3. WriteAllowed(exec[x].run, InputsPath, exec[x].inputs)
    BY PathsDiffer DEF WriteAllowed
  <2>4. ASSUME exec'[x].st = "step", exec'[x].run = exec[x].run, exec'[x].at = 1
        PROVE  SlotOK(x)'
    BY <1>1, <1>2, <2>4 DEF SlotOK, InBody
  <2> QED BY <1>1, <1>2, <2>1, <2>2, <2>3, <2>4, Paths, WriteOK DEF DecideInputs
<1> QED BY <1>3, <1>4

LEMMA RecordStepOK ==
  ASSUME IInv, NEW x \in Slots, RecordStep(x)
  PROVE  IInv'
<1> DEFINE r == exec[x].run
           k == exec[x].at
<1>1. r \in Runs /\ k \in Steps /\ SlotOK(x) /\ AgreeOK(x) /\ "step" \in ExecState
  BY DEF IInv, SlotOK, RecordStep, ExecState, Owning, InBody
<1>2. k + 1 \in 0..(N + 1) /\ k + 1 \in 1..(N + 1)
  BY <1>1, DurableConstants DEF Steps
<1>3. ReachedOK(r, k)
  BY <1>1, Paths DEF SlotOK, AgreeOK, ReachedOK, RecordStep, InBody
<1>4. x \in Value /\ x # None /\ x \in Author
  BY DurableConstants DEF Value, Author
<1>5. k \notin Swallowers /\ Body[k] = "sleep" => Passed(r, <<k, entries[r][AtPath(k)]>>)
  BY <1>1, Paths DEF SlotOK, AgreeOK, RecordStep
<1>6. WriteAllowed(r, OwnPath(k), x)
  <2> SUFFICES ASSUME NEW j \in Steps
               PROVE  /\ OwnPath(k) # TokenPath(j) /\ OwnPath(k) # AtPath(j)
                      /\ OwnPath(k) = OwnPath(j) => j = k
    BY <1>1, <1>3, <1>4, <1>5 DEF WriteAllowed, SlotOK, RecordStep
  <2> QED BY <1>1, PathsDiffer
<1>7. ASSUME exec'[x].st = "step", exec'[x].run = r, exec'[x].at = k + 1,
             \A o \in Path : o # OwnPath(k) => exec'[x].seen[o] = exec[x].seen[o],
             exec'[x].seen[OwnPath(k)] # None
      PROVE  SlotOK(x)'
  <2>1. \A j \in Steps : j < k + 1 => exec'[x].seen[OwnPath(j)] # None
    <3> SUFFICES ASSUME NEW j \in Steps, j < k + 1
                 PROVE  exec'[x].seen[OwnPath(j)] # None
      OBVIOUS
    <3>1. CASE j = k
      BY <1>7, <3>1
    <3>2. CASE j < k
      <4>1. OwnPath(j) \in Path /\ OwnPath(j) # OwnPath(k)
        BY <1>1, <3>2, Paths, PathsDiffer DEF Steps
      <4> QED BY <1>1, <1>7, <3>2, <4>1 DEF SlotOK, RecordStep, InBody
    <3> QED BY <1>1, <3>1, <3>2, DurableConstants DEF Steps
  <2> QED BY <1>1, <1>2, <1>7, <2>1 DEF SlotOK
<1>8. Write(x, OwnPath(k), x, "step", k + 1)
  BY DEF RecordStep
<1>9. OwnPath(k) \in Path
  BY <1>1, Paths
<1> QED BY <1>1, <1>2, <1>4, <1>6, <1>7, <1>8, <1>9, WriteOK DEF RecordStep

\* A token or a deadline is pinned: the slot stays at its step.
LEMMA PinOK ==
  ASSUME IInv, NEW x \in Slots, Reaching(x, Waits), NEW p \in Path,
         \/ p = TokenPath(exec[x].at)
         \/ p = AtPath(exec[x].at),
         Write(x, p, x, "step", exec[x].at),
         UNCHANGED <<run, client, renewals, elapsed, performed, budget>>
  PROVE  IInv'
<1> DEFINE k == exec[x].at
<1>1. /\ exec[x].run \in Runs /\ k \in Steps /\ k \in 0..(N + 1) /\ k \in 1..(N + 1)
      /\ "step" \in ExecState
  BY DEF IInv, TypeOK, Exec, SlotOK, Reaching, ExecState, Owning, InBody
<1>2. x \in Value /\ x # None
  BY DurableConstants DEF Value, Author
<1>3. \A j \in Steps : p # OwnPath(j)
  BY <1>1, PathsDiffer
<1>4. WriteAllowed(exec[x].run, p, x)
  BY <1>3 DEF WriteAllowed
<1>5. ASSUME exec'[x].st = "step", exec'[x].run = exec[x].run, exec'[x].at = k,
             \A o \in Path : o # p => exec'[x].seen[o] = exec[x].seen[o]
      PROVE  SlotOK(x)'
  <2>1. \A j \in Steps : j < k => exec'[x].seen[OwnPath(j)] # None
    BY <1>3, <1>5, Paths DEF IInv, SlotOK, Reaching, InBody
  <2> QED BY <1>1, <1>5, <2>1 DEF SlotOK
<1> QED BY <1>1, <1>2, <1>4, <1>5, WriteOK

LEMMA PinTokenOK ==
  ASSUME IInv, NEW x \in Slots, PinToken(x)
  PROVE  IInv'
<1>1. Reaching(x, Waits) /\ exec[x].at \in Steps
  BY DEF PinToken, Reaching, Waits
<1> QED BY <1>1, Paths, PinOK DEF PinToken

LEMMA PinDeadlineOK ==
  ASSUME IInv, NEW x \in Slots, PinDeadline(x)
  PROVE  IInv'
<1>1. Reaching(x, Waits) /\ exec[x].at \in Steps
  BY DEF PinDeadline, Reaching, Waits, Timed
<1> QED BY <1>1, Paths, PinOK DEF PinDeadline

-----------------------------------------------------------------------------
(* The runs table. *)

LEMMA NoRunType == NoRun \in Row
BY DurableConstants DEF NoRun, Row, RunStatus

\* A claim leaves the park and the result alone.
LEMMA ClaimOK ==
  ASSUME IInv, NEW r \in Runs, NEW h \in Holders \cup {Gone},
         run' = [run EXCEPT ![r] = Claimed(run[r], h)], Grows
  PROVE  /\ run' \in [Runs -> Row]
         /\ \A q \in Runs : ParkOK(q)' /\ ResultOK(q)'
<1>1. run \in [Runs -> Row]
  BY DEF IInv, TypeOK
<1>2. run' \in [Runs -> Row]
  BY <1>1, ZenonT(60) DEF Claimed, Row
<1>3. ASSUME NEW q \in Runs
      PROVE  /\ run'[q].status = run[q].status /\ run'[q].parked = run[q].parked
             /\ run'[q].token = run[q].token /\ run'[q].due = run[q].due
             /\ run'[q].result = run[q].result
  BY <1>1 DEF Claimed, Row
<1> QED BY <1>2, <1>3, RowFrame

\* A fresh row is neither parked nor completed.
LEMMA AdmitRunOK ==
  ASSUME IInv, NEW x \in Slots, NEW r \in Runs, AdmitRun(x, r)
  PROVE  IInv'
<1>1. Grows
  BY DEF Grows, AdmitRun
<1>2. ASSUME NEW st \in {"admitted", "exists"},
             exec' = [exec EXCEPT ![x] = [Idle EXCEPT !.st = st, !.run = r,
                                                      !.inputs = "caller"]]
      PROVE  /\ exec' \in [Slots -> Exec]
             /\ \A y \in Slots \ {x} : exec'[y] = exec[y]
             /\ SlotOK(x)' /\ AgreeOK(x)'
  <2>1. exec \in [Slots -> Exec] /\ st \in ExecState /\ "caller" \in InputOrigin
    BY DEF IInv, TypeOK, ExecState, InputOrigin
  <2>2. PICK e \in Exec : e = [Idle EXCEPT !.st = st, !.run = r, !.inputs = "caller"]
    BY <2>1, IdleType DEF Exec
  <2>3. e.st = st /\ e.run = r /\ e.seen = NothingSeen
    BY <2>2, IdleType DEF Exec
  <2>4. exec' = [exec EXCEPT ![x] = e]
    BY <1>2, <2>2
  <2>5. exec' \in [Slots -> Exec] /\ exec'[x] = e /\ \A y \in Slots \ {x} : exec'[y] = exec[y]
    BY <2>1, <2>4
  <2>6. SlotOK(x)'
    BY <2>3, <2>5 DEF SlotOK, InBody
  <2>7. AgreeOK(x)'
    BY <2>3, <2>5 DEF AgreeOK, NothingSeen
  <2> QED BY <2>5, <2>6, <2>7
<1>3. CASE run[r].status = "none"
  <2> DEFINE row == [NoRun EXCEPT !.status = "running", !.holder = HolderOf[x], !.live = TRUE]
  <2>1. row \in Row /\ row.status = "running"
    BY NoRunType, DurableConstants DEF Row, RunStatus
  <2>2. run' = [run EXCEPT ![r] = row] /\ run \in [Runs -> Row]
    BY <1>3 DEF AdmitRun, IInv, TypeOK
  <2> HIDE DEF row
  <2>3. run' \in [Runs -> Row] /\ run'[r].status = "running"
        /\ \A q \in Runs \ {r} : run'[q] = run[q]
    BY <2>1, <2>2
  <2>4. \A q \in Runs : ParkOK(q)' /\ ResultOK(q)'
    BY <1>1, <2>3, RowFrame
  <2>5. /\ exec' \in [Slots -> Exec]
        /\ \A y \in Slots \ {x} : exec'[y] = exec[y]
        /\ SlotOK(x)' /\ AgreeOK(x)'
    BY <1>2, <1>3 DEF AdmitRun
  <2>6. TypeOK'
    BY <2>3, <2>5 DEF IInv, TypeOK, AdmitRun
  <2> QED BY <2>4, <2>5, <2>6, SlotStep DEF AdmitRun
<1>4. CASE run[r].status # "none"
  <2>1. /\ exec' \in [Slots -> Exec]
        /\ \A y \in Slots \ {x} : exec'[y] = exec[y]
        /\ SlotOK(x)' /\ AgreeOK(x)'
    BY <1>2, <1>4 DEF AdmitRun
  <2>2. \A q \in Runs : ParkOK(q)' /\ ResultOK(q)'
    BY <1>1, <1>4, RowFrame DEF AdmitRun
  <2>3. TypeOK'
    BY <1>4, <2>1 DEF IInv, TypeOK, AdmitRun
  <2> QED BY <2>1, <2>2, <2>3, SlotStep DEF AdmitRun
<1> QED BY <1>3, <1>4

LEMMA ClaimStartOK ==
  ASSUME IInv, NEW x \in Slots, ClaimStart(x)
  PROVE  IInv'
<1>1. Grows /\ exec[x].run \in Runs /\ HolderOf[x] \in Holders \cup {Gone}
  BY DurableConstants DEF Grows, ClaimStart, IInv, SlotOK
<1>2. CASE Claimable(exec[x].run, HolderOf[x])
  <2>1. "open" \in ExecState
    BY DEF ExecState, Owning
  <2>2. /\ exec' \in [Slots -> Exec]
        /\ \A y \in Slots \ {x} : exec'[y] = exec[y]
        /\ exec'[x].st = "open" /\ exec'[x].run = exec[x].run
        /\ exec'[x].seen = exec[x].seen
    BY <1>2, <2>1, BecomeType DEF ClaimStart
  <2>3. /\ run' \in [Runs -> Row]
        /\ \A q \in Runs : ParkOK(q)' /\ ResultOK(q)'
    BY <1>1, <1>2, ClaimOK DEF ClaimStart
  <2>4. SlotOK(x)'
    BY <1>1, <2>2 DEF SlotOK, InBody
  <2>5. AgreeOK(x)'
    BY <2>2 DEF IInv, AgreeOK, ClaimStart
  <2>6. TypeOK'
    BY <2>2, <2>3 DEF IInv, TypeOK, ClaimStart
  <2> QED BY <2>2, <2>3, <2>4, <2>5, <2>6, SlotStep DEF ClaimStart
<1>3. CASE ~Claimable(exec[x].run, HolderOf[x])
  <2>1. Finish(x) /\ UNCHANGED run
    BY <1>3 DEF ClaimStart
  <2>2. TypeOK'
    BY <2>1, FinishOK DEF IInv, TypeOK, ClaimStart
  <2>3. \A q \in Runs : ParkOK(q)' /\ ResultOK(q)'
    BY <1>1, <2>1, RowFrame
  <2> QED BY <2>1, <2>2, <2>3, FinishOK, SlotStep DEF ClaimStart
<1> QED BY <1>2, <1>3

LEMMA SweepNextOK ==
  ASSUME IInv, NEW x \in Slots, SweepNext(x)
  PROVE  IInv'
<1>1. Grows /\ HolderOf[x] \in Holders \cup {Gone} /\ exec[x].batch \in SUBSET Runs
  BY DurableConstants DEF Grows, SweepNext, IInv, TypeOK, Exec
<1>2. PICK r \in exec[x].batch :
        IF Claimable(r, HolderOf[x])
        THEN /\ run' = [run EXCEPT ![r] = Claimed(run[r], HolderOf[x])]
             /\ exec' = [exec EXCEPT ![x] = [Idle EXCEPT !.st = "load", !.run = r,
                                                !.batch = exec[x].batch \ {r}]]
        ELSE /\ exec' = [exec EXCEPT ![x] = After(exec[x].batch \ {r})]
             /\ UNCHANGED run
  BY DEF SweepNext
<1>3. r \in Runs /\ exec[x].batch \ {r} \in SUBSET Runs
  BY <1>1, <1>2
<1>4. CASE Claimable(r, HolderOf[x])
  <2>1. /\ run' \in [Runs -> Row]
        /\ \A q \in Runs : ParkOK(q)' /\ ResultOK(q)'
    BY <1>1, <1>2, <1>3, <1>4, ClaimOK
  <2>2. PICK rest \in SUBSET Runs : rest = exec[x].batch \ {r}
    BY <1>3
  <2>3. "load" \in ExecState /\ exec \in [Slots -> Exec]
    BY DEF ExecState, Owning, IInv, TypeOK
  <2>4. PICK e \in Exec : e = [Idle EXCEPT !.st = "load", !.run = r, !.batch = rest]
    BY <1>3, <2>3, IdleType DEF Exec
  <2>5. e.st = "load" /\ e.run = r /\ e.seen = NothingSeen
    BY <2>4, IdleType DEF Exec
  <2>6. exec' = [exec EXCEPT ![x] = e]
    BY <1>2, <1>4, <2>2, <2>4
  <2>7. exec' \in [Slots -> Exec] /\ exec'[x] = e /\ \A y \in Slots \ {x} : exec'[y] = exec[y]
    BY <2>3, <2>6
  <2>8. SlotOK(x)'
    BY <1>3, <2>5, <2>7 DEF SlotOK, InBody
  <2>9. AgreeOK(x)'
    BY <2>5, <2>7 DEF AgreeOK, NothingSeen
  <2>10. TypeOK'
    BY <2>1, <2>7 DEF IInv, TypeOK, SweepNext
  <2> QED BY <2>1, <2>7, <2>8, <2>9, <2>10, SlotStep DEF SweepNext
<1>5. CASE ~Claimable(r, HolderOf[x])
  <2>1. exec' = [exec EXCEPT ![x] = After(exec[x].batch \ {r})] /\ UNCHANGED run
    BY <1>2, <1>5
  <2>2. /\ exec' \in [Slots -> Exec]
        /\ \A y \in Slots \ {x} : exec'[y] = exec[y]
        /\ SlotOK(x)' /\ AgreeOK(x)'
    BY <1>3, <2>1, AfterOK
  <2>3. TypeOK'
    BY <2>1, <2>2 DEF IInv, TypeOK, SweepNext
  <2>4. \A q \in Runs : ParkOK(q)' /\ ResultOK(q)'
    BY <1>1, <2>1, RowFrame
  <2> QED BY <2>2, <2>3, <2>4, SlotStep DEF SweepNext
<1> QED BY <1>4, <1>5

\* completeRun touches one row and clears its park.
LEMMA CompleteRow ==
  ASSUME IInv, NEW r \in Runs, NEW status \in RunStatus,
         NEW result \in [Steps -> Value \cup {None}] \cup {None},
         CompleteRun(r, status, result)
  PROVE  /\ run' \in [Runs -> Row]
         /\ run'[r].status = status /\ run'[r].result = result
         /\ \A q \in Runs \ {r} : run'[q] = run[q]
<1>1. run \in [Runs -> Row] /\ 0 \in 0..N
  BY DurableConstants DEF IInv, TypeOK
<1> QED BY <1>1, ZenonT(60) DEF CompleteRun, Row

LEMMA SettleFailedOK ==
  ASSUME IInv, NEW x \in Slots, SettleFailed(x)
  PROVE  IInv'
<1>1. Grows /\ exec[x].run \in Runs /\ "failed" \in RunStatus
  BY DEF Grows, SettleFailed, IInv, SlotOK, RunStatus
<1>2. /\ run' \in [Runs -> Row]
      /\ run'[exec[x].run].status = "failed"
      /\ \A q \in Runs \ {exec[x].run} : run'[q] = run[q]
  BY <1>1, CompleteRow DEF SettleFailed
<1>3. \A q \in Runs : ParkOK(q)' /\ ResultOK(q)'
  BY <1>1, <1>2, RowFrame
<1>4. TypeOK'
  BY <1>2, FinishOK DEF IInv, TypeOK, SettleFailed
<1> QED BY <1>3, <1>4, FinishOK, SlotStep DEF SettleFailed

\* Every step is recorded by the time the body returns.
LEMMA CompleteOK ==
  ASSUME IInv, NEW x \in Slots, Complete(x)
  PROVE  IInv'
<1> DEFINE result == [j \in Steps |-> exec[x].seen[OwnPath(j)]]
<1>0. PICK r \in Runs : r = exec[x].run
  BY DEF Complete, IInv, SlotOK
<1>1. Grows /\ "completed" \in RunStatus
  BY DEF Grows, Complete, RunStatus
<1>2. \A j \in Steps : exec[x].seen[OwnPath(j)] # None
  <2>1. \A j \in Steps : j < N + 1
    BY DurableConstants DEF Steps
  <2> QED BY <2>1 DEF Complete, IInv, SlotOK, InBody
<1>3. \A j \in Steps : entries[r][OwnPath(j)] = exec[x].seen[OwnPath(j)]
  BY <1>0, <1>2, Paths DEF IInv, AgreeOK
<1>4. exec[x].seen \in [Path -> Value \cup {None}]
  BY DEF IInv, TypeOK, Exec
<1>5. result \in [Steps -> Value \cup {None}]
  BY <1>4, Paths
<1>6. CASE exec[x].latched
  <2>1. UNCHANGED run
    BY <1>6 DEF Complete
  <2>2. \A q \in Runs : ParkOK(q)' /\ ResultOK(q)'
    BY <1>1, <2>1, RowFrame
  <2>3. TypeOK'
    BY <2>1, FinishOK DEF IInv, TypeOK, Complete
  <2> QED BY <2>2, <2>3, FinishOK, SlotStep DEF Complete
<1>7. CASE ~exec[x].latched
  <2>1. CompleteRun(r, "completed", result)
    BY <1>0, <1>7 DEF Complete
  <2>2. /\ run' \in [Runs -> Row]
        /\ run'[r].status = "completed" /\ run'[r].result = result
        /\ \A q \in Runs \ {r} : run'[q] = run[q]
    <3> HIDE DEF result
    <3> QED BY <1>1, <1>5, <2>1, CompleteRow
  <2>3. ASSUME NEW q \in Runs, q # r PROVE ParkOK(q)' /\ ResultOK(q)'
    BY <1>1, <2>2, <2>3, RowFrame
  <2>4. ParkOK(r)' /\ ResultOK(r)'
    BY <1>2, <1>3, <2>2 DEF ParkOK, ResultOK, Complete
  <2>5. Finish(x) /\ UNCHANGED <<entries, client, renewals, elapsed, performed, budget>>
    BY DEF Complete
  <2>6. TypeOK'
    BY <2>2, <2>5, FinishOK DEF IInv, TypeOK
  <2> QED BY <2>3, <2>4, <2>5, <2>6, FinishOK, SlotStep
<1> QED BY <1>6, <1>7

LEMMA ParkRow ==
  ASSUME IInv, NEW r \in Runs, NEW k \in 0..N, NEW token \in Value \cup {None},
         NEW due \in Deadline \cup {None}, ParkRun(r, k, token, due)
  PROVE  /\ run' \in [Runs -> Row]
         /\ run'[r].status = "parked" /\ run'[r].parked = k
         /\ run'[r].token = token /\ run'[r].due = due
         /\ \A q \in Runs \ {r} : run'[q] = run[q]
<1>1. run \in [Runs -> Row] /\ "parked" \in RunStatus
  BY DEF IInv, TypeOK, RunStatus
<1> QED BY <1>1, ZenonT(60) DEF ParkRun, Row

\* A park is on what was pinned, at a step the body had reached.
LEMMA ParkActionOK ==
  ASSUME IInv, NEW x \in Slots, Park(x)
  PROVE  IInv'
<1>0. PICK r \in Runs, k \in Steps : r = exec[x].run /\ k = exec[x].at
  BY DEF Park, IInv, SlotOK
<1> DEFINE seen == exec[x].seen
           token == IF Body[k] = "sleep" THEN None ELSE seen[TokenPath(k)]
           due == IF Body[k] \in Timed THEN <<k, seen[AtPath(k)]>> ELSE None
<1>1. Grows /\ k \in 0..N /\ UNCHANGED <<entries, client, renewals, elapsed, performed, budget>>
  BY DurableConstants DEF Grows, Park, Steps
<1>2. /\ Body[k] \in Waits
      /\ Body[k] = "sleep" \/ seen[TokenPath(k)] # None
      /\ Body[k] \in Timed => seen[AtPath(k)] # None
      /\ \A j \in Steps : j < k => seen[OwnPath(j)] # None
  BY <1>0 DEF Park, IInv, SlotOK, Pinned, TokenPinned, InBody
<1>3. /\ seen[TokenPath(k)] # None => entries[r][TokenPath(k)] = seen[TokenPath(k)]
      /\ seen[AtPath(k)] # None => entries[r][AtPath(k)] = seen[AtPath(k)]
      /\ \A j \in Steps : j < k => entries[r][OwnPath(j)] # None
  BY <1>0, <1>2, Paths DEF IInv, AgreeOK
<1>4. token \in Value \cup {None} /\ due \in Deadline \cup {None}
  <2>1. Body[k] # "sleep" => seen[TokenPath(k)] \in Slots
    BY <1>2, <1>3 DEF IInv, AuthorsOK
  <2>2. Body[k] \in Timed => seen[AtPath(k)] \in Slots
    BY <1>2, <1>3 DEF IInv, AuthorsOK
  <2> QED BY <1>1, <2>1, <2>2 DEF Value, Author, Deadline
<1>5. ParkRun(r, k, token, due)
  BY <1>0 DEF Park, DeadlineOf
<1>6. PICK t \in Value \cup {None}, d \in Deadline \cup {None} : t = token /\ d = due
  BY <1>4
<1>7. /\ run' \in [Runs -> Row]
      /\ run'[r].status = "parked" /\ run'[r].parked = k
      /\ run'[r].token = t /\ run'[r].due = d
      /\ \A q \in Runs \ {r} : run'[q] = run[q]
  <2>1. ParkRun(r, k, t, d)
    BY <1>5, <1>6
  <2> QED BY <1>1, <2>1, ParkRow
<1>8. ParkOK(r)' /\ ResultOK(r)'
  <2>1. \A j \in Steps : j < k => entries'[r][OwnPath(j)] # None
    BY <1>1, <1>3
  <2>2. t # None => t = entries'[r][TokenPath(k)]
    BY <1>1, <1>3, <1>6
  <2>3. d # None => d = <<k, entries'[r][AtPath(k)]>>
    BY <1>1, <1>2, <1>3, <1>6
  <2>4. Body[k] \in Timed <=> d # None
    <3>1. Body[k] \in Timed => d \in Deadline
      BY <1>4, <1>6, <1>3, <1>2, <1>1 DEF Deadline, IInv, AuthorsOK, Author
    <3>2. None \notin Deadline
      BY DurableConstants DEF Deadline, Author
    <3> QED BY <1>6, <3>1, <3>2
  <2>5. Body[k] = "sleep" <=> t = None
    BY <1>2, <1>6
  <2> QED BY <1>2, <1>7, <2>1, <2>2, <2>3, <2>4, <2>5 DEF ParkOK, ResultOK, ReachedOK
<1>9. \A q \in Runs : ParkOK(q)' /\ ResultOK(q)'
  BY <1>1, <1>7, <1>8, RowFrame
<1>10. CASE k \in Swallowers
  <2>1. exec' = [exec EXCEPT ![x].st = "record", ![x].latched = TRUE]
    BY <1>0, <1>10 DEF Park
  <2>2. "record" \in ExecState /\ exec \in [Slots -> Exec]
    BY DEF ExecState, Owning, InBody, IInv, TypeOK
  <2>3. /\ exec' \in [Slots -> Exec]
        /\ \A y \in Slots \ {x} : exec'[y] = exec[y]
        /\ exec'[x].st = "record" /\ exec'[x].run = exec[x].run
        /\ exec'[x].at = exec[x].at /\ exec'[x].seen = exec[x].seen
    BY <2>1, <2>2 DEF Exec
  <2>4. SlotOK(x)'
    BY <1>0, <1>2, <1>10, <2>3 DEF IInv, SlotOK, Park, InBody, Waits
  <2>5. AgreeOK(x)'
    BY <1>1, <2>3 DEF IInv, AgreeOK
  <2>6. TypeOK'
    BY <1>1, <1>7, <2>3 DEF IInv, TypeOK
  <2> QED BY <1>1, <1>9, <2>3, <2>4, <2>5, <2>6, SlotStep
<1>11. CASE k \notin Swallowers
  <2>1. Finish(x)
    BY <1>0, <1>11 DEF Park
  <2>2. TypeOK'
    BY <1>1, <1>7, <2>1, FinishOK DEF IInv, TypeOK
  <2> QED BY <1>1, <1>9, <2>1, <2>2, FinishOK, SlotStep
<1> QED BY <1>10, <1>11

-----------------------------------------------------------------------------
(* Renewals, the clock and crashes. *)

\* A step that leaves the slots, the calls and the journal alone.
LEMMA EnvironmentStep ==
  ASSUME IInv, TypeOK', UNCHANGED <<entries, exec, client, performed>>,
         elapsed \subseteq elapsed',
         \A r \in Runs : ParkOK(r)' /\ ResultOK(r)'
  PROVE  IInv'
<1>1. Grows
  BY DEF Grows
<1>2. \A x \in Slots : SlotOK(x)' /\ AgreeOK(x)'
  BY DEF IInv, SlotOK, AgreeOK, Pinned, TokenPinned, Passed
<1>3. \A c \in Clients : CallOK(c)'
  BY <1>1, CallFrame
<1>4. \A r \in Runs, k \in Steps : EntryOK(r, k)'
  BY <1>1, EntryFrame
<1>5. AuthorsOK'
  BY DEF IInv, AuthorsOK
<1> QED BY <1>2, <1>3, <1>4, <1>5 DEF IInv

LEMMA LandRenewalOK ==
  ASSUME IInv, NEW r \in Runs, NEW h \in Holders \cup {Gone}, LandRenewal(r, h)
  PROVE  IInv'
<1>1. Grows
  BY DEF Grows, LandRenewal
<1>2. run' \in [Runs -> Row] /\ \A q \in Runs : ParkOK(q)' /\ ResultOK(q)'
  <2>1. CASE Claimable(r, h)
    BY <1>1, <2>1, ClaimOK DEF LandRenewal
  <2>2. CASE ~Claimable(r, h)
    <3>1. run' = run
      BY <2>2 DEF LandRenewal
    <3> QED BY <1>1, <3>1, RowFrame DEF IInv, TypeOK
  <2> QED BY <2>1, <2>2
<1>3. TypeOK'
  BY <1>2 DEF IInv, TypeOK, LandRenewal
<1> QED BY <1>2, <1>3, EnvironmentStep DEF LandRenewal

LEMMA LapseOK ==
  ASSUME IInv, NEW r \in Runs, Lapse(r)
  PROVE  IInv'
<1>1. Grows /\ run \in [Runs -> Row]
  BY DEF Grows, Lapse, IInv, TypeOK
<1>2. run' \in [Runs -> Row]
  BY <1>1, ZenonT(60) DEF Lapse, Row
<1>3. ASSUME NEW q \in Runs
      PROVE  /\ run'[q].status = run[q].status /\ run'[q].parked = run[q].parked
             /\ run'[q].token = run[q].token /\ run'[q].due = run[q].due
             /\ run'[q].result = run[q].result
  BY <1>1 DEF Lapse, Row
<1>4. \A q \in Runs : ParkOK(q)' /\ ResultOK(q)'
  BY <1>1, <1>3, RowFrame
<1>5. budget' \in [faults : 0..MaxFaults, lapses : 0..MaxLapses]
  <2>1. CASE Worked(r)
    BY <2>1, DurableConstants DEF IInv, TypeOK, Lapse
  <2>2. CASE ~Worked(r)
    BY <2>2 DEF IInv, TypeOK, Lapse
  <2> QED BY <2>1, <2>2
<1>6. TypeOK'
  BY <1>2, <1>5 DEF IInv, TypeOK, Lapse
<1> QED BY <1>4, <1>6, EnvironmentStep DEF Lapse

LEMMA ElapseOK ==
  ASSUME IInv, NEW r \in Runs, Elapse(r)
  PROVE  IInv'
<1>1. Grows
  BY DEF Grows, Elapse
<1>2. \A q \in Runs : ParkOK(q)' /\ ResultOK(q)'
  BY <1>1, RowFrame DEF Elapse
<1>3. ASSUME NEW k \in Steps, entries[r][AtPath(k)] # None
      PROVE  <<k, entries[r][AtPath(k)]>> \in Deadline
  <2>1. entries[r][AtPath(k)] \in Slots
    BY <1>3 DEF IInv, AuthorsOK
  <2>2. k \in 0..N
    BY DurableConstants DEF Steps
  <2> QED BY <2>1, <2>2 DEF Deadline, Author
<1>4. run[r].due \in Deadline \cup {None}
  BY DEF IInv, TypeOK, Row
<1>5. elapsed' \subseteq Runs \X Deadline
  <2>1. PICK d \in {run[r].due} \cup
                   {<<k, entries[r][AtPath(k)]>> : k \in {j \in Steps : entries[r][AtPath(j)] # None}} :
          d # None /\ elapsed' = elapsed \cup {<<r, d>>}
    BY DEF Elapse
  <2>2. d \in Deadline
    BY <1>3, <1>4, <2>1
  <2> QED BY <2>1, <2>2 DEF IInv, TypeOK
<1>6. TypeOK'
  BY <1>5 DEF IInv, TypeOK, Elapse
<1> QED BY <1>1, <1>2, <1>6, EnvironmentStep DEF Elapse, Grows

LEMMA CrashOK ==
  ASSUME IInv, NEW host \in Hosts, Crash(host)
  PROVE  IInv'
<1> DEFINE dead == {HolderOf[x] : x \in {y \in Slots : HostOf[y] = host}}
           Now(h) == IF h \in dead THEN Gone ELSE h
<1>1. Grows
  BY DEF Grows, Crash
<1>2. /\ exec' = [x \in Slots |-> IF HostOf[x] = host THEN Idle ELSE exec[x]]
      /\ exec \in [Slots -> Exec]
  BY DEF Crash, IInv, TypeOK
<1>3. exec' \in [Slots -> Exec]
  BY <1>2, IdleType
<1>4. ASSUME NEW x \in Slots PROVE SlotOK(x)' /\ AgreeOK(x)'
  <2>1. CASE HostOf[x] = host
    <3>1. exec'[x] = Idle
      BY <1>2, <2>1
    <3> QED BY <3>1, IdleType DEF SlotOK, AgreeOK, InBody, NothingSeen
  <2>2. CASE HostOf[x] # host
    <3>1. exec'[x] = exec[x] /\ UNCHANGED <<entries, elapsed, performed>>
      BY <1>2, <2>2 DEF Crash
    <3> QED BY <3>1 DEF IInv, SlotOK, AgreeOK, Pinned, TokenPinned, Passed
  <2> QED BY <2>1, <2>2
<1>5. run' = [r \in Runs |-> [run[r] EXCEPT !.holder = Now(run[r].holder)]]
  BY DEF Crash
<1>6. /\ run \in [Runs -> Row]
      /\ \A h \in Holders \cup {Gone, None} : Now(h) \in Holders \cup {Gone, None}
      /\ \A h \in Holders \cup {Gone} : Now(h) \in Holders \cup {Gone}
  BY DEF IInv, TypeOK
<1> HIDE DEF Now
<1>7. run' \in [Runs -> Row]
  BY <1>5, <1>6, SMTT(30) DEF Row
<1>8. ASSUME NEW q \in Runs
      PROVE  /\ run'[q].status = run[q].status /\ run'[q].parked = run[q].parked
             /\ run'[q].token = run[q].token /\ run'[q].due = run[q].due
             /\ run'[q].result = run[q].result
  BY <1>5, <1>6 DEF Row
<1>9. \A q \in Runs : ParkOK(q)' /\ ResultOK(q)'
  BY <1>1, <1>8, RowFrame
<1>10. renewals' \subseteq Runs \X (Holders \cup {Gone})
  <2>1. renewals' = {<<m[1], Now(m[2])>> : m \in renewals}
    BY DEF Crash, Now
  <2>2. renewals \subseteq Runs \X (Holders \cup {Gone})
    BY DEF IInv, TypeOK
  <2> QED BY <1>6, <2>1, <2>2
<1>11. budget' \in [faults : 0..MaxFaults, lapses : 0..MaxLapses]
  BY DurableConstants DEF IInv, TypeOK, Crash
<1>12. TypeOK'
  BY <1>3, <1>7, <1>10, <1>11 DEF IInv, TypeOK, Crash
<1>13. \A c \in Clients : CallOK(c)'
  BY <1>1, CallFrame DEF Crash
<1>14. \A r \in Runs, j \in Steps : EntryOK(r, j)'
  BY <1>1, EntryFrame DEF Crash
<1>15. AuthorsOK'
  BY DEF IInv, AuthorsOK, Crash
<1> QED BY <1>4, <1>9, <1>12, <1>13, <1>14, <1>15 DEF IInv

-----------------------------------------------------------------------------
(* The addressing calls. *)

\* A step of one call that leaves the entries alone.
LEMMA CallStep ==
  ASSUME IInv, TypeOK', NEW c \in Clients,
         \A d \in Clients \ {c} : client'[d] = client[d],
         UNCHANGED <<entries, exec, elapsed, performed>>,
         \A r \in Runs : ParkOK(r)' /\ ResultOK(r)',
         CallOK(c)'
  PROVE  IInv'
<1>1. Grows
  BY DEF Grows
<1>2. \A x \in Slots : SlotOK(x)' /\ AgreeOK(x)'
  BY DEF IInv, SlotOK, AgreeOK, Pinned, TokenPinned, Passed
<1>3. \A d \in Clients : CallOK(d)'
  BY <1>1, CallFrame
<1>4. \A r \in Runs, k \in Steps : EntryOK(r, k)'
  BY <1>1, EntryFrame
<1>5. AuthorsOK'
  BY DEF IInv, AuthorsOK
<1> QED BY <1>2, <1>3, <1>4, <1>5 DEF IInv

LEMMA EnterType ==
  ASSUME IInv, NEW c \in Clients, NEW r \in Runs, NEW k \in 0..N,
         NEW op \in {"deliver", "unpark", "cancel", "override"}, Enter(c, op, r, k)
  PROVE  /\ client' \in [Clients -> Call]
         /\ \A d \in Clients \ {c} : client'[d] = client[d]
         /\ client'[c].op = op /\ client'[c].run = r /\ client'[c].at = k
<1>1. client \in [Clients -> Call]
  BY DEF IInv, TypeOK
<1> QED BY <1>1 DEF Enter, Call

LEMMA ReturnType ==
  ASSUME IInv, NEW c \in Clients, Return(c)
  PROVE  /\ client' \in [Clients -> Call]
         /\ \A d \in Clients \ {c} : client'[d] = client[d]
         /\ CallOK(c)'
<1>1. client \in [Clients -> Call] /\ 0 \in 0..N
  BY DurableConstants DEF IInv, TypeOK
<1>2. NoCall \in Call
  BY <1>1 DEF NoCall, Call
<1>3. PICK n \in Call : n = NoCall
  BY <1>2
<1>4. client' = [client EXCEPT ![c] = [n EXCEPT !.op = "done"]]
  BY <1>3 DEF Return
<1>5. [n EXCEPT !.op = "done"] \in Call /\ [n EXCEPT !.op = "done"].op = "done"
  BY <1>3 DEF Call
<1>6. PICK m \in Call : m = [n EXCEPT !.op = "done"] /\ m.op = "done"
  BY <1>5
<1>7. client' = [client EXCEPT ![c] = m]
  BY <1>4, <1>6
<1>8. client'[c].op = "done"
  BY <1>1, <1>6, <1>7
<1>9. /\ client' \in [Clients -> Call]
      /\ \A d \in Clients \ {c} : client'[d] = client[d]
  BY <1>1, <1>7
<1> QED BY <1>8, <1>9 DEF CallOK

\* A call that reads a row and remembers the run.
LEMMA ReadCallOK ==
  ASSUME IInv, NEW c \in Clients, NEW r \in Runs, NEW op \in {"cancel", "override"},
         Enter(c, op, r, 0),
         UNCHANGED <<run, entries, exec, renewals, elapsed, performed, budget>>
  PROVE  IInv'
<1>1. 0 \in 0..N
  BY DurableConstants
<1>2. /\ client' \in [Clients -> Call]
      /\ \A d \in Clients \ {c} : client'[d] = client[d]
      /\ client'[c].op = op /\ client'[c].run = r
  BY <1>1, EnterType
<1>3. CallOK(c)'
  BY <1>2 DEF CallOK
<1>4. TypeOK'
  BY <1>2 DEF IInv, TypeOK
<1>5. \A q \in Runs : ParkOK(q)' /\ ResultOK(q)'
  BY RowFrame DEF Grows
<1> QED BY <1>2, <1>3, <1>4, <1>5, CallStep

LEMMA DeliverFindOK ==
  ASSUME IInv, NEW c \in Clients, NEW r \in Runs, DeliverFind(c, r)
  PROVE  IInv'
<1>1. PICK k \in Steps : k = run[r].parked
  BY DEF DeliverFind, IInv, ParkOK
<1>2. k \in 0..N /\ Enter(c, "deliver", r, k)
  BY <1>1, DurableConstants DEF DeliverFind, Steps
<1>3. /\ client' \in [Clients -> Call]
      /\ \A d \in Clients \ {c} : client'[d] = client[d]
      /\ client'[c].op = "deliver" /\ client'[c].run = r /\ client'[c].at = k
  BY <1>2, EnterType
<1>4. Body[k] \in {"await", "awaitTimeout"} /\ ReachedOK(r, k)
  BY <1>1 DEF DeliverFind, IInv, ParkOK, Waits
<1>5. CallOK(c)'
  BY <1>3, <1>4 DEF CallOK, ReachedOK, DeliverFind
<1>6. TypeOK'
  BY <1>3 DEF IInv, TypeOK, DeliverFind
<1>7. \A q \in Runs : ParkOK(q)' /\ ResultOK(q)'
  BY RowFrame DEF Grows, DeliverFind
<1> QED BY <1>3, <1>5, <1>6, <1>7, CallStep DEF DeliverFind

\* A call that appends an entry.
LEMMA AppendCallOK ==
  ASSUME IInv, NEW c \in Clients, NEW r \in Runs, NEW p \in Path,
         Append(r, p, c), WriteAllowed(r, p, c), Enter(c, "unpark", r, 0),
         UNCHANGED <<run, exec, renewals, elapsed, performed, budget>>
  PROVE  IInv'
<1>1. c \in Value /\ 0 \in 0..N
  BY DurableConstants DEF Value, Author
<1>2. Grows /\ entries' \in [Runs -> [Path -> Value \cup {None}]]
  BY <1>1, AppendGrows
<1>3. AuthorsOK' /\ \A q \in Runs, k \in Steps : EntryOK(q, k)'
  BY <1>1, AppendOK
<1>4. /\ client' \in [Clients -> Call]
      /\ \A d \in Clients \ {c} : client'[d] = client[d]
      /\ client'[c].op = "unpark" /\ client'[c].run = r
  BY <1>1, EnterType
<1>5. CallOK(c)'
  BY <1>4 DEF CallOK
<1>6. \A d \in Clients : CallOK(d)'
  BY <1>2, <1>4, <1>5, CallFrame
<1>7. TypeOK'
  BY <1>2, <1>4 DEF IInv, TypeOK
<1>8. \A q \in Runs : ParkOK(q)' /\ ResultOK(q)'
  BY <1>2, RowFrame
<1>9. ASSUME NEW x \in Slots PROVE SlotOK(x)' /\ AgreeOK(x)'
  <2>1. SlotOK(x)'
    BY DEF IInv, SlotOK, Pinned, TokenPinned, Passed
  <2>2. AgreeOK(x)'
    BY <1>2 DEF IInv, AgreeOK, Grows
  <2> QED BY <2>1, <2>2
<1> QED BY <1>3, <1>6, <1>7, <1>8, <1>9 DEF IInv

LEMMA DeliverAppendOK ==
  ASSUME IInv, NEW c \in Clients, DeliverAppend(c)
  PROVE  IInv'
<1>1. PICK r \in Runs, k \in Steps : r = client[c].run /\ k = client[c].at
  BY DEF DeliverAppend, IInv, CallOK
<1>2. Body[k] \in {"await", "awaitTimeout"} /\ ReachedOK(r, k)
  BY <1>1 DEF DeliverAppend, IInv, CallOK
<1>3. WriteAllowed(r, OwnPath(k), c)
  <2> SUFFICES ASSUME NEW j \in Steps
               PROVE  /\ OwnPath(k) # TokenPath(j) /\ OwnPath(k) # AtPath(j)
                      /\ OwnPath(k) = OwnPath(j) => j = k
    BY <1>2 DEF WriteAllowed, Author
  <2> QED BY PathsDiffer
<1> QED BY <1>1, <1>3, Paths, AppendCallOK DEF DeliverAppend

LEMMA OverrideAppendOK ==
  ASSUME IInv, NEW c \in Clients, OverrideAppend(c)
  PROVE  IInv'
<1>1. client[c].run \in Runs
  BY DEF OverrideAppend, IInv, CallOK
<1>2. WriteAllowed(client[c].run, OverridePath, c)
  BY PathsDiffer DEF WriteAllowed
<1> QED BY <1>1, <1>2, Paths, AppendCallOK DEF OverrideAppend

\* A call that ends, with or without changing a row.
LEMMA ReturnOK ==
  ASSUME IInv, NEW c \in Clients, Return(c),
         UNCHANGED <<entries, exec, renewals, elapsed, performed, budget>>,
         run' \in [Runs -> Row], \A r \in Runs : ParkOK(r)' /\ ResultOK(r)'
  PROVE  IInv'
<1>1. TypeOK'
  BY ReturnType DEF IInv, TypeOK
<1> QED BY <1>1, ReturnType, CallStep

LEMMA UnparkOK ==
  ASSUME IInv, NEW c \in Clients, Unpark(c)
  PROVE  IInv'
<1>1. Grows /\ run \in [Runs -> Row] /\ client[c].run \in Runs
  BY DEF Grows, Unpark, IInv, TypeOK, CallOK
<1>2. PICK r \in Runs : r = client[c].run
  BY <1>1
<1>3. CASE run[r].status = "parked"
  <2>1. PICK w \in Row : w = run[r]
    BY <1>1
  <2>2. w.status = "parked"
    BY <1>3, <2>1
  <2>3. run' = [run EXCEPT ![r] = IF run[r].status = "parked"
                                  THEN [run[r] EXCEPT !.status = "running", !.parked = 0,
                                                      !.token = None, !.due = None]
                                  ELSE run[r]]
    BY <1>2, Zenon DEF Unpark, UnparkRun
  <2>4. run' = [run EXCEPT ![r] = [w EXCEPT !.status = "running", !.parked = 0,
                                            !.token = None, !.due = None]]
    BY <2>1, <2>2, <2>3
  <2>5. 0 \in 0..N /\ "running" \in RunStatus
    BY DurableConstants DEF RunStatus
  <2>6. /\ run' \in [Runs -> Row] /\ run'[r].status = "running"
        /\ \A q \in Runs \ {r} : run'[q] = run[q]
    BY <1>1, <2>4, <2>5 DEF Row
  <2>7. \A q \in Runs : ParkOK(q)' /\ ResultOK(q)'
    BY <1>1, <2>6, RowFrame
  <2> QED BY <2>6, <2>7, ReturnOK DEF Unpark
<1>4. CASE run[r].status # "parked"
  <2>1. run' = run
    BY <1>1, <1>2, <1>4 DEF Unpark, UnparkRun
  <2>2. \A q \in Runs : ParkOK(q)' /\ ResultOK(q)'
    BY <1>1, <2>1, RowFrame
  <2> QED BY <1>1, <2>1, <2>2, ReturnOK DEF Unpark
<1> QED BY <1>3, <1>4

LEMMA CancelWriteOK ==
  ASSUME IInv, NEW c \in Clients, CancelWrite(c)
  PROVE  IInv'
<1>1. Grows /\ client[c].run \in Runs /\ "cancelled" \in RunStatus
  BY DEF Grows, CancelWrite, IInv, CallOK, RunStatus
<1>2. /\ run' \in [Runs -> Row]
      /\ run'[client[c].run].status = "cancelled"
      /\ \A q \in Runs \ {client[c].run} : run'[q] = run[q]
  BY <1>1, CompleteRow DEF CancelWrite
<1>3. \A q \in Runs : ParkOK(q)' /\ ResultOK(q)'
  BY <1>1, <1>2, RowFrame
<1> QED BY <1>2, <1>3, ReturnOK DEF CancelWrite

LEMMA ScheduleOK ==
  ASSUME IInv, NEW c \in Clients, NEW r \in Runs, Schedule(c, r)
  PROVE  IInv'
<1>1. Grows /\ run \in [Runs -> Row]
  BY DEF Grows, Schedule, IInv, TypeOK
<1>2. <<0, c>> \in Deadline /\ "scheduled" \in RunStatus
  BY DurableConstants DEF Deadline, Author, RunStatus
<1>3. PICK row \in Row : row = [NoRun EXCEPT !.status = "scheduled", !.due = <<0, c>>,
                                             !.stored = TRUE]
  BY <1>2, NoRunType DEF Row
<1>4. row.status = "scheduled"
  BY <1>3, NoRunType DEF Row
<1>5. run' = [run EXCEPT ![r] = row]
  BY <1>3 DEF Schedule
<1>6. /\ run' \in [Runs -> Row] /\ run'[r].status = "scheduled"
      /\ \A q \in Runs \ {r} : run'[q] = run[q]
  BY <1>1, <1>4, <1>5
<1>7. \A q \in Runs : ParkOK(q)' /\ ResultOK(q)'
  BY <1>1, <1>6, RowFrame
<1> QED BY <1>6, <1>7, ReturnOK DEF Schedule

LEMMA AbandonOK ==
  ASSUME IInv, NEW c \in Clients, Abandon(c)
  PROVE  IInv'
<1>1. Grows /\ run' = run /\ run \in [Runs -> Row]
  BY DEF Grows, Abandon, IInv, TypeOK
<1>2. \A q \in Runs : ParkOK(q)' /\ ResultOK(q)'
  BY <1>1, RowFrame
<1> QED BY <1>1, <1>2, ReturnOK DEF Abandon
-----------------------------------------------------------------------------
(* The invariant and what follows from it. *)

\* Nothing is admitted, recorded or performed yet.
LEMMA InitOK == Init => IInv
<1> SUFFICES ASSUME Init PROVE IInv
  OBVIOUS
<1>1. 0 \in 0..N /\ N \in Nat /\ MaxFaults \in Nat /\ MaxLapses \in Nat
  BY DurableConstants
<1>2. NoCall \in Call
  BY <1>1 DEF NoCall, Call
<1>3. NothingSeen \in [Path -> Value \cup {None}] /\ \A p \in Path : NothingSeen[p] = None
  BY DEF NothingSeen
<1>4. TypeOK
  <2>1. run \in [Runs -> Row]
    BY NoRunType DEF Init
  <2>2. exec \in [Slots -> Exec]
    BY IdleType DEF Init
  <2>3. budget \in [faults : 0..MaxFaults, lapses : 0..MaxLapses]
    BY <1>1 DEF Init
  <2> QED BY <1>2, <1>3, <2>1, <2>2, <2>3 DEF Init, TypeOK
<1>5. AuthorsOK
  BY <1>3, Paths DEF Init, AuthorsOK
<1>6. \A x \in Slots : SlotOK(x) /\ AgreeOK(x)
  BY <1>3 DEF Init, Idle, SlotOK, AgreeOK, InBody
<1>7. \A c \in Clients : CallOK(c)
  BY DEF Init, NoCall, CallOK
<1>8. \A r \in Runs : ParkOK(r) /\ ResultOK(r)
  BY DEF Init, NoRun, ParkOK, ResultOK
<1>9. \A r \in Runs, k \in Steps : EntryOK(r, k)
  BY <1>3, Paths DEF Init, EntryOK
<1> QED BY <1>4, <1>5, <1>6, <1>7, <1>8, <1>9 DEF IInv

\* Whatever a slot does by itself.
LEMMA DriveOK ==
  ASSUME IInv, NEW x \in Slots, Drive(x)
  PROVE  IInv'
<1>1. CASE ReadExisting(x)  BY <1>1, ReadExistingOK
<1>2. CASE ClaimStart(x)    BY <1>2, ClaimStartOK
<1>3. CASE SweepNext(x)     BY <1>3, SweepNextOK
<1>4. CASE Load(x)          BY <1>4, LoadOK
<1>5. CASE Open(x)          BY <1>5, OpenOK
<1>6. CASE DecideInputs(x)  BY <1>6, DecideInputsOK
<1>7. CASE Replay(x)        BY <1>7, ReplayOK
<1>8. CASE PerformEffect(x) BY <1>8, PerformEffectOK
<1>9. CASE FailEffect(x)    BY <1>9, FailEffectOK
<1>10. CASE RecordStep(x)   BY <1>10, RecordStepOK
<1>11. CASE PinToken(x)     BY <1>11, PinTokenOK
<1>12. CASE PinDeadline(x)  BY <1>12, PinDeadlineOK
<1>13. CASE SleepDone(x)    BY <1>13, SleepDoneOK
<1>14. CASE AwaitTimeout(x) BY <1>14, AwaitTimeoutOK
<1>15. CASE DecideToPark(x) BY <1>15, DecideToParkOK
<1>16. CASE Park(x)         BY <1>16, ParkActionOK
<1>17. CASE SettleFailed(x) BY <1>17, SettleFailedOK
<1>18. CASE Complete(x)     BY <1>18, CompleteOK
<1> QED BY <1>1, <1>2, <1>3, <1>4, <1>5, <1>6, <1>7, <1>8, <1>9, <1>10,
           <1>11, <1>12, <1>13, <1>14, <1>15, <1>16, <1>17, <1>18 DEF Drive

\* Whatever a client's call does.
LEMMA AddressOK ==
  ASSUME IInv, NEW c \in Clients, Address(c)
  PROVE  IInv'
<1>1. ASSUME NEW r \in Runs, DeliverFind(c, r) PROVE IInv'
  BY <1>1, DeliverFindOK
<1>2. ASSUME NEW r \in Runs, CancelRead(c, r) PROVE IInv'
  BY <1>2, ReadCallOK DEF CancelRead
<1>3. ASSUME NEW r \in Runs, ResumeRead(c, r) PROVE IInv'
  BY <1>3, ReadCallOK DEF ResumeRead
<1>4. ASSUME NEW r \in Runs, Schedule(c, r) PROVE IInv'
  BY <1>4, ScheduleOK
<1>5. CASE DeliverAppend(c)  BY <1>5, DeliverAppendOK
<1>6. CASE Unpark(c)         BY <1>6, UnparkOK
<1>7. CASE CancelWrite(c)    BY <1>7, CancelWriteOK
<1>8. CASE OverrideAppend(c) BY <1>8, OverrideAppendOK
<1>9. CASE Abandon(c)        BY <1>9, AbandonOK
<1> QED BY <1>1, <1>2, <1>3, <1>4, <1>5, <1>6, <1>7, <1>8, <1>9 DEF Address

\* Every step of the system keeps the invariant.
LEMMA NextOK == IInv /\ [Next]_vars => IInv'
<1> SUFFICES ASSUME IInv, [Next]_vars PROVE IInv'
  OBVIOUS
<1>1. ASSUME NEW x \in Slots, NEW r \in Runs, AdmitRun(x, r) PROVE IInv'
  BY <1>1, AdmitRunOK
<1>2. ASSUME NEW x \in Slots, Sweep(x) PROVE IInv'
  BY <1>2, SweepOK
<1>3. ASSUME NEW x \in Slots, Drive(x) PROVE IInv'
  BY <1>3, DriveOK
<1>4. ASSUME NEW x \in Slots, Interrupt(x) PROVE IInv'
  BY <1>4, InterruptOK
<1>5. ASSUME NEW x \in Slots, FireRenewal(x) PROVE IInv'
  BY <1>5, FireRenewalOK
<1>6. ASSUME NEW r \in Runs, NEW h \in Holders \cup {Gone}, LandRenewal(r, h) PROVE IInv'
  BY <1>6, LandRenewalOK
<1>7. ASSUME NEW r \in Runs, Lapse(r) PROVE IInv'
  BY <1>7, LapseOK
<1>8. ASSUME NEW r \in Runs, Elapse(r) PROVE IInv'
  BY <1>8, ElapseOK
<1>9. ASSUME NEW host \in Hosts, Crash(host) PROVE IInv'
  BY <1>9, CrashOK
<1>10. ASSUME NEW c \in Clients, Address(c) PROVE IInv'
  BY <1>10, AddressOK
<1>11. ASSUME NEW x \in Slots, FailWrite(x) PROVE IInv'
  BY <1>11, FailWriteOK
<1>12. CASE UNCHANGED vars
  BY <1>12 DEF vars, IInv, TypeOK, AuthorsOK, SlotOK, AgreeOK, CallOK, ParkOK,
               ResultOK, EntryOK, ReachedOK, Passed, Pinned, TokenPinned
<1> QED BY <1>1, <1>2, <1>3, <1>4, <1>5, <1>6, <1>7, <1>8, <1>9, <1>10, <1>11,
           <1>12 DEF Next

\* The inductive invariant holds in every behaviour of the durable engine,
\* whatever crashes, lapses and addressing calls interleave.
THEOREM Invariant == Spec => []IInv
<1> QED BY InitOK, NextOK, PTL DEF Spec

\* Every row, entry and in-memory record keeps its type.
THEOREM TypeCorrect == Spec => []TypeOK
<1>1. IInv => TypeOK
  BY DEF IInv
<1> QED BY <1>1, Invariant, PTL

\* Executions racing on one run agree on every recorded value: #write returns
\* the value that won, so no body works with a value the journal does not hold.
THEOREM ReplayAgrees == Spec => []ReplayAgreement
<1>1. IInv => ReplayAgreement
  BY DEF IInv, AgreeOK, ReplayAgreement
<1> QED BY <1>1, Invariant, PTL

\* An effect is journaled only by an execution that performed it.
THEOREM JournaledOnCompletion == Spec => []JournalOnCompletion
<1>1. IInv => JournalOnCompletion
  BY DEF IInv, EntryOK, JournalOnCompletion
<1> QED BY <1>1, Invariant, PTL

\* Steps are journaled in the order of the body, by executions and deliveries.
THEOREM InOrder == Spec => []RecordedInOrder
<1>1. IInv => RecordedInOrder
  BY DEF IInv, EntryOK, ReachedOK, RecordedInOrder
<1> QED BY <1>1, Invariant, PTL

\* A completed run's stored result is what its journal recorded.
THEOREM ResultFromJournal == Spec => []ResultIsJournal
<1>1. IInv => ResultIsJournal
  BY DEF IInv, ResultOK, ResultIsJournal
<1> QED BY <1>1, Invariant, PTL

\* A parked run waits on exactly its journaled token and deadline.
THEOREM ParkedOnPinned == Spec => []ParkIsPinned
<1>1. IInv => ParkIsPinned
  BY DEF IInv, ParkOK, ParkIsPinned
<1> QED BY <1>1, Invariant, PTL

\* A wait no body swallows ends by its deadline or by a delivery, never by a
\* replay, a race or a crash.
THEOREM HonouredWaits == Spec => []WaitsAreHonoured
<1>1. IInv => WaitsAreHonoured
  BY DEF IInv, EntryOK, WaitsAreHonoured
<1> QED BY <1>1, Invariant, PTL

-----------------------------------------------------------------------------
(* What the claim protects.  ClaimsProtect is not inductive either: that two  *)
(* slots never act on one run follows from the row naming its one worker      *)
(* (HeldOK), that no effect is repeated from a body having read everything    *)
(* that is recorded (CurrentOK, DoneOK), that a completed run stays so from   *)
(* its body having nothing left to do (FinalOK), and that no body runs on     *)
(* empty inputs from the start keeping its claim until it pinned what its     *)
(* caller sent (PinnedOK).                                                    *)

Started(r) == run[r].status # "none"
\* The slot acts on the claim of its run.
Acting(x) == exec[x].st \in Owning \cup {"admitted"}
Calm == budget.faults = 0 /\ budget.lapses = 0

RowOK(r) ==
  /\ ~Started(r) => run[r].holder = None
  /\ run[r].status = "completed" => run[r].result \in [Steps -> Value \cup {None}]

\* A start carries what its caller sent, a resumer what the row stored, and a
\* body past its first decision has its inputs in the journal.
OriginOK(x) ==
  /\ exec[x].st \notin {"idle", "sweep"} => Started(exec[x].run)
  /\ \A r \in exec[x].batch : Started(r)
  /\ x \in Starters =>
       /\ exec[x].batch = {} /\ exec[x].st \notin {"sweep", "load"}
       /\ exec[x].st # "idle" => exec[x].inputs = "caller"
  /\ x \in Resumers =>
       /\ exec[x].st \notin {"admitted", "exists", "attach"}
       /\ exec[x].st \in {"open"} \cup InBody =>
            exec[x].inputs = IF run[exec[x].run].stored THEN "stored" ELSE "empty"
  /\ exec[x].st \in InBody \ {"inputs"} => entries[exec[x].run][InputsPath] # None

HeldOK(x) ==
  Acting(x) => run[exec[x].run].holder = HolderOf[x] /\ run[exec[x].run].live

\* What a body has not read is not recorded.
CurrentOK(x) ==
  \A k \in Steps :
    exec[x].st \in InBody /\ Body[k] = "effect" /\ exec[x].seen[OwnPath(k)] = None
      => entries[exec[x].run][OwnPath(k)] = None

\* A body that runs on a completed run has nothing left but to replay it.
FinalOK(x) ==
  exec[x].st \in InBody /\ run[exec[x].run].status = "completed" =>
    /\ exec[x].st \in {"inputs", "step"}
    /\ \A k \in Steps : exec[x].seen[OwnPath(k)] # None

\* An effect that was performed is recorded or about to be, and by nobody else.
DoneOK(r, k, x) ==
  <<r, k, x>> \in performed =>
    /\ \/ entries[r][OwnPath(k)] # None
       \/ exec[x].st = "record" /\ exec[x].run = r /\ exec[x].at = k
    /\ \A y \in Slots : <<r, k, y>> \in performed => x = y

Unpinned(r) == Started(r) /\ ~run[r].stored /\ entries[r][InputsPath] = None
\* The start that will pin the inputs of r, with the claim still its own.
Minding(w, r) ==
  /\ exec[w].run = r /\ exec[w].st \in {"admitted", "open", "inputs"}
  /\ run[r].holder = HolderOf[w] /\ run[r].live
\* The resumer is about to work on r, or to pin its inputs.
Eyeing(x, r) ==
  \/ r \in exec[x].batch
  \/ exec[x].run = r /\ exec[x].st \in {"load", "open", "inputs"}
PinnedOK(r) ==
  /\ entries[r][InputsPath] # "empty"
  /\ Unpinned(r) =>
       /\ \A x \in Resumers : ~Eyeing(x, r)
       /\ \/ run[r].status = "cancelled"
          \/ run[r].status = "running" /\ \E w \in Starters : Minding(w, r)

CInv ==
  /\ \A r \in Runs : RowOK(r)
  /\ \A x \in Slots : OriginOK(x)
  /\ \A r \in Runs, h \in Holders \cup {Gone} : <<r, h>> \in renewals => Started(r)
  /\ \A c \in Clients : client[c].op = "cancel" => "cancel" \in Ops
  /\ ClaimsHold => \A x \in Slots : HeldOK(x) /\ CurrentOK(x) /\ FinalOK(x)
  /\ ClaimsHold /\ budget.faults = 0 =>
       \A r \in Runs, k \in Steps, x \in Slots : DoneOK(r, k, x)
  /\ Calm => \A r \in Runs : PinnedOK(r)

-----------------------------------------------------------------------------
(* Frames. *)

\* What no step undoes.
Steady ==
  /\ Grows
  /\ \A r \in Runs : Started(r) => Started(r)' /\ run'[r].stored = run[r].stored
  /\ budget'.lapses = 0 => budget.lapses = 0
  /\ budget'.faults = 0 => budget.faults = 0

Others(x) == \A y \in Slots \ {x} : exec'[y] = exec[y]

\* What a step must leave of a run that another slot is acting on.
Kept(r) ==
  /\ run'[r].holder = run[r].holder /\ run'[r].live = run[r].live
  /\ run'[r].status = "completed" => run[r].status = "completed"
  /\ \A k \in Steps : Body[k] = "effect" /\ entries[r][OwnPath(k)] = None
                        => entries'[r][OwnPath(k)] = None

LEMMA BodyActs ==
  /\ InBody \subseteq Owning
  /\ \A x \in Slots : exec[x].st \in Owning => Acting(x)
BY DEF Owning, Acting

LEMMA StillHold ==
  ASSUME Steady
  PROVE  /\ ClaimsHold' => ClaimsHold
         /\ Calm' => Calm
BY DEF Steady, ClaimsHold, Calm

LEMMA OriginFrame ==
  ASSUME IInv, CInv, Steady, NEW y \in Slots, exec'[y] = exec[y]
  PROVE  OriginOK(y)'
<1>1. OriginOK(y) /\ SlotOK(y) /\ exec[y].batch \subseteq Runs
  BY DEF CInv, IInv, TypeOK, Exec
<1>2. exec[y].st \notin {"idle", "sweep"} =>
        /\ exec[y].run \in Runs
        /\ Started(exec[y].run)' /\ run'[exec[y].run].stored = run[exec[y].run].stored
  BY <1>1 DEF OriginOK, SlotOK, Steady
<1>3. \A r \in exec[y].batch : Started(r)'
  BY <1>1 DEF OriginOK, Steady
<1>4. exec[y].st \in InBody \ {"inputs"} => entries'[exec[y].run][InputsPath] # None
  <2> SUFFICES ASSUME exec[y].st \in InBody \ {"inputs"}
               PROVE  entries'[exec[y].run][InputsPath] # None
    OBVIOUS
  <2>1. exec[y].run \in Runs /\ entries[exec[y].run][InputsPath] # None
    BY <1>1 DEF OriginOK, SlotOK, InBody
  <2> QED BY <2>1, Paths DEF Steady, Grows
<1> QED BY <1>1, <1>2, <1>3, <1>4 DEF OriginOK, InBody

LEMMA KeptFrame ==
  ASSUME IInv, CInv, ClaimsHold, NEW y \in Slots, exec'[y] = exec[y],
         Acting(y) => Kept(exec[y].run)
  PROVE  HeldOK(y)' /\ CurrentOK(y)' /\ FinalOK(y)'
<1>1. HeldOK(y) /\ CurrentOK(y) /\ FinalOK(y)
  BY DEF CInv
<1>2. CASE ~Acting(y)
  BY <1>2, BodyActs DEF HeldOK, CurrentOK, FinalOK, Acting
<1>3. CASE Acting(y)
  <2>1. HeldOK(y)'
    BY <1>1, <1>3 DEF HeldOK, Acting, Kept
  <2>2. CurrentOK(y)'
    BY <1>1, <1>3 DEF CurrentOK, Kept
  <2>3. FinalOK(y)'
    BY <1>1, <1>3 DEF FinalOK, Kept
  <2> QED BY <2>1, <2>2, <2>3
<1> QED BY <1>2, <1>3

\* The row names the one slot that acts on it.
LEMMA AloneOK ==
  ASSUME CInv, ClaimsHold, NEW x \in Slots, NEW y \in Slots,
         Acting(x), Acting(y), exec[x].run = exec[y].run
  PROVE  x = y
BY DEF CInv, HeldOK, ClaimsHold

LEMMA PinnedFrame ==
  ASSUME CInv, Steady, Calm', NEW r \in Runs,
         entries'[r][InputsPath] = entries[r][InputsPath],
         Started(r)' => Started(r),
         Unpinned(r) =>
           /\ \A x \in Resumers : Eyeing(x, r)' => Eyeing(x, r)
           /\ \/ run'[r].status = "cancelled"
              \/ run'[r].status = run[r].status /\ \A w \in Starters : Minding(w, r) => Minding(w, r)'
  PROVE  PinnedOK(r)'
<1>1. PinnedOK(r)
  BY StillHold DEF CInv
<1>2. Unpinned(r)' => Unpinned(r)
  BY DEF Unpinned, Steady
<1> QED BY <1>1, <1>2 DEF PinnedOK

\* The same for a run whose inputs are in the journal already.
LEMMA PinnedDone ==
  ASSUME CInv, Steady, Calm', NEW r \in Runs, IInv, entries[r][InputsPath] # None
  PROVE  PinnedOK(r)'
<1>1. PinnedOK(r)
  BY StillHold DEF CInv
<1>2. entries'[r][InputsPath] = entries[r][InputsPath]
  BY Paths DEF Steady, Grows
<1> QED BY <1>1, <1>2 DEF PinnedOK, Unpinned

\* A step of one slot.
LEMMA SlotStepC ==
  ASSUME IInv, CInv, Steady, NEW x \in Slots, Others(x), UNCHANGED client,
         \A r \in Runs : RowOK(r)',
         \A r \in Runs, h \in Holders \cup {Gone} : <<r, h>> \in renewals' => Started(r)',
         OriginOK(x)',
         ClaimsHold' => HeldOK(x)' /\ CurrentOK(x)' /\ FinalOK(x)',
         ClaimsHold => \A y \in Slots \ {x} : Acting(y) => Kept(exec[y].run),
         ClaimsHold' /\ budget'.faults = 0 =>
           \A r \in Runs, k \in Steps, z \in Slots : DoneOK(r, k, z)',
         Calm' => \A r \in Runs : PinnedOK(r)'
  PROVE  CInv'
<1>1. \A y \in Slots : OriginOK(y)'
  BY OriginFrame DEF Others
<1>2. \A c \in Clients : client'[c].op = "cancel" => "cancel" \in Ops
  BY DEF CInv
<1>3. ClaimsHold' => \A y \in Slots : HeldOK(y)' /\ CurrentOK(y)' /\ FinalOK(y)'
  BY KeptFrame, StillHold DEF Others
<1> QED BY <1>1, <1>2, <1>3 DEF CInv

LEMMA DoneFrame ==
  ASSUME IInv, CInv, Grows, ClaimsHold, budget.faults = 0, performed' = performed,
         \A z \in Slots : exec[z].st = "record" =>
           \/ exec'[z] = exec[z]
           \/ entries'[exec[z].run][OwnPath(exec[z].at)] # None
  PROVE  \A r \in Runs, k \in Steps, z \in Slots : DoneOK(r, k, z)'
<1> SUFFICES ASSUME NEW r \in Runs, NEW k \in Steps, NEW z \in Slots, <<r, k, z>> \in performed
             PROVE  DoneOK(r, k, z)'
  BY DEF DoneOK
<1>1. DoneOK(r, k, z)
  BY DEF CInv
<1>2. \A y \in Slots : <<r, k, y>> \in performed' => z = y
  BY <1>1 DEF DoneOK
<1>3. CASE entries[r][OwnPath(k)] # None
  <2>1. entries'[r][OwnPath(k)] # None
    BY <1>3, Paths DEF Grows
  <2> QED BY <1>2, <2>1 DEF DoneOK
<1>4. CASE exec[z].st = "record" /\ exec[z].run = r /\ exec[z].at = k
  <2>1. \/ exec'[z].st = "record" /\ exec'[z].run = r /\ exec'[z].at = k
        \/ entries'[r][OwnPath(k)] # None
    BY <1>4
  <2> QED BY <1>2, <2>1 DEF DoneOK
<1> QED BY <1>1, <1>3, <1>4 DEF DoneOK

-----------------------------------------------------------------------------
(* A slot that goes on with the run it acts on. *)

Goes(x) ==
  /\ exec[x].st \in Owning /\ exec'[x].st \in Owning
  /\ exec'[x].run = exec[x].run /\ exec'[x].batch = exec[x].batch
  /\ Others(x)
  /\ UNCHANGED <<run, client, renewals>>
  /\ \A q \in Runs, p \in Path : q # exec[x].run => entries'[q][p] = entries[q][p]
  /\ Steady

LEMMA RowsFrame ==
  ASSUME CInv, UNCHANGED run
  PROVE  \A r \in Runs : RowOK(r)'
BY DEF CInv, RowOK, Started

LEMMA RenewalsFrame ==
  ASSUME CInv, Steady, renewals' \subseteq renewals
  PROVE  \A r \in Runs, h \in Holders \cup {Gone} : <<r, h>> \in renewals' => Started(r)'
BY DEF CInv, Steady

LEMMA GoesOK ==
  ASSUME IInv, CInv, NEW x \in Slots, Goes(x), OriginOK(x)',
         ClaimsHold' => CurrentOK(x)' /\ FinalOK(x)',
         ClaimsHold' /\ budget'.faults = 0 =>
           \A r \in Runs, k \in Steps, z \in Slots : DoneOK(r, k, z)',
         Calm' => \A r \in Runs : PinnedOK(r)'
  PROVE  CInv'
<1>1. Acting(x) /\ exec[x].run \in Runs
  BY DEF Goes, Acting, IInv, SlotOK, Owning, InBody
<1>2. ClaimsHold' => HeldOK(x)'
  BY <1>1, StillHold DEF CInv, Goes, HeldOK, Acting
<1>3. ASSUME ClaimsHold, NEW y \in Slots \ {x}, Acting(y)
      PROVE  Kept(exec[y].run)
  <2>1. exec[y].run # exec[x].run
    BY <1>1, <1>3, AloneOK
  <2>2. exec[y].run \in Runs
    BY <1>3 DEF IInv, SlotOK, Acting, Owning, InBody
  <2> QED BY <2>1, <2>2, Paths DEF Kept, Goes
<1>4. \A r \in Runs : RowOK(r)'
  BY RowsFrame DEF Goes
<1>5. \A r \in Runs, h \in Holders \cup {Gone} : <<r, h>> \in renewals' => Started(r)'
  BY RenewalsFrame DEF Goes
<1>6. Steady /\ Others(x) /\ UNCHANGED client
  BY DEF Goes
<1> QED BY <1>2, <1>3, <1>4, <1>5, <1>6, SlotStepC

\* A body that goes on keeps the origin of its inputs.
LEMMA DrivesOrigin ==
  ASSUME IInv, CInv, NEW x \in Slots, Goes(x),
         exec[x].st \in {"open"} \cup InBody, exec'[x].st \in InBody,
         exec'[x].inputs = exec[x].inputs,
         exec'[x].st # "inputs" => entries'[exec[x].run][InputsPath] # None
  PROVE  OriginOK(x)'
<1>1. OriginOK(x) /\ exec[x].run \in Runs
  BY DEF CInv, IInv, SlotOK, InBody
<1>2. Started(exec[x].run) /\ \A r \in exec[x].batch : Started(r)
  BY <1>1 DEF OriginOK, InBody
<1>3. Started(exec[x].run)' /\ \A r \in exec'[x].batch : Started(r)'
  BY <1>2 DEF Goes, Started
<1>4. exec'[x].st \notin {"idle", "sweep", "load", "admitted", "exists", "attach"}
  BY DEF InBody
<1>5. exec[x].st \notin {"idle", "sweep"}
  BY DEF InBody
<1> QED BY <1>1, <1>3, <1>4, <1>5 DEF OriginOK, Goes

\* A turn of the body that writes nothing.
Turns(x) ==
  /\ Goes(x)
  /\ exec[x].st \in {"step", "record", "parking"}
  /\ exec'[x].st \in {"step", "record", "parking", "failing"}
  /\ exec'[x].inputs = exec[x].inputs /\ exec'[x].seen = exec[x].seen
  /\ UNCHANGED <<entries, performed>>
  /\ exec[x].st = "record" => budget'.faults # 0
  /\ exec[x].st = "step" /\ exec'[x].st # "step" =>
       \E k \in Steps : exec[x].seen[OwnPath(k)] = None

LEMMA PinnedPast ==
  ASSUME IInv, CInv, Steady, Calm', NEW x \in Slots, Others(x),
         exec[x].st \in InBody \ {"inputs"}, UNCHANGED <<run, entries>>,
         exec'[x].run = exec[x].run, exec'[x].batch = exec[x].batch
  PROVE  \A r \in Runs : PinnedOK(r)'
<1> SUFFICES ASSUME NEW r \in Runs PROVE PinnedOK(r)'
  OBVIOUS
<1>1. CASE r = exec[x].run
  BY <1>1, PinnedDone DEF CInv, OriginOK
<1>2. CASE r # exec[x].run
  <2>1. \A y \in Slots : Eyeing(y, r)' => Eyeing(y, r)
    BY <1>2 DEF Eyeing, Others
  <2>2. \A w \in Slots : Minding(w, r) => Minding(w, r)'
    BY <1>2 DEF Minding, Others
  <2>3. run'[r] = run[r] /\ entries'[r] = entries[r]
    OBVIOUS
  <2> QED BY <2>1, <2>2, <2>3, PinnedFrame DEF Slots, Started
<1> QED BY <1>1, <1>2

LEMMA TurnsOK ==
  ASSUME IInv, CInv, NEW x \in Slots, Turns(x)
  PROVE  CInv'
<1>1. /\ Goes(x) /\ exec[x].st \in InBody \ {"inputs"} /\ exec'[x].st \in InBody
      /\ UNCHANGED <<run, entries, performed>> /\ Steady /\ Others(x)
  BY DEF Turns, Goes, InBody
<1>2. OriginOK(x)'
  <2>1. entries'[exec[x].run][InputsPath] # None
    BY <1>1 DEF CInv, OriginOK
  <2> QED BY <1>1, <2>1, DrivesOrigin DEF Turns
<1>3. ASSUME ClaimsHold' PROVE CurrentOK(x)' /\ FinalOK(x)'
  <2>1. CurrentOK(x) /\ FinalOK(x)
    BY <1>1, <1>3, StillHold DEF CInv
  <2>2. CurrentOK(x)'
    BY <1>1, <2>1 DEF CurrentOK, Turns, Goes
  <2>3. FinalOK(x)'
    <3>1. exec'[x].run = exec[x].run /\ run' = run /\ exec'[x].seen = exec[x].seen
      BY DEF Turns, Goes
    <3>2. ASSUME run[exec[x].run].status = "completed"
          PROVE  exec'[x].st = "step" /\ \A k \in Steps : exec[x].seen[OwnPath(k)] # None
      BY <1>1, <2>1, <3>2 DEF FinalOK, Turns
    <3> QED BY <3>1, <3>2 DEF FinalOK
  <2> QED BY <2>2, <2>3
<1>4. ASSUME ClaimsHold', budget'.faults = 0
      PROVE  \A r \in Runs, k \in Steps, z \in Slots : DoneOK(r, k, z)'
  <2>1. ClaimsHold /\ budget.faults = 0 /\ Grows
    BY <1>1, <1>4, StillHold DEF Steady
  <2>2. \A z \in Slots : exec[z].st = "record" => exec'[z] = exec[z]
    BY <1>1, <1>4 DEF Turns, Others
  <2> QED BY <1>1, <2>1, <2>2, DoneFrame
<1>5. ASSUME Calm' PROVE \A r \in Runs : PinnedOK(r)'
  BY <1>1, <1>5, PinnedPast DEF Goes
<1> QED BY <1>1, <1>2, <1>3, <1>4, <1>5, GoesOK

LEMMA SteadyStill ==
  ASSUME UNCHANGED <<run, entries>>, elapsed \subseteq elapsed', performed \subseteq performed',
         IInv,
         UNCHANGED budget \/ budget' = [budget EXCEPT !.faults = budget.faults + 1]
  PROVE  Steady
<1>1. Grows
  BY DEF Grows
<1>2. budget \in [faults : 0..MaxFaults, lapses : 0..MaxLapses] /\ budget.faults \in Nat
  BY DurableConstants DEF IInv, TypeOK
<1>3. /\ budget'.lapses = 0 => budget.lapses = 0
      /\ budget'.faults = 0 => budget.faults = 0
  BY <1>2
<1>4. \A r \in Runs : Started(r) => Started(r)' /\ run'[r].stored = run[r].stored
  BY DEF Started
<1> QED BY <1>1, <1>3, <1>4 DEF Steady

LEMMA BecomeStays ==
  ASSUME IInv, NEW x \in Slots, NEW st \in ExecState, Become(x, st)
  PROVE  /\ Others(x)
         /\ exec'[x].st = st /\ exec'[x].run = exec[x].run /\ exec'[x].at = exec[x].at
         /\ exec'[x].seen = exec[x].seen /\ exec'[x].batch = exec[x].batch
         /\ exec'[x].inputs = exec[x].inputs
BY DEF IInv, TypeOK, Become, Exec, Others

\* A body that takes another state of its turn.
LEMMA BecomeTurns ==
  ASSUME IInv, NEW x \in Slots, NEW st \in {"record", "parking", "failing"}, Become(x, st),
         UNCHANGED <<run, client, renewals, entries, elapsed, performed>>,
         UNCHANGED budget \/ budget' = [budget EXCEPT !.faults = budget.faults + 1],
         \/ Reaching(x, StepKinds)
         \/ exec[x].st \in {"record", "parking"} /\ budget' # budget
  PROVE  Turns(x)
<1>1. st \in ExecState /\ st \in Owning
  BY DEF ExecState, Owning, InBody
<1>2. /\ Others(x)
      /\ exec'[x].st = st /\ exec'[x].run = exec[x].run /\ exec'[x].at = exec[x].at
      /\ exec'[x].seen = exec[x].seen /\ exec'[x].batch = exec[x].batch
      /\ exec'[x].inputs = exec[x].inputs
  BY <1>1, BecomeStays
<1>3. Steady
  BY SteadyStill
<1>4. exec[x].st \in {"step", "record", "parking"}
  BY DEF Reaching
<1>5. Goes(x)
  BY <1>1, <1>2, <1>3, <1>4 DEF Goes, Owning, InBody
<1>6. exec[x].st = "record" => budget'.faults # 0
  <2>1. exec[x].st = "record" => budget' = [budget EXCEPT !.faults = budget.faults + 1]
    BY DEF Reaching
  <2>2. budget.faults \in Nat /\ budget \in [faults : 0..MaxFaults, lapses : 0..MaxLapses]
    BY DurableConstants DEF IInv, TypeOK
  <2> QED BY <2>1, <2>2
<1>7. exec[x].st = "step" => \E k \in Steps : exec[x].seen[OwnPath(k)] = None
  BY DEF Reaching
<1> QED BY <1>2, <1>4, <1>5, <1>6, <1>7 DEF Turns

LEMMA ReplayC ==
  ASSUME IInv, CInv, NEW x \in Slots, Replay(x)
  PROVE  CInv'
<1>1. /\ Others(x)
      /\ exec'[x].st = "step" /\ exec'[x].run = exec[x].run
      /\ exec'[x].seen = exec[x].seen /\ exec'[x].batch = exec[x].batch
      /\ exec'[x].inputs = exec[x].inputs
  BY DEF IInv, TypeOK, Replay, Exec, Others
<1>2. Steady
  BY SteadyStill DEF Replay
<1>3. Goes(x)
  BY <1>1, <1>2 DEF Goes, Replay, Owning, InBody
<1>4. Turns(x)
  BY <1>1, <1>3 DEF Turns, Replay
<1> QED BY <1>4, TurnsOK

LEMMA ReachingAny ==
  ASSUME IInv, NEW x \in Slots, NEW kinds, Reaching(x, kinds)
  PROVE  Reaching(x, StepKinds)
BY DurableConstants DEF Reaching

LEMMA FailEffectC ==
  ASSUME IInv, CInv, NEW x \in Slots, FailEffect(x)
  PROVE  CInv'
BY ReachingAny, BecomeTurns, TurnsOK DEF FailEffect

LEMMA SleepDoneC ==
  ASSUME IInv, CInv, NEW x \in Slots, SleepDone(x)
  PROVE  CInv'
BY ReachingAny, BecomeTurns, TurnsOK DEF SleepDone

LEMMA AwaitTimeoutC ==
  ASSUME IInv, CInv, NEW x \in Slots, AwaitTimeout(x)
  PROVE  CInv'
BY ReachingAny, BecomeTurns, TurnsOK DEF AwaitTimeout

LEMMA DecideToParkC ==
  ASSUME IInv, CInv, NEW x \in Slots, DecideToPark(x)
  PROVE  CInv'
BY ReachingAny, BecomeTurns, TurnsOK DEF DecideToPark

LEMMA FailWriteC ==
  ASSUME IInv, CInv, NEW x \in Slots, FailWrite(x)
  PROVE  CInv'
<1>1. budget' = [budget EXCEPT !.faults = budget.faults + 1] /\ budget' # budget
  <2>1. budget.faults \in Nat /\ budget \in [faults : 0..MaxFaults, lapses : 0..MaxLapses]
    BY DurableConstants DEF IInv, TypeOK
  <2> QED BY <2>1 DEF FailWrite
<1>2. Reaching(x, StepKinds) \/ exec[x].st \in {"record", "parking"}
  BY ReachingAny DEF FailWrite
<1>3. Turns(x)
  BY <1>1, <1>2, BecomeTurns DEF FailWrite
<1> QED BY <1>3, TurnsOK

\* Nobody else can have performed the effect: it would be recorded, and read.
LEMMA PerformEffectC ==
  ASSUME IInv, CInv, NEW x \in Slots, PerformEffect(x)
  PROVE  CInv'
<1>0. /\ exec[x].st = "step" /\ exec[x].at \in Steps /\ exec[x].run \in Runs
      /\ exec[x].seen[OwnPath(exec[x].at)] = None /\ Body[exec[x].at] = "effect"
      /\ "record" \in ExecState
  BY DEF PerformEffect, Reaching, IInv, SlotOK, ExecState, Owning, InBody
<1>1. /\ Others(x)
      /\ exec'[x].st = "record" /\ exec'[x].run = exec[x].run /\ exec'[x].at = exec[x].at
      /\ exec'[x].seen = exec[x].seen /\ exec'[x].batch = exec[x].batch
      /\ exec'[x].inputs = exec[x].inputs
  BY <1>0, BecomeStays DEF PerformEffect
<1>2. Steady
  BY SteadyStill DEF PerformEffect
<1>3. Goes(x)
  BY <1>0, <1>1, <1>2 DEF Goes, PerformEffect, Owning, InBody
<1>4. OriginOK(x)'
  <2>1. entries'[exec[x].run][InputsPath] # None
    BY <1>0 DEF CInv, OriginOK, PerformEffect, InBody
  <2> QED BY <1>0, <1>1, <1>3, <2>1, DrivesOrigin DEF InBody
<1>5. ASSUME ClaimsHold' PROVE CurrentOK(x)' /\ FinalOK(x)'
  <2>1. CurrentOK(x) /\ FinalOK(x)
    BY <1>2, <1>5, StillHold DEF CInv
  <2>2. CurrentOK(x)'
    BY <1>0, <1>1, <2>1 DEF CurrentOK, PerformEffect, InBody
  <2>3. run[exec[x].run].status # "completed"
    BY <1>0, <2>1 DEF FinalOK, InBody
  <2> QED BY <1>1, <2>2, <2>3 DEF FinalOK, PerformEffect
<1>6. ASSUME ClaimsHold', budget'.faults = 0, NEW r \in Runs, NEW k \in Steps, NEW z \in Slots
      PROVE  DoneOK(r, k, z)'
  <2>1. ClaimsHold /\ budget.faults = 0
    BY <1>2, <1>6, StillHold DEF Steady
  <2>2. ASSUME NEW y \in Slots, <<exec[x].run, exec[x].at, y>> \in performed PROVE FALSE
    <3>1. entries[exec[x].run][OwnPath(exec[x].at)] = None
      BY <1>0, <2>1 DEF CInv, CurrentOK, InBody
    <3>2. exec[y].st = "record" /\ exec[y].run = exec[x].run
      BY <1>0, <2>1, <2>2, <3>1 DEF CInv, DoneOK
    <3>3. x = y
      BY <1>0, <2>1, <3>2, AloneOK DEF Acting, Owning, InBody
    <3> QED BY <1>0, <3>2, <3>3
  <2>3. performed' = performed \cup {<<exec[x].run, exec[x].at, x>>} /\ entries' = entries
    BY DEF PerformEffect
  <2>4. CASE r = exec[x].run /\ k = exec[x].at
    BY <1>1, <2>2, <2>3, <2>4 DEF DoneOK
  <2>5. CASE ~(r = exec[x].run /\ k = exec[x].at)
    <3>1. \A y \in Slots : <<r, k, y>> \in performed' <=> <<r, k, y>> \in performed
      BY <2>3, <2>5
    <3>2. exec[z].st = "record" => exec'[z] = exec[z]
      BY <1>0, <1>1 DEF Others
    <3>3. DoneOK(r, k, z)
      BY <2>1 DEF CInv
    <3> QED BY <2>3, <3>1, <3>2, <3>3 DEF DoneOK
  <2> QED BY <2>4, <2>5
<1>7. ASSUME Calm' PROVE \A r \in Runs : PinnedOK(r)'
  BY <1>0, <1>1, <1>2, <1>7, PinnedPast DEF PerformEffect, InBody
<1> QED BY <1>3, <1>4, <1>5, <1>6, <1>7, GoesOK

\* The claims on the other runs are nobody's business.
LEMMA PinnedElse ==
  ASSUME IInv, CInv, Calm', NEW x \in Slots, Goes(x), NEW r \in Runs, r # exec[x].run
  PROVE  PinnedOK(r)'
<1>1. \A y \in Slots : Eyeing(y, r)' => Eyeing(y, r)
  BY DEF Eyeing, Others, Goes
<1>2. \A w \in Slots : Minding(w, r) => Minding(w, r)'
  BY DEF Minding, Others, Goes
<1>3. run'[r] = run[r] /\ entries'[r][InputsPath] = entries[r][InputsPath] /\ Steady
  BY Paths DEF Goes
<1> QED BY <1>1, <1>2, <1>3, PinnedFrame DEF Slots, Started

LEMMA LoadC ==
  ASSUME IInv, CInv, NEW x \in Slots, Load(x)
  PROVE  CInv'
<1> DEFINE origin == IF run[exec[x].run].stored THEN "stored" ELSE "empty"
<1>0. /\ exec[x].st = "load" /\ exec[x].run \in Runs
      /\ exec' = [exec EXCEPT ![x].st = "open", ![x].inputs = origin]
  BY DEF Load, IInv, SlotOK
<1> HIDE DEF origin
<1>1. /\ Others(x)
      /\ exec'[x].st = "open" /\ exec'[x].run = exec[x].run
      /\ exec'[x].batch = exec[x].batch /\ exec'[x].inputs = origin
  BY <1>0 DEF IInv, TypeOK, Exec, Others
<1>2. Steady
  BY SteadyStill DEF Load
<1>3. Goes(x)
  BY <1>0, <1>1, <1>2 DEF Goes, Load, Owning
<1>4. OriginOK(x)'
  <2>1. OriginOK(x) /\ x \notin Starters
    BY <1>0 DEF CInv, OriginOK
  <2>2. Started(exec[x].run)' /\ \A r \in exec[x].batch : Started(r)'
    BY <1>0, <1>1, <2>1 DEF OriginOK, Started, Load
  <2>3. origin = IF run'[exec[x].run].stored THEN "stored" ELSE "empty"
    BY DEF Load, origin
  <2> QED BY <1>1, <2>1, <2>2, <2>3 DEF OriginOK, InBody
<1>5. CurrentOK(x)' /\ FinalOK(x)'
  BY <1>1 DEF CurrentOK, FinalOK, InBody
<1>6. ASSUME ClaimsHold', budget'.faults = 0
      PROVE  \A r \in Runs, k \in Steps, z \in Slots : DoneOK(r, k, z)'
  <2>1. ClaimsHold /\ budget.faults = 0 /\ Grows
    BY <1>2, <1>6, StillHold DEF Steady
  <2>2. \A z \in Slots : exec[z].st = "record" => exec'[z] = exec[z]
    BY <1>0, <1>1 DEF Others
  <2> QED BY <2>1, <2>2, DoneFrame DEF Load
<1>7. ASSUME Calm', NEW r \in Runs PROVE PinnedOK(r)'
  <2>1. \A y \in Slots : Eyeing(y, r)' => Eyeing(y, r)
    BY <1>0, <1>1 DEF Eyeing, Others
  <2>2. \A w \in Slots : Minding(w, r) => Minding(w, r)'
    BY <1>0, <1>1 DEF Minding, Others, Load
  <2> QED BY <1>2, <1>7, <2>1, <2>2, PinnedFrame DEF Slots, Started, Load
<1> QED BY <1>3, <1>4, <1>5, <1>6, <1>7, GoesOK

\* The handle reads all there is.
LEMMA OpenC ==
  ASSUME IInv, CInv, NEW x \in Slots, Open(x)
  PROVE  CInv'
<1> DEFINE read == entries[exec[x].run]
<1>0. /\ exec[x].st = "open" /\ exec[x].run \in Runs
      /\ exec' = [exec EXCEPT ![x].st = "inputs", ![x].at = 1, ![x].seen = read]
  BY DEF Open, IInv, SlotOK
<1> HIDE DEF read
<1>1. /\ Others(x)
      /\ exec'[x].st = "inputs" /\ exec'[x].run = exec[x].run /\ exec'[x].seen = read
      /\ exec'[x].batch = exec[x].batch /\ exec'[x].inputs = exec[x].inputs
  BY <1>0 DEF IInv, TypeOK, Exec, Others
<1>2. Steady
  BY SteadyStill DEF Open
<1>3. Goes(x)
  BY <1>0, <1>1, <1>2 DEF Goes, Open, Owning, InBody
<1>4. OriginOK(x)'
  BY <1>0, <1>1, <1>3, DrivesOrigin DEF InBody
<1>5. CurrentOK(x)' /\ FinalOK(x)'
  <2>1. CurrentOK(x)'
    BY <1>1 DEF CurrentOK, Open, read
  <2>2. run[exec[x].run].status = "completed" => \A k \in Steps : read[OwnPath(k)] # None
    BY <1>0 DEF IInv, ResultOK, read
  <2> QED BY <1>1, <2>1, <2>2 DEF FinalOK, Open
<1>6. ASSUME ClaimsHold', budget'.faults = 0
      PROVE  \A r \in Runs, k \in Steps, z \in Slots : DoneOK(r, k, z)'
  <2>1. ClaimsHold /\ budget.faults = 0 /\ Grows
    BY <1>2, <1>6, StillHold DEF Steady
  <2>2. \A z \in Slots : exec[z].st = "record" => exec'[z] = exec[z]
    BY <1>0, <1>1 DEF Others
  <2> QED BY <2>1, <2>2, DoneFrame DEF Open
<1>7. ASSUME Calm', NEW r \in Runs PROVE PinnedOK(r)'
  <2>1. \A y \in Slots : Eyeing(y, r)' => Eyeing(y, r)
    BY <1>0, <1>1 DEF Eyeing, Others
  <2>2. \A w \in Slots : Minding(w, r) => Minding(w, r)'
    BY <1>0, <1>1 DEF Minding, Others, Open
  <2> QED BY <1>2, <1>7, <2>1, <2>2, PinnedFrame DEF Slots, Started, Open
<1> QED BY <1>3, <1>4, <1>5, <1>6, <1>7, GoesOK

-----------------------------------------------------------------------------
(* A body that writes its journal. *)

LEMMA WriteGoes ==
  ASSUME IInv, NEW x \in Slots, NEW p \in Path, NEW v \in Value,
         NEW at \in 0..(N + 1), exec[x].st \in InBody, Write(x, p, v, "step", at),
         UNCHANGED <<run, client, renewals, elapsed, performed, budget>>
  PROVE  /\ Goes(x)
         /\ exec'[x].st = "step" /\ exec'[x].inputs = exec[x].inputs
         /\ \A o \in Path : o # p => exec'[x].seen[o] = exec[x].seen[o]
         /\ exec'[x].seen[p] = Stored(exec[x].run, p, v)
         /\ entries'[exec[x].run][p] = Stored(exec[x].run, p, v)
         /\ \A o \in Path : o # p => entries'[exec[x].run][o] = entries[exec[x].run][o]
<1>1. exec[x].run \in Runs /\ exec \in [Slots -> Exec] /\ "step" \in ExecState
  BY DEF IInv, TypeOK, SlotOK, InBody, ExecState, Owning
<1>2. /\ Grows
      /\ entries'[exec[x].run][p] = Stored(exec[x].run, p, v)
      /\ \A q \in Runs, o \in Path : q # exec[x].run \/ o # p => entries'[q][o] = entries[q][o]
  BY <1>1, AppendGrows DEF Write
<1>3. Stored(exec[x].run, p, v) \in Value \cup {None}
  BY <1>1 DEF IInv, TypeOK, Stored
<1>4. /\ \A y \in Slots \ {x} : exec'[y] = exec[y]
      /\ exec'[x].st = "step" /\ exec'[x].run = exec[x].run
      /\ \A o \in Path : o # p => exec'[x].seen[o] = exec[x].seen[o]
      /\ exec'[x].seen[p] = Stored(exec[x].run, p, v)
  BY <1>1, <1>3, WriteExec
<1>5. exec'[x].batch = exec[x].batch /\ exec'[x].inputs = exec[x].inputs
  <2> DEFINE won == Stored(exec[x].run, p, v)
  <2>1. exec' = [exec EXCEPT ![x].st = "step", ![x].at = at, ![x].seen[p] = won]
    BY DEF Write
  <2> HIDE DEF won
  <2> QED BY <1>1, <2>1 DEF Exec
<1>6. Steady
  BY <1>2 DEF Steady, Started
<1>7. Goes(x)
  BY <1>2, <1>4, <1>5, <1>6 DEF Goes, Others, Owning, InBody
<1> QED BY <1>1, <1>2, <1>4, <1>5, <1>7

LEMMA WriteC ==
  ASSUME IInv, CInv, NEW x \in Slots, NEW p \in Path, NEW v \in Value, v # None,
         NEW at \in 0..(N + 1), exec[x].st \in InBody, Write(x, p, v, "step", at),
         UNCHANGED <<run, client, renewals, elapsed, performed, budget>>,
         exec[x].st = "inputs" => p = InputsPath,
         exec[x].st = "record" => p = OwnPath(exec[x].at),
         NEW r \in Runs, r = exec[x].run, Calm' => PinnedOK(r)'
  PROVE  CInv'
<1>1. /\ Goes(x)
      /\ exec'[x].st = "step" /\ exec'[x].inputs = exec[x].inputs
      /\ \A o \in Path : o # p => exec'[x].seen[o] = exec[x].seen[o]
      /\ exec'[x].seen[p] = Stored(r, p, v)
      /\ entries'[r][p] = Stored(r, p, v)
      /\ \A o \in Path : o # p => entries'[r][o] = entries[r][o]
  BY WriteGoes
<1>2. Stored(r, p, v) # None /\ exec'[x].run = r /\ Steady
  BY <1>1 DEF Stored, IInv, SlotOK, InBody, Goes
<1>3. OriginOK(x)'
  <2>1. entries'[r][InputsPath] # None
    <3>1. CASE exec[x].st = "inputs"
      BY <1>1, <1>2, <3>1
    <3>2. CASE exec[x].st # "inputs"
      <4>1. entries[r][InputsPath] # None
        BY <3>2 DEF CInv, OriginOK
      <4> QED BY <1>2, <4>1, Paths DEF Steady, Grows
    <3> QED BY <3>1, <3>2
  <2> QED BY <1>1, <2>1, DrivesOrigin DEF InBody
<1>4. ASSUME ClaimsHold' PROVE CurrentOK(x)' /\ FinalOK(x)'
  <2>1. CurrentOK(x) /\ FinalOK(x)
    BY <1>2, <1>4, StillHold DEF CInv
  <2>2. CurrentOK(x)'
    <3> SUFFICES ASSUME NEW k \in Steps, Body[k] = "effect", exec'[x].seen[OwnPath(k)] = None
                 PROVE  entries'[r][OwnPath(k)] = None
      BY <1>2 DEF CurrentOK
    <3>1. OwnPath(k) # p /\ OwnPath(k) \in Path
      BY <1>1, <1>2, Paths
    <3>2. exec[x].seen[OwnPath(k)] = None /\ entries'[r][OwnPath(k)] = entries[r][OwnPath(k)]
      BY <1>1, <3>1
    <3> QED BY <2>1, <3>2 DEF CurrentOK
  <2>3. FinalOK(x)'
    <3> SUFFICES ASSUME run[r].status = "completed", NEW k \in Steps
                 PROVE  exec'[x].seen[OwnPath(k)] # None
      BY <1>1, <1>2 DEF FinalOK
    <3>1. exec[x].seen[OwnPath(k)] # None
      BY <2>1 DEF FinalOK
    <3> QED BY <1>1, <1>2, <3>1, Paths
  <2> QED BY <2>2, <2>3
<1>5. ASSUME ClaimsHold', budget'.faults = 0
      PROVE  \A q \in Runs, k \in Steps, z \in Slots : DoneOK(q, k, z)'
  <2>1. ClaimsHold /\ budget.faults = 0 /\ Grows
    BY <1>2, <1>5, StillHold DEF Steady
  <2>2. \A z \in Slots : exec[z].st = "record" =>
          \/ exec'[z] = exec[z]
          \/ entries'[exec[z].run][OwnPath(exec[z].at)] # None
    BY <1>1, <1>2 DEF Goes, Others
  <2> QED BY <2>1, <2>2, DoneFrame
<1>6. ASSUME Calm', NEW q \in Runs PROVE PinnedOK(q)'
  BY <1>1, <1>6, PinnedElse
<1> QED BY <1>1, <1>3, <1>4, <1>5, <1>6, GoesOK

LEMMA RecordStepC ==
  ASSUME IInv, CInv, NEW x \in Slots, RecordStep(x)
  PROVE  CInv'
<1>0. PICK r \in Runs : r = exec[x].run
  BY DEF RecordStep, IInv, SlotOK
<1>1. /\ exec[x].st = "record" /\ exec[x].at \in Steps
      /\ x \in Value /\ x # None /\ exec[x].at + 1 \in 0..(N + 1) /\ OwnPath(exec[x].at) \in Path
  <2>1. exec[x].st = "record" /\ exec[x].at \in Steps
    BY DEF RecordStep, IInv, SlotOK
  <2>2. exec[x].at + 1 \in 0..(N + 1)
    BY <2>1, DurableConstants DEF Steps
  <2>3. x \in Value /\ x # None
    BY DurableConstants DEF Value, Author
  <2> QED BY <2>1, <2>2, <2>3, Paths
<1>2. /\ Write(x, OwnPath(exec[x].at), x, "step", exec[x].at + 1)
      /\ UNCHANGED <<run, client, renewals, elapsed, performed, budget>>
  BY DEF RecordStep
<1>3. Goes(x)
  BY <1>1, <1>2, WriteGoes DEF InBody
<1>4. Calm' => PinnedOK(r)'
  BY <1>0, <1>1, <1>3, PinnedDone DEF CInv, OriginOK, InBody, Goes
<1> QED BY <1>0, <1>1, <1>2, <1>4, WriteC DEF InBody

\* A token or a deadline is pinned.
LEMMA PinC ==
  ASSUME IInv, CInv, NEW x \in Slots, Reaching(x, StepKinds), NEW p \in Path,
         Write(x, p, x, "step", exec[x].at),
         UNCHANGED <<run, client, renewals, elapsed, performed, budget>>
  PROVE  CInv'
<1>0. PICK r \in Runs : r = exec[x].run
  BY DEF Reaching, IInv, SlotOK
<1>1. /\ exec[x].st = "step" /\ exec[x].at \in 0..(N + 1)
      /\ x \in Value /\ x # None
  BY DurableConstants DEF Reaching, IInv, TypeOK, Exec, SlotOK, Value, Author
<1>2. Goes(x)
  BY <1>1, WriteGoes DEF InBody
<1>3. Calm' => PinnedOK(r)'
  BY <1>0, <1>1, <1>2, PinnedDone DEF CInv, OriginOK, InBody, Goes
<1> QED BY <1>0, <1>1, <1>3, WriteC DEF InBody

LEMMA PinTokenC ==
  ASSUME IInv, CInv, NEW x \in Slots, PinToken(x)
  PROVE  CInv'
<1>1. TokenPath(exec[x].at) \in Path /\ Reaching(x, StepKinds)
  BY Paths, ReachingAny DEF PinToken, Reaching
<1> QED BY <1>1, PinC DEF PinToken

LEMMA PinDeadlineC ==
  ASSUME IInv, CInv, NEW x \in Slots, PinDeadline(x)
  PROVE  CInv'
<1>1. AtPath(exec[x].at) \in Path /\ Reaching(x, StepKinds)
  BY Paths, ReachingAny DEF PinDeadline, Reaching
<1> QED BY <1>1, PinC DEF PinDeadline

\* As long as nothing went wrong, whoever pins first is the start, or a resumer
\* of a run whose inputs a Schedule stored.
LEMMA DecideInputsC ==
  ASSUME IInv, CInv, NEW x \in Slots, DecideInputs(x)
  PROVE  CInv'
<1>0. PICK r \in Runs : r = exec[x].run
  BY DEF DecideInputs, IInv, SlotOK
<1>1. /\ exec[x].run = r /\ exec[x].st = "inputs" /\ exec[x].inputs \in InputOrigin
      /\ 1 \in 0..(N + 1) /\ "step" \in ExecState
  <2>1. 1 \in 0..(N + 1)
    BY DurableConstants
  <2> QED BY <1>0, <2>1 DEF DecideInputs, IInv, TypeOK, Exec, ExecState, Owning, InBody
<1>2. CASE exec[x].seen[InputsPath] # None
  <2>1. Become(x, "step") /\ UNCHANGED <<run, entries, client, renewals, elapsed, performed, budget>>
    BY <1>2 DEF DecideInputs
  <2>2. /\ Others(x)
        /\ exec'[x].st = "step" /\ exec'[x].run = r
        /\ exec'[x].seen = exec[x].seen /\ exec'[x].batch = exec[x].batch
        /\ exec'[x].inputs = exec[x].inputs
    BY <1>1, <2>1, BecomeStays
  <2>3. Steady
    BY <2>1, SteadyStill
  <2>4. Goes(x)
    BY <1>1, <2>1, <2>2, <2>3 DEF Goes, Owning, InBody
  <2>5. entries[r][InputsPath] # None
    BY <1>1, <1>2, Paths DEF IInv, AgreeOK
  <2>6. OriginOK(x)'
    BY <1>1, <2>1, <2>2, <2>4, <2>5, DrivesOrigin DEF InBody
  <2>7. ASSUME ClaimsHold' PROVE CurrentOK(x)' /\ FinalOK(x)'
    <3>1. CurrentOK(x) /\ FinalOK(x)
      BY <2>3, <2>7, StillHold DEF CInv
    <3> QED BY <1>1, <2>1, <2>2, <3>1 DEF CurrentOK, FinalOK, InBody
  <2>8. ASSUME ClaimsHold', budget'.faults = 0
        PROVE  \A q \in Runs, k \in Steps, z \in Slots : DoneOK(q, k, z)'
    <3>1. ClaimsHold /\ budget.faults = 0 /\ Grows
      BY <2>3, <2>8, StillHold DEF Steady
    <3>2. \A z \in Slots : exec[z].st = "record" => exec'[z] = exec[z]
      BY <1>1, <2>2 DEF Others
    <3> QED BY <2>1, <3>1, <3>2, DoneFrame
  <2>9. ASSUME Calm', NEW q \in Runs PROVE PinnedOK(q)'
    BY <1>1, <2>3, <2>4, <2>5, <2>9, PinnedElse, PinnedDone
  <2> QED BY <2>4, <2>6, <2>7, <2>8, <2>9, GoesOK
<1>3. CASE exec[x].seen[InputsPath] = None
  <2>1. /\ Write(x, InputsPath, exec[x].inputs, "step", 1)
        /\ UNCHANGED <<run, client, renewals, elapsed, performed, budget>>
    BY <1>3 DEF DecideInputs
  <2>2. exec[x].inputs \in Value /\ exec[x].inputs # None /\ InputsPath \in Path
    BY <1>1, Paths, DurableConstants DEF Value
  <2>3. Goes(x) /\ entries'[r][InputsPath] = Stored(r, InputsPath, exec[x].inputs)
    BY <1>1, <2>1, <2>2, WriteGoes DEF InBody
  <2>4. ASSUME Calm' PROVE PinnedOK(r)'
    <3>1. CASE entries[r][InputsPath] # None
      BY <1>1, <2>3, <2>4, <3>1, PinnedDone DEF Goes
    <3>2. CASE entries[r][InputsPath] = None
      <4>1. OriginOK(x) /\ PinnedOK(r) /\ Started(r)
        BY <1>1, <2>3, <2>4, StillHold DEF CInv, OriginOK, Goes
      <4>2. exec[x].inputs # "empty"
        <5>1. CASE x \in Starters
          BY <1>1, <4>1, <5>1 DEF OriginOK
        <5>2. CASE x \in Resumers
          <6>1. Eyeing(x, r)
            BY <1>1 DEF Eyeing
          <6>2. run[r].stored
            BY <3>2, <4>1, <5>2, <6>1 DEF PinnedOK, Unpinned
          <6> QED BY <1>1, <4>1, <5>2, <6>2 DEF OriginOK, InBody
        <5> QED BY <5>1, <5>2 DEF Slots
      <4>3. entries'[r][InputsPath] = exec[x].inputs
        BY <2>3, <3>2 DEF Stored
      <4> QED BY <2>2, <4>2, <4>3 DEF PinnedOK, Unpinned
    <3> QED BY <3>1, <3>2
  <2> QED BY <1>1, <2>1, <2>2, <2>4, WriteC DEF InBody
<1> QED BY <1>2, <1>3

-----------------------------------------------------------------------------
(* A slot that leaves its run, with or without settling it. *)

LEMMA AfterFacts ==
  ASSUME IInv, NEW x \in Slots, NEW b \in SUBSET Runs, exec' = [exec EXCEPT ![x] = After(b)]
  PROVE  /\ Others(x)
         /\ exec'[x].st \in {"idle", "sweep"} /\ (b = {} => exec'[x].st = "idle")
         /\ exec'[x].batch = b
<1>1. exec'[x] = After(b)
  BY DEF IInv, TypeOK
<1>2. After(b).batch = b /\ After(b).st = IF b = {} THEN "idle" ELSE "sweep"
  BY DEF After, Idle
<1> QED BY <1>1, <1>2 DEF Others

LEMMA FinishFacts ==
  ASSUME IInv, NEW x \in Slots, Finish(x)
  PROVE  /\ Others(x)
         /\ exec'[x].st \in {"idle", "sweep"}
         /\ exec[x].batch = {} => exec'[x].st = "idle"
         /\ exec'[x].batch = exec[x].batch
<1>1. exec[x].batch \in SUBSET Runs
  BY DEF IInv, TypeOK, Exec
<1> QED BY <1>1, AfterFacts DEF Finish

LEMMA AwayOrigin ==
  ASSUME IInv, CInv, Steady, NEW x \in Slots,
         exec'[x].st \in {"idle", "sweep"}, exec'[x].batch \subseteq exec[x].batch,
         exec'[x].batch = {} => exec'[x].st = "idle"
  PROVE  OriginOK(x)'
<1>1. OriginOK(x) /\ exec[x].batch \subseteq Runs
  BY DEF CInv, IInv, TypeOK, Exec
<1>2. \A r \in exec'[x].batch : Started(r)'
  BY <1>1 DEF OriginOK, Steady
<1>3. x \in Starters => exec'[x].batch = {} /\ exec'[x].st = "idle"
  BY <1>1 DEF OriginOK
<1> QED BY <1>2, <1>3 DEF OriginOK, InBody

LEMMA AwaySlot ==
  ASSUME NEW x \in Slots, exec'[x].st \in {"idle", "sweep", "exists", "attach"}
  PROVE  HeldOK(x)' /\ CurrentOK(x)' /\ FinalOK(x)'
BY DEF HeldOK, CurrentOK, FinalOK, Acting, Owning, InBody

\* A slot that moves while it acts on nothing, or gives up, and leaves the rows.
LEMMA QuitC ==
  ASSUME IInv, CInv, Steady, NEW x \in Slots, Others(x),
         UNCHANGED <<run, entries, client, renewals, performed>>,
         exec'[x].st \in {"idle", "sweep", "exists", "attach"}, OriginOK(x)',
         budget'.faults = 0 => exec[x].st # "record",
         Calm' => \A r \in Runs : ~Minding(x, r),
         Calm' /\ x \in Resumers => \A r \in Runs : Unpinned(r) => ~Eyeing(x, r)'
  PROVE  CInv'
<1>1. ASSUME ClaimsHold, NEW y \in Slots PROVE Kept(exec[y].run)
  BY DEF Kept
<1>2. ASSUME ClaimsHold', budget'.faults = 0
      PROVE  \A r \in Runs, k \in Steps, z \in Slots : DoneOK(r, k, z)'
  <2>1. ClaimsHold /\ budget.faults = 0 /\ Grows
    BY <1>2, StillHold DEF Steady
  <2>2. \A z \in Slots : exec[z].st = "record" => exec'[z] = exec[z]
    BY <1>2 DEF Others
  <2> QED BY <2>1, <2>2, DoneFrame
<1>3. ASSUME Calm', NEW r \in Runs PROVE PinnedOK(r)'
  <2>1. Unpinned(r) => \A y \in Resumers : Eyeing(y, r)' => Eyeing(y, r)
    BY <1>3 DEF Eyeing, Others, Slots
  <2>2. \A w \in Starters : Minding(w, r) => Minding(w, r)'
    BY <1>3 DEF Minding, Others, Slots
  <2> QED BY <1>3, <2>1, <2>2, PinnedFrame DEF Started
<1>4. \A r \in Runs : RowOK(r)'
  BY RowsFrame
<1>5. \A r \in Runs, h \in Holders \cup {Gone} : <<r, h>> \in renewals' => Started(r)'
  BY RenewalsFrame
<1>6. HeldOK(x)' /\ CurrentOK(x)' /\ FinalOK(x)'
  BY AwaySlot
<1> QED BY <1>1, <1>2, <1>3, <1>4, <1>5, <1>6, SlotStepC

LEMMA FinishC ==
  ASSUME IInv, CInv, Steady, NEW x \in Slots, Finish(x),
         UNCHANGED <<run, entries, client, renewals, performed>>,
         budget'.faults = 0 => exec[x].st # "record",
         Calm' => \A r \in Runs : ~Minding(x, r)
  PROVE  CInv'
<1>1. /\ Others(x) /\ exec'[x].st \in {"idle", "sweep"}
      /\ exec[x].batch = {} => exec'[x].st = "idle"
      /\ exec'[x].batch = exec[x].batch
  BY FinishFacts
<1>2. OriginOK(x)'
  BY <1>1, AwayOrigin
<1>3. ASSUME Calm', x \in Resumers, NEW r \in Runs, Unpinned(r) PROVE ~Eyeing(x, r)'
  <2>1. ~Eyeing(x, r)
    BY <1>3, StillHold DEF CInv, PinnedOK
  <2> QED BY <1>1, <2>1 DEF Eyeing
<1> QED BY <1>1, <1>2, <1>3, QuitC

LEMMA InterruptC ==
  ASSUME IInv, CInv, NEW x \in Slots, Interrupt(x)
  PROVE  CInv'
<1>1. Steady
  BY SteadyStill DEF Interrupt
<1>2. budget'.faults # 0
  <2>1. budget.faults \in Nat /\ budget \in [faults : 0..MaxFaults, lapses : 0..MaxLapses]
    BY DurableConstants DEF IInv, TypeOK
  <2>2. budget' = [budget EXCEPT !.faults = budget.faults + 1]
    BY DEF Interrupt
  <2> QED BY <2>1, <2>2
<1> QED BY <1>1, <1>2, FinishC DEF Interrupt, Calm

LEMMA ReadExistingC ==
  ASSUME IInv, CInv, NEW x \in Slots, ReadExisting(x)
  PROVE  CInv'
<1>1. Steady
  BY SteadyStill DEF ReadExisting
<1>2. exec[x].st = "exists" /\ OriginOK(x) /\ \A r \in Runs : ~Minding(x, r)
  BY DEF ReadExisting, Minding, CInv
<1>3. CASE Finish(x)
  BY <1>1, <1>2, <1>3, FinishC DEF ReadExisting
<1>4. CASE Become(x, "attach")
  <2>1. "attach" \in ExecState
    BY DEF ExecState
  <2>2. /\ Others(x)
        /\ exec'[x].st = "attach" /\ exec'[x].run = exec[x].run
        /\ exec'[x].batch = exec[x].batch /\ exec'[x].inputs = exec[x].inputs
    BY <1>4, <2>1, BecomeStays
  <2>3. OriginOK(x)'
    BY <1>2, <2>2 DEF OriginOK, ReadExisting, Started, InBody
  <2>4. x \notin Resumers
    BY <1>2 DEF OriginOK
  <2> QED BY <1>1, <1>2, <2>2, <2>3, <2>4, QuitC DEF ReadExisting
<1> QED BY <1>3, <1>4 DEF ReadExisting

\* A run whose inputs are not pinned is not due: its start holds it.
LEMMA SweepC ==
  ASSUME IInv, CInv, NEW x \in Slots, Sweep(x)
  PROVE  CInv'
<1>1. Steady
  BY SteadyStill DEF Sweep
<1>2. DueRuns \in SUBSET Runs /\ x \in Resumers /\ exec[x].st = "idle"
  BY DEF DueRuns, Sweep
<1>3. /\ Others(x) /\ exec'[x].st \in {"idle", "sweep"} /\ exec'[x].batch = DueRuns
  BY <1>2, AfterFacts DEF Sweep
<1>4. OriginOK(x)'
  <2>1. \A r \in DueRuns : Started(r)'
    BY DEF DueRuns, Due, Started, Sweep
  <2>2. x \notin Starters
    BY <1>2, DurableConstants
  <2> QED BY <1>3, <2>1, <2>2 DEF OriginOK, InBody
<1>5. ASSUME Calm', NEW r \in Runs, Unpinned(r) PROVE ~Eyeing(x, r)'
  <2>1. PinnedOK(r)
    BY <1>1, <1>5, StillHold DEF CInv
  <2>2. r \notin DueRuns
    <3>1. CASE run[r].status = "cancelled"
      BY <3>1 DEF DueRuns, Due
    <3>2. CASE \E w \in Starters : Minding(w, r)
      BY <3>2, DurableConstants DEF DueRuns, Due, Minding, Slots
    <3> QED BY <1>5, <2>1, <3>1, <3>2 DEF PinnedOK
  <2> QED BY <1>3, <2>2 DEF Eyeing
<1>6. \A r \in Runs : ~Minding(x, r)
  BY <1>2 DEF Minding
<1> QED BY <1>1, <1>2, <1>3, <1>4, <1>5, <1>6, QuitC DEF Sweep

-----------------------------------------------------------------------------
(* The row of a run that its body settles or parks. *)

LEMMA SettlesC ==
  ASSUME IInv, CInv, NEW x \in Slots, Others(x), NEW r \in Runs, r = exec[x].run,
         exec[x].st \in {"step", "parking", "failing"},
         UNCHANGED <<entries, client, renewals, elapsed, performed, budget>>,
         \A q \in Runs \ {r} : run'[q] = run[q],
         run'[r].status # "none", run'[r].stored = run[r].stored,
         run'[r].status = "completed" => run'[r].result \in [Steps -> Value \cup {None}],
         exec'[x].st \in {"idle", "sweep", "record"}, exec'[x].batch = exec[x].batch,
         ClaimsHold => exec'[x].st # "record",
         Steady => OriginOK(x)'
  PROVE  CInv'
<1>1. Started(r) /\ Acting(x) /\ entries[r][InputsPath] # None
  BY DEF CInv, OriginOK, Acting, Owning, InBody
<1>2. Steady
  <2>1. \A q \in Runs : Started(q) => Started(q)' /\ run'[q].stored = run[q].stored
    BY DEF Started
  <2> QED BY <2>1 DEF Steady, Grows
<1>3. \A q \in Runs : RowOK(q)'
  BY DEF CInv, RowOK, Started
<1>4. ASSUME ClaimsHold, NEW y \in Slots \ {x}, Acting(y) PROVE Kept(exec[y].run)
  <2>1. exec[y].run # r /\ exec[y].run \in Runs
    BY <1>1, <1>4, AloneOK DEF IInv, SlotOK, Acting, Owning, InBody
  <2> QED BY <2>1 DEF Kept
<1>5. ASSUME ClaimsHold', budget'.faults = 0
      PROVE  \A q \in Runs, k \in Steps, z \in Slots : DoneOK(q, k, z)'
  <2>1. ClaimsHold /\ budget.faults = 0 /\ Grows
    BY <1>2, <1>5, StillHold DEF Steady
  <2>2. \A z \in Slots : exec[z].st = "record" => exec'[z] = exec[z]
    BY DEF Others
  <2> QED BY <2>1, <2>2, DoneFrame
<1>6. ASSUME Calm', NEW q \in Runs PROVE PinnedOK(q)'
  <2>1. CASE q = r
    BY <1>1, <1>2, <1>6, <2>1, PinnedDone
  <2>2. CASE q # r
    <3>1. \A y \in Slots : Eyeing(y, q)' => Eyeing(y, q)
      BY DEF Eyeing, Others
    <3>2. \A w \in Slots : Minding(w, q) => Minding(w, q)'
      BY <2>2 DEF Minding, Others
    <3> QED BY <1>2, <1>6, <2>2, <3>1, <3>2, PinnedFrame DEF Slots, Started
  <2> QED BY <2>1, <2>2
<1>7. \A q \in Runs, h \in Holders \cup {Gone} : <<q, h>> \in renewals' => Started(q)'
  BY <1>2, RenewalsFrame
<1>8. ClaimsHold' => HeldOK(x)' /\ CurrentOK(x)' /\ FinalOK(x)'
  BY <1>2, StillHold, AwaySlot
<1> QED BY <1>2, <1>3, <1>4, <1>5, <1>6, <1>7, <1>8, SlotStepC

LEMMA SettleFinishC ==
  ASSUME IInv, CInv, NEW x \in Slots, Finish(x), NEW r \in Runs, r = exec[x].run,
         exec[x].st \in {"step", "parking", "failing"},
         UNCHANGED <<entries, client, renewals, elapsed, performed, budget>>,
         \A q \in Runs \ {r} : run'[q] = run[q],
         run'[r].status # "none", run'[r].stored = run[r].stored,
         run'[r].status = "completed" => run'[r].result \in [Steps -> Value \cup {None}]
  PROVE  CInv'
<1>1. /\ Others(x) /\ exec'[x].st \in {"idle", "sweep"}
      /\ exec[x].batch = {} => exec'[x].st = "idle"
      /\ exec'[x].batch = exec[x].batch
  BY FinishFacts
<1>2. Steady => OriginOK(x)'
  BY <1>1, AwayOrigin
<1> QED BY <1>1, <1>2, SettlesC

LEMMA CompleteStored ==
  ASSUME IInv, NEW r \in Runs, NEW status, NEW result, CompleteRun(r, status, result)
  PROVE  run'[r].stored = run[r].stored
BY DEF IInv, TypeOK, CompleteRun, Row

LEMMA SettleFailedC ==
  ASSUME IInv, CInv, NEW x \in Slots, SettleFailed(x)
  PROVE  CInv'
<1>1. PICK r \in Runs : r = exec[x].run
  BY DEF SettleFailed, IInv, SlotOK
<1>2. CompleteRun(r, "failed", None) /\ "failed" \in RunStatus
  BY <1>1 DEF SettleFailed, RunStatus
<1>3. /\ run'[r].status = "failed" /\ \A q \in Runs \ {r} : run'[q] = run[q]
      /\ run'[r].stored = run[r].stored
  BY <1>2, CompleteRow, CompleteStored
<1> QED BY <1>1, <1>3, SettleFinishC DEF SettleFailed

LEMMA CompleteC ==
  ASSUME IInv, CInv, NEW x \in Slots, Complete(x)
  PROVE  CInv'
<1> DEFINE result == [j \in Steps |-> exec[x].seen[OwnPath(j)]]
<1>1. PICK r \in Runs : r = exec[x].run
  BY DEF Complete, IInv, SlotOK
<1>2. result \in [Steps -> Value \cup {None}] /\ "completed" \in RunStatus
  BY Paths DEF IInv, TypeOK, Exec, RunStatus
<1>3. CASE exec[x].latched
  <2>1. Steady /\ UNCHANGED run
    BY <1>3, SteadyStill DEF Complete
  <2> QED BY <2>1, FinishC DEF Complete, Minding
<1>4. CASE ~exec[x].latched
  <2>1. CompleteRun(r, "completed", result)
    BY <1>1, <1>4 DEF Complete
  <2> HIDE DEF result
  <2>2. /\ run'[r].status = "completed" /\ \A q \in Runs \ {r} : run'[q] = run[q]
        /\ run'[r].stored = run[r].stored /\ run'[r].result = result
    BY <1>2, <2>1, CompleteRow, CompleteStored
  <2> QED BY <1>1, <1>2, <2>2, SettleFinishC DEF Complete
<1> QED BY <1>3, <1>4

\* A body that swallows its suspension goes on without a claim: ClaimsHold
\* leaves those out.
LEMMA ParkC ==
  ASSUME IInv, CInv, NEW x \in Slots, Park(x)
  PROVE  CInv'
<1>1. PICK r \in Runs : r = exec[x].run
  BY DEF Park, IInv, SlotOK
<1>2. /\ run'[r].status = "parked" /\ run'[r].stored = run[r].stored
      /\ \A q \in Runs \ {r} : run'[q] = run[q]
  <2>1. PICK k, token, due : ParkRun(r, k, token, due)
    BY <1>1 DEF Park
  <2>2. run \in [Runs -> Row]
    BY DEF IInv, TypeOK
  <2> QED BY <2>1, <2>2 DEF ParkRun, Row
<1>3. exec[x].st = "parking" /\ UNCHANGED <<entries, client, renewals, elapsed, performed, budget>>
  BY DEF Park
<1>4. CASE exec[x].at \in Swallowers
  <2>1. exec' = [exec EXCEPT ![x].st = "record", ![x].latched = TRUE]
    BY <1>4 DEF Park
  <2>2. /\ Others(x)
        /\ exec'[x].st = "record" /\ exec'[x].run = exec[x].run
        /\ exec'[x].batch = exec[x].batch /\ exec'[x].inputs = exec[x].inputs
    BY <2>1 DEF IInv, TypeOK, Exec, Others
  <2>3. ~ClaimsHold
    BY <1>4 DEF ClaimsHold
  <2>4. OriginOK(x) /\ exec[x].batch \subseteq Runs
    BY DEF CInv, IInv, TypeOK, Exec
  <2>5. Steady => OriginOK(x)'
    BY <1>1, <1>2, <1>3, <2>2, <2>4 DEF OriginOK, Steady, InBody
  <2> QED BY <1>1, <1>2, <1>3, <2>2, <2>3, <2>5, SettlesC
<1>5. CASE exec[x].at \notin Swallowers
  <2>1. Finish(x)
    BY <1>5 DEF Park
  <2> QED BY <1>1, <1>2, <1>3, <2>1, SettleFinishC
<1> QED BY <1>4, <1>5

-----------------------------------------------------------------------------
(* Claims. *)

LEMMA ClaimedRow ==
  ASSUME IInv, NEW r \in Runs, NEW h, run' = [run EXCEPT ![r] = Claimed(run[r], h)]
  PROVE  /\ run'[r].holder = h /\ run'[r].live
         /\ run'[r].status = run[r].status /\ run'[r].stored = run[r].stored
         /\ run'[r].result = run[r].result
         /\ \A q \in Runs \ {r} : run'[q] = run[q]
BY DEF IInv, TypeOK, Claimed, Row

\* A claim cannot be won while it is held: not by an execution, not by a late
\* renewal.
LEMMA ClaimKeeps ==
  ASSUME IInv, NEW r \in Runs, NEW h, Claimable(r, h),
         run' = [run EXCEPT ![r] = Claimed(run[r], h)],
         run[r].holder \in Holders, run[r].live
  PROVE  h = run[r].holder /\ run'[r].holder = run[r].holder /\ run'[r].live = run[r].live
<1>1. h = run[r].holder
  BY DurableConstants DEF Claimable
<1>2. run'[r].holder = h /\ run'[r].live
  BY ClaimedRow
<1>3. run[r] \in Row
  BY DEF IInv, TypeOK
<1> QED BY <1>1, <1>2, <1>3 DEF IInv, TypeOK, Row, Claimed

LEMMA ClaimsC ==
  ASSUME IInv, CInv, NEW x \in Slots, NEW r \in Runs, Started(r), Others(x),
         Claimable(r, HolderOf[x]),
         run' = [run EXCEPT ![r] = Claimed(run[r], HolderOf[x])],
         UNCHANGED <<entries, client, renewals, elapsed, performed, budget>>,
         exec'[x].run = r, exec'[x].st \in {"load", "open"}, OriginOK(x)',
         exec'[x].batch \subseteq exec[x].batch,
         \/ exec[x].st \in {"admitted", "attach"} /\ exec[x].run = r /\ exec'[x].st = "open"
         \/ exec[x].st = "sweep" /\ r \in exec[x].batch /\ exec'[x].st = "load"
  PROVE  CInv'
<1>1. /\ run'[r].holder = HolderOf[x] /\ run'[r].live
      /\ run'[r].status = run[r].status /\ run'[r].stored = run[r].stored
      /\ run'[r].result = run[r].result
      /\ \A q \in Runs \ {r} : run'[q] = run[q]
  BY ClaimedRow
<1>2. Steady
  <2>1. \A q \in Runs : Started(q) => Started(q)' /\ run'[q].stored = run[q].stored
    BY <1>1 DEF Started
  <2> QED BY <2>1 DEF Steady, Grows
<1>3. \A q \in Runs : RowOK(q)'
  BY <1>1 DEF CInv, RowOK, Started
<1>4. ASSUME ClaimsHold, NEW y \in Slots \ {x}, Acting(y) PROVE Kept(exec[y].run)
  <2>1. exec[y].run \in Runs /\ HolderOf[y] \in Holders /\ HolderOf[y] # HolderOf[x]
    BY <1>4, DurableConstants DEF IInv, SlotOK, Acting, Owning, InBody, ClaimsHold
  <2>2. run[exec[y].run].holder = HolderOf[y] /\ run[exec[y].run].live
    BY <1>4 DEF CInv, HeldOK
  <2>3. exec[y].run # r
    BY <2>1, <2>2, DurableConstants DEF Claimable
  <2> QED BY <1>1, <2>1, <2>3 DEF Kept
<1>5. ASSUME ClaimsHold', budget'.faults = 0
      PROVE  \A q \in Runs, k \in Steps, z \in Slots : DoneOK(q, k, z)'
  <2>1. ClaimsHold /\ budget.faults = 0 /\ Grows
    BY <1>2, <1>5, StillHold DEF Steady
  <2>2. \A z \in Slots : exec[z].st = "record" => exec'[z] = exec[z]
    BY DEF Others
  <2> QED BY <2>1, <2>2, DoneFrame
<1>6. ASSUME Calm', NEW q \in Runs PROVE PinnedOK(q)'
  <2>1. ASSUME NEW y \in Resumers, Eyeing(y, q)' PROVE Eyeing(y, q)
    <3>1. CASE y # x
      BY <2>1, <3>1 DEF Eyeing, Others, Slots
    <3>2. CASE y = x
      <4>1. exec[x].st = "sweep" /\ r \in exec[x].batch
        BY <2>1, <3>2 DEF CInv, OriginOK
      <4> QED BY <2>1, <3>2, <4>1 DEF Eyeing
    <3> QED BY <3>1, <3>2
  <2>2. ASSUME NEW w \in Starters, Minding(w, q) PROVE Minding(w, q)'
    <3>1. CASE q # r
      <4>1. w # x
        BY <2>2, <3>1 DEF Minding
      <4> QED BY <1>1, <2>2, <3>1, <4>1 DEF Minding, Others, Slots
    <3>2. CASE q = r
      <4>1. HolderOf[w] \in Holders /\ run[r].holder = HolderOf[w] /\ run[r].live
        BY <2>2, <3>2, DurableConstants DEF Minding, Slots
      <4>2. run'[r].holder = HolderOf[w] /\ run'[r].live
        BY <1>1, <4>1, ClaimKeeps
      <4>3. exec'[w].run = r /\ exec'[w].st \in {"admitted", "open", "inputs"}
        BY <2>2, <3>2 DEF Minding, Others, Slots
      <4> QED BY <3>2, <4>2, <4>3 DEF Minding
    <3> QED BY <3>1, <3>2
  <2> QED BY <1>1, <1>2, <1>6, <2>1, <2>2, PinnedFrame DEF Started
<1>7. \A q \in Runs, h \in Holders \cup {Gone} : <<q, h>> \in renewals' => Started(q)'
  BY <1>2, RenewalsFrame
<1>8. HeldOK(x)' /\ CurrentOK(x)' /\ FinalOK(x)'
  BY <1>1 DEF HeldOK, CurrentOK, FinalOK, InBody
<1> QED BY <1>2, <1>3, <1>4, <1>5, <1>6, <1>7, <1>8, SlotStepC

LEMMA ClaimStartC ==
  ASSUME IInv, CInv, NEW x \in Slots, ClaimStart(x)
  PROVE  CInv'
<1>1. PICK r \in Runs : r = exec[x].run
  BY DEF ClaimStart, IInv, SlotOK
<1>2. /\ exec[x].st \in {"admitted", "attach"} /\ OriginOK(x) /\ Started(r)
      /\ UNCHANGED <<entries, client, renewals, elapsed, performed, budget>>
  BY <1>1 DEF ClaimStart, CInv, OriginOK
<1>3. CASE Claimable(r, HolderOf[x])
  <2>1. run' = [run EXCEPT ![r] = Claimed(run[r], HolderOf[x])] /\ Become(x, "open")
    BY <1>1, <1>3 DEF ClaimStart
  <2>2. "open" \in ExecState
    BY DEF ExecState, Owning
  <2>3. /\ Others(x)
        /\ exec'[x].st = "open" /\ exec'[x].run = r
        /\ exec'[x].batch = exec[x].batch /\ exec'[x].inputs = exec[x].inputs
    BY <1>1, <2>1, <2>2, BecomeStays
  <2>4. run'[r].status = run[r].status
    BY <2>1, ClaimedRow
  <2>5. x \notin Resumers
    BY <1>2 DEF OriginOK
  <2>6. x \in Starters
    BY <2>5 DEF Slots
  <2>7. OriginOK(x)'
    BY <1>2, <2>3, <2>4, <2>5, <2>6 DEF OriginOK, Started, InBody
  <2> QED BY <1>1, <1>2, <1>3, <2>1, <2>3, <2>7, ClaimsC
<1>4. CASE ~Claimable(r, HolderOf[x])
  <2>1. Finish(x) /\ UNCHANGED run
    BY <1>1, <1>4 DEF ClaimStart
  <2>2. Steady
    BY <1>2, <2>1, SteadyStill
  <2>3. \A q \in Runs : ~Minding(x, q)
    BY <1>1, <1>4 DEF Minding, Claimable
  <2> QED BY <1>2, <2>1, <2>2, <2>3, FinishC
<1> QED BY <1>3, <1>4

LEMMA SweepNextC ==
  ASSUME IInv, CInv, NEW x \in Slots, SweepNext(x)
  PROVE  CInv'
<1>1. /\ exec[x].st = "sweep" /\ OriginOK(x) /\ exec[x].batch \in SUBSET Runs
      /\ UNCHANGED <<entries, client, renewals, elapsed, performed, budget>>
  BY DEF SweepNext, CInv, IInv, TypeOK, Exec
<1>2. PICK r \in exec[x].batch :
        IF Claimable(r, HolderOf[x])
        THEN /\ run' = [run EXCEPT ![r] = Claimed(run[r], HolderOf[x])]
             /\ exec' = [exec EXCEPT ![x] = [Idle EXCEPT !.st = "load", !.run = r,
                                                !.batch = exec[x].batch \ {r}]]
        ELSE /\ exec' = [exec EXCEPT ![x] = After(exec[x].batch \ {r})]
             /\ UNCHANGED run
  BY DEF SweepNext
<1>3. /\ r \in Runs /\ Started(r) /\ exec[x].batch \ {r} \in SUBSET Runs
      /\ x \in Resumers /\ x \notin Starters
  BY <1>1, <1>2, DurableConstants DEF OriginOK, Slots
<1>4. CASE Claimable(r, HolderOf[x])
  <2>1. run' = [run EXCEPT ![r] = Claimed(run[r], HolderOf[x])]
    BY <1>2, <1>4
  <2>2. PICK rest \in SUBSET Runs : rest = exec[x].batch \ {r}
    BY <1>3
  <2>3. exec' = [exec EXCEPT ![x] = [Idle EXCEPT !.st = "load", !.run = r, !.batch = rest]]
    BY <1>2, <1>4, <2>2
  <2>4. Others(x) /\ exec'[x].st = "load" /\ exec'[x].run = r /\ exec'[x].batch = rest
    BY <2>3 DEF IInv, TypeOK, Others, Idle
  <2>5. \A q \in Runs : run'[q].status = run[q].status
    BY <1>3, <2>1, ClaimedRow
  <2>6. OriginOK(x)'
    BY <1>1, <1>3, <2>2, <2>4, <2>5 DEF OriginOK, Started, InBody
  <2> QED BY <1>1, <1>2, <1>3, <1>4, <2>1, <2>2, <2>4, <2>6, ClaimsC
<1>5. CASE ~Claimable(r, HolderOf[x])
  <2>1. exec' = [exec EXCEPT ![x] = After(exec[x].batch \ {r})] /\ UNCHANGED run
    BY <1>2, <1>5
  <2>2. /\ Others(x) /\ exec'[x].st \in {"idle", "sweep"}
        /\ exec[x].batch \ {r} = {} => exec'[x].st = "idle"
        /\ exec'[x].batch = exec[x].batch \ {r}
    BY <1>3, <2>1, AfterFacts
  <2>3. Steady
    BY <1>1, <2>1, SteadyStill
  <2>4. OriginOK(x)'
    BY <2>2, <2>3, AwayOrigin
  <2>5. ASSUME Calm', NEW q \in Runs, Unpinned(q) PROVE ~Eyeing(x, q)'
    <3>1. ~Eyeing(x, q)
      BY <1>3, <2>3, <2>5, StillHold DEF CInv, PinnedOK
    <3> QED BY <2>2, <3>1 DEF Eyeing
  <2>6. \A q \in Runs : ~Minding(x, q)
    BY <1>1 DEF Minding
  <2> QED BY <1>1, <2>1, <2>2, <2>3, <2>4, <2>5, <2>6, QuitC
<1> QED BY <1>4, <1>5

\* The insert carries the claim.
LEMMA AdmitRunC ==
  ASSUME IInv, CInv, NEW x \in Slots, NEW r \in Runs, AdmitRun(x, r)
  PROVE  CInv'
<1>1. /\ x \in Starters /\ x \notin Resumers /\ exec[x].st = "idle" /\ OriginOK(x)
      /\ UNCHANGED <<entries, client, renewals, elapsed, performed, budget>>
  BY DurableConstants DEF AdmitRun, CInv
<1>2. ASSUME NEW st, exec' = [exec EXCEPT ![x] = [Idle EXCEPT !.st = st, !.run = r,
                                                             !.inputs = "caller"]]
      PROVE  /\ Others(x) /\ exec'[x].st = st /\ exec'[x].run = r /\ exec'[x].batch = {}
             /\ exec'[x].inputs = "caller"
  BY <1>2 DEF IInv, TypeOK, Others, Idle
<1>3. \A q \in Runs : ~Minding(x, q)
  BY <1>1 DEF Minding
<1>4. CASE run[r].status = "none"
  <2> DEFINE row == [NoRun EXCEPT !.status = "running", !.holder = HolderOf[x], !.live = TRUE]
  <2>1. /\ row.status = "running" /\ row.holder = HolderOf[x] /\ row.live
    BY DEF NoRun
  <2>2. run' = [run EXCEPT ![r] = row] /\ run \in [Runs -> Row]
    BY <1>4 DEF AdmitRun, IInv, TypeOK
  <2> HIDE DEF row
  <2>3. /\ run'[r].status = "running" /\ run'[r].holder = HolderOf[x] /\ run'[r].live
        /\ \A q \in Runs \ {r} : run'[q] = run[q]
    BY <2>1, <2>2
  <2>4. /\ Others(x) /\ exec'[x].st = "admitted" /\ exec'[x].run = r /\ exec'[x].batch = {}
        /\ exec'[x].inputs = "caller"
    BY <1>2, <1>4 DEF AdmitRun
  <2>5. Steady
    <3>1. \A q \in Runs : Started(q) => Started(q)' /\ run'[q].stored = run[q].stored
      BY <1>4, <2>3 DEF Started
    <3> QED BY <1>1, <3>1 DEF Steady, Grows
  <2>6. OriginOK(x)'
    BY <1>1, <2>3, <2>4 DEF OriginOK, Started, InBody
  <2>7. \A q \in Runs : RowOK(q)'
    BY <2>3 DEF CInv, RowOK, Started
  <2>8. ASSUME NEW y \in Slots, exec[y].st \notin {"idle", "sweep"} PROVE exec[y].run # r
    BY <1>4, <2>8 DEF CInv, OriginOK, Started
  <2>9. ASSUME ClaimsHold, NEW y \in Slots \ {x}, Acting(y) PROVE Kept(exec[y].run)
    <3>1. exec[y].run # r /\ exec[y].run \in Runs
      BY <2>8, <2>9 DEF IInv, SlotOK, Acting, Owning, InBody
    <3> QED BY <1>1, <2>3, <3>1 DEF Kept
  <2>10. ASSUME ClaimsHold', budget'.faults = 0
         PROVE  \A q \in Runs, k \in Steps, z \in Slots : DoneOK(q, k, z)'
    <3>1. ClaimsHold /\ budget.faults = 0 /\ Grows
      BY <2>5, <2>10, StillHold DEF Steady
    <3>2. \A z \in Slots : exec[z].st = "record" => exec'[z] = exec[z]
      BY <1>1, <2>4 DEF Others
    <3> QED BY <1>1, <3>1, <3>2, DoneFrame
  <2>11. ASSUME Calm', NEW q \in Runs PROVE PinnedOK(q)'
    <3>1. CASE q = r
      <4>1. entries'[r][InputsPath] # "empty"
        BY <1>1, <2>5, <2>11, StillHold DEF CInv, PinnedOK
      <4>2. ASSUME NEW y \in Resumers PROVE ~Eyeing(y, r)'
        <5>1. exec'[y] = exec[y] /\ OriginOK(y)
          BY <1>1, <2>4 DEF Others, Slots, CInv
        <5> QED BY <1>4, <5>1 DEF OriginOK, Eyeing, Started
      <4>3. Minding(x, r)'
        BY <2>3, <2>4 DEF Minding
      <4> QED BY <1>1, <2>3, <3>1, <4>1, <4>2, <4>3 DEF PinnedOK
    <3>2. CASE q # r
      <4>1. \A y \in Resumers : Eyeing(y, q)' => Eyeing(y, q)
        BY <1>1, <2>4 DEF Eyeing, Others, Slots
      <4>2. \A w \in Starters : Minding(w, q) => Minding(w, q)'
        BY <1>3, <2>3, <2>4, <3>2 DEF Minding, Others, Slots
      <4> QED BY <1>1, <2>3, <2>5, <2>11, <3>2, <4>1, <4>2, PinnedFrame DEF Started
    <3> QED BY <3>1, <3>2
  <2>12. \A q \in Runs, h \in Holders \cup {Gone} : <<q, h>> \in renewals' => Started(q)'
    BY <1>1, <2>5, RenewalsFrame
  <2>13. HeldOK(x)' /\ CurrentOK(x)' /\ FinalOK(x)'
    BY <2>3, <2>4 DEF HeldOK, CurrentOK, FinalOK, InBody
  <2> QED BY <1>1, <2>4, <2>5, <2>6, <2>7, <2>9, <2>10, <2>11, <2>12, <2>13, SlotStepC
<1>5. CASE run[r].status # "none"
  <2>1. UNCHANGED run
    BY <1>5 DEF AdmitRun
  <2>2. /\ Others(x) /\ exec'[x].st = "exists" /\ exec'[x].run = r /\ exec'[x].batch = {}
        /\ exec'[x].inputs = "caller"
    BY <1>2, <1>5 DEF AdmitRun
  <2>3. Steady
    BY <1>1, <2>1, SteadyStill
  <2>4. OriginOK(x)'
    BY <1>1, <1>5, <2>1, <2>2 DEF OriginOK, Started, InBody
  <2> QED BY <1>1, <1>3, <2>1, <2>2, <2>3, <2>4, QuitC
<1> QED BY <1>4, <1>5

-----------------------------------------------------------------------------
(* Renewals, the clock, crashes and the addressing calls. *)

\* A step of something else than the slots.
LEMMA OutsideC ==
  ASSUME IInv, CInv, Steady, UNCHANGED <<exec, performed>>,
         \A r \in Runs : RowOK(r)',
         \A r \in Runs, h \in Holders \cup {Gone} : <<r, h>> \in renewals' => Started(r)',
         \A c \in Clients : client'[c].op = "cancel" => "cancel" \in Ops,
         ClaimsHold' => \A y \in Slots : Acting(y) => Kept(exec[y].run),
         \A r \in Runs : entries'[r][InputsPath] = entries[r][InputsPath],
         \A r \in Runs : ~Started(r) => run'[r].status \in {"none", "cancelled"} \/ run'[r].stored,
         Calm' => \A r \in Runs : Unpinned(r) =>
           \/ run'[r].status = "cancelled"
           \/ /\ run'[r].status = run[r].status
              /\ \A w \in Starters : Minding(w, r) => Minding(w, r)'
  PROVE  CInv'
<1>1. \A y \in Slots : OriginOK(y)'
  BY OriginFrame
<1>2. ClaimsHold' => \A y \in Slots : HeldOK(y)' /\ CurrentOK(y)' /\ FinalOK(y)'
  BY KeptFrame, StillHold
<1>3. ASSUME ClaimsHold', budget'.faults = 0
      PROVE  \A r \in Runs, k \in Steps, z \in Slots : DoneOK(r, k, z)'
  <2>1. ClaimsHold /\ budget.faults = 0 /\ Grows
    BY <1>3, StillHold DEF Steady
  <2> QED BY <2>1, DoneFrame
<1>4. ASSUME Calm', NEW r \in Runs PROVE PinnedOK(r)'
  <2>1. \A y \in Resumers : Eyeing(y, r)' => Eyeing(y, r)
    BY DEF Eyeing
  <2>2. CASE Started(r)
    BY <1>4, <2>1, <2>2, PinnedFrame
  <2>3. CASE ~Started(r)
    <3>1. PinnedOK(r)
      BY <1>4, StillHold DEF CInv
    <3>2. \A y \in Resumers : ~Eyeing(y, r)
      BY <2>3 DEF CInv, OriginOK, Eyeing, Slots
    <3> QED BY <2>1, <2>3, <3>1, <3>2 DEF PinnedOK, Unpinned, Started
  <2> QED BY <2>2, <2>3
<1> QED BY <1>1, <1>2, <1>3, <1>4 DEF CInv

LEMMA FireRenewalC ==
  ASSUME IInv, CInv, NEW x \in Slots, FireRenewal(x)
  PROVE  CInv'
<1>1. Steady
  BY SteadyStill DEF FireRenewal
<1>2. Started(exec[x].run)
  BY DEF CInv, OriginOK, FireRenewal, InBody
<1>3. \A r \in Runs, h \in Holders \cup {Gone} : <<r, h>> \in renewals' => Started(r)'
  BY <1>2 DEF CInv, Started, FireRenewal
<1>4. \A r \in Runs : RowOK(r)'
  BY RowsFrame DEF FireRenewal
<1>5. \A y \in Slots : Kept(exec[y].run)
  BY DEF Kept, FireRenewal
<1>6. \A r \in Runs : ~Started(r) => run'[r].status = "none"
  BY DEF Started, FireRenewal
<1>7. \A r \in Runs, w \in Starters : Minding(w, r) => Minding(w, r)'
  BY DEF Minding, FireRenewal
<1>8. \A c \in Clients : client'[c].op = "cancel" => "cancel" \in Ops
  BY DEF CInv, FireRenewal
<1> QED BY <1>1, <1>3, <1>4, <1>5, <1>6, <1>7, <1>8, OutsideC DEF FireRenewal

LEMMA LandRenewalC ==
  ASSUME IInv, CInv, NEW r \in Runs, NEW h \in Holders \cup {Gone}, LandRenewal(r, h)
  PROVE  CInv'
<1>1. /\ <<r, h>> \in renewals /\ renewals' \subseteq renewals
      /\ UNCHANGED <<entries, exec, client, elapsed, performed, budget>>
  BY DEF LandRenewal
<1>2. Started(r)
  BY <1>1 DEF CInv
<1>3. ASSUME NEW q \in Runs
      PROVE  /\ run'[q].status = run[q].status /\ run'[q].stored = run[q].stored
             /\ run'[q].result = run[q].result
             /\ q # r => run'[q] = run[q]
             /\ run[q].holder \in Holders /\ run[q].live =>
                  run'[q].holder = run[q].holder /\ run'[q].live = run[q].live
  <2>1. CASE Claimable(r, h)
    <3>1. run' = [run EXCEPT ![r] = Claimed(run[r], h)]
      BY <2>1 DEF LandRenewal
    <3>2. CASE q = r
      BY <2>1, <3>1, <3>2, ClaimedRow, ClaimKeeps
    <3>3. CASE q # r
      BY <3>1, <3>3, ClaimedRow
    <3> QED BY <3>2, <3>3
  <2>2. CASE ~Claimable(r, h)
    BY <2>2 DEF LandRenewal
  <2> QED BY <2>1, <2>2
<1>4. Steady
  <2>1. \A q \in Runs : Started(q) => Started(q)' /\ run'[q].stored = run[q].stored
    BY <1>3 DEF Started
  <2> QED BY <1>1, <2>1 DEF Steady, Grows
<1>5. \A q \in Runs : RowOK(q)'
  <2>1. ASSUME NEW q \in Runs PROVE RowOK(q)'
    <3>1. RowOK(q)
      BY DEF CInv
    <3>2. CASE q = r
      BY <1>2, <1>3, <3>1, <3>2 DEF RowOK, Started
    <3>3. CASE q # r
      BY <1>3, <3>1, <3>3 DEF RowOK, Started
    <3> QED BY <3>2, <3>3
  <2> QED BY <2>1
<1>6. ASSUME ClaimsHold', NEW y \in Slots, Acting(y) PROVE Kept(exec[y].run)
  <2>1. exec[y].run \in Runs /\ HolderOf[y] \in Holders
    BY <1>6, DurableConstants DEF IInv, SlotOK, Acting, Owning, InBody
  <2>2. run[exec[y].run].holder = HolderOf[y] /\ run[exec[y].run].live
    BY <1>4, <1>6, StillHold DEF CInv, HeldOK
  <2> QED BY <1>1, <1>3, <2>1, <2>2 DEF Kept
<1>7. ASSUME NEW q \in Runs, NEW w \in Starters, Minding(w, q) PROVE Minding(w, q)'
  <2>1. HolderOf[w] \in Holders
    BY DurableConstants DEF Slots
  <2> QED BY <1>1, <1>3, <1>7, <2>1 DEF Minding
<1>8. \A q \in Runs, g \in Holders \cup {Gone} : <<q, g>> \in renewals' => Started(q)'
  BY <1>1, <1>4, RenewalsFrame
<1>9. \A c \in Clients : client'[c].op = "cancel" => "cancel" \in Ops
  BY <1>1 DEF CInv
<1>10. \A q \in Runs : ~Started(q) => run'[q].status = "none"
  BY <1>3 DEF Started
<1> QED BY <1>1, <1>3, <1>4, <1>5, <1>6, <1>7, <1>8, <1>9, <1>10, OutsideC

\* A claim lapses under its holder only if renewals were lost.
LEMMA LapseC ==
  ASSUME IInv, CInv, NEW r \in Runs, Lapse(r)
  PROVE  CInv'
<1>1. UNCHANGED <<entries, exec, client, renewals, elapsed, performed>>
  BY DEF Lapse
<1>2. ASSUME NEW q \in Runs
      PROVE  /\ run'[q].status = run[q].status /\ run'[q].stored = run[q].stored
             /\ run'[q].result = run[q].result /\ run'[q].holder = run[q].holder
             /\ q # r => run'[q] = run[q]
  <2>1. run' = [run EXCEPT ![r].live = FALSE] /\ run \in [Runs -> Row]
    BY DEF Lapse, IInv, TypeOK
  <2> QED BY <2>1 DEF Row
<1>3. budget.lapses \in Nat /\ budget \in [faults : 0..MaxFaults, lapses : 0..MaxLapses]
  BY DurableConstants DEF IInv, TypeOK
<1>4. /\ budget'.faults = budget.faults
      /\ Worked(r) => budget'.lapses # 0
      /\ budget'.lapses = 0 => budget.lapses = 0
  <2>1. CASE Worked(r)
    <3>1. budget' = [budget EXCEPT !.lapses = budget.lapses + 1]
      BY <2>1 DEF Lapse
    <3> QED BY <1>3, <3>1
  <2>2. CASE ~Worked(r)
    <3>1. budget' = budget
      BY <2>2 DEF Lapse
    <3> QED BY <2>2, <3>1
  <2> QED BY <2>1, <2>2
<1>5. Steady
  <2>1. \A q \in Runs : Started(q) => Started(q)' /\ run'[q].stored = run[q].stored
    BY <1>2 DEF Started
  <2> QED BY <1>1, <1>4, <2>1 DEF Steady, Grows
<1>6. \A q \in Runs : RowOK(q)'
  BY <1>2 DEF CInv, RowOK, Started
<1>7. ASSUME ClaimsHold', NEW y \in Slots, Acting(y) PROVE Kept(exec[y].run)
  <2>1. exec[y].run \in Runs /\ ~Worked(r)
    BY <1>4, <1>7 DEF IInv, SlotOK, Acting, Owning, InBody, ClaimsHold
  <2>2. run[exec[y].run].holder = HolderOf[y]
    BY <1>5, <1>7, StillHold DEF CInv, HeldOK
  <2>3. exec[y].run # r
    BY <1>7, <2>1, <2>2 DEF Worked, Acting
  <2> QED BY <1>1, <1>2, <2>1, <2>3 DEF Kept
<1>8. ASSUME Calm', NEW q \in Runs, NEW w \in Starters, Minding(w, q) PROVE Minding(w, q)'
  <2>1. q # r
    <3>1. ~Worked(r)
      BY <1>4, <1>8 DEF Calm
    <3> QED BY <1>8, <3>1 DEF Worked, Minding, Slots, Owning, InBody
  <2> QED BY <1>1, <1>2, <1>8, <2>1 DEF Minding
<1>9. \A q \in Runs, g \in Holders \cup {Gone} : <<q, g>> \in renewals' => Started(q)'
  BY <1>1, <1>5, RenewalsFrame
<1>10. \A c \in Clients : client'[c].op = "cancel" => "cancel" \in Ops
  BY <1>1 DEF CInv
<1>11. \A q \in Runs : ~Started(q) => run'[q].status = "none"
  BY <1>2 DEF Started
<1> QED BY <1>1, <1>2, <1>5, <1>6, <1>7, <1>8, <1>9, <1>10, <1>11, OutsideC

\* A step that leaves the rows and the journal alone.
LEMMA RowsStayC ==
  ASSUME IInv, CInv, UNCHANGED <<run, exec, renewals, performed, budget>>,
         elapsed \subseteq elapsed', Grows,
         \A c \in Clients : client'[c].op = "cancel" => "cancel" \in Ops,
         \A r \in Runs : entries'[r][InputsPath] = entries[r][InputsPath],
         \A r \in Runs, k \in Steps :
           Body[k] = "effect" => entries'[r][OwnPath(k)] = entries[r][OwnPath(k)]
  PROVE  CInv'
<1>1. Steady
  BY DEF Steady, Started
<1>2. \A r \in Runs : RowOK(r)'
  BY RowsFrame
<1>3. \A y \in Slots : Acting(y) => Kept(exec[y].run)
  BY DEF Kept, IInv, SlotOK, Acting, Owning, InBody
<1>4. \A r \in Runs : ~Started(r) => run'[r].status = "none"
  BY DEF Started
<1>5. \A r \in Runs, w \in Starters : Minding(w, r) => Minding(w, r)'
  BY DEF Minding
<1>6. \A r \in Runs, h \in Holders \cup {Gone} : <<r, h>> \in renewals' => Started(r)'
  BY <1>1, RenewalsFrame
<1> QED BY <1>1, <1>2, <1>3, <1>4, <1>5, <1>6, OutsideC

LEMMA ElapseC ==
  ASSUME IInv, CInv, NEW r \in Runs, Elapse(r)
  PROVE  CInv'
<1>1. Grows /\ \A c \in Clients : client'[c].op = "cancel" => "cancel" \in Ops
  BY DEF Grows, Elapse, CInv
<1> QED BY <1>1, RowsStayC DEF Elapse

LEMMA CrashC ==
  ASSUME IInv, CInv, NEW host \in Hosts, Crash(host)
  PROVE  CInv'
<1> DEFINE dead == {HolderOf[x] : x \in {y \in Slots : HostOf[y] = host}}
           Now(h) == IF h \in dead THEN Gone ELSE h
<1>1. /\ UNCHANGED <<entries, client, elapsed, performed>>
      /\ exec' = [x \in Slots |-> IF HostOf[x] = host THEN Idle ELSE exec[x]]
      /\ run' = [r \in Runs |-> [run[r] EXCEPT !.holder = Now(run[r].holder)]]
      /\ renewals' = {<<m[1], Now(m[2])>> : m \in renewals}
  BY DEF Crash
<1>2. budget'.faults # 0 /\ budget'.lapses = budget.lapses
  <2>1. budget.faults \in Nat /\ budget \in [faults : 0..MaxFaults, lapses : 0..MaxLapses]
    BY DurableConstants DEF IInv, TypeOK
  <2>2. budget' = [budget EXCEPT !.faults = budget.faults + 1]
    BY DEF Crash
  <2> QED BY <2>1, <2>2
<1>3. ASSUME NEW r \in Runs
      PROVE  /\ run'[r].status = run[r].status /\ run'[r].stored = run[r].stored
             /\ run'[r].result = run[r].result /\ run'[r].live = run[r].live
             /\ run'[r].holder = Now(run[r].holder)
  <2> HIDE DEF Now
  <2>1. run[r] \in Row
    BY DEF IInv, TypeOK
  <2> QED BY <1>1, <2>1 DEF Row
<1>4. Steady
  <2>1. \A r \in Runs : Started(r) => Started(r)' /\ run'[r].stored = run[r].stored
    BY <1>3 DEF Started
  <2> QED BY <1>1, <1>2, <2>1 DEF Steady, Grows
<1>5. dead \subseteq Holders /\ None \notin dead
  BY DurableConstants
<1>6. \A r \in Runs : RowOK(r)'
  BY <1>3, <1>5 DEF CInv, RowOK, Started
<1>7. ASSUME NEW y \in Slots, HostOf[y] = host
      PROVE  OriginOK(y)' /\ HeldOK(y)' /\ CurrentOK(y)' /\ FinalOK(y)'
  <2>1. exec'[y].st = "idle" /\ exec'[y].batch = {}
    BY <1>1, <1>7 DEF Idle
  <2> QED BY <2>1 DEF OriginOK, HeldOK, CurrentOK, FinalOK, Acting, Owning, InBody
<1>8. ASSUME NEW y \in Slots, HostOf[y] # host PROVE exec'[y] = exec[y] /\ HolderOf[y] \notin dead
  BY <1>1, <1>8, DurableConstants
<1>9. \A y \in Slots : OriginOK(y)'
  BY <1>4, <1>7, <1>8, OriginFrame
<1>10. ASSUME ClaimsHold', NEW y \in Slots PROVE HeldOK(y)' /\ CurrentOK(y)' /\ FinalOK(y)'
  <2>1. CASE HostOf[y] = host
    BY <1>7, <2>1
  <2>2. CASE HostOf[y] # host
    <3>1. ClaimsHold /\ HeldOK(y)
      BY <1>4, <1>10, StillHold DEF CInv
    <3>2. Acting(y) => exec[y].run \in Runs /\ run[exec[y].run].holder = HolderOf[y]
      BY <3>1 DEF HeldOK, IInv, SlotOK, Acting, Owning, InBody
    <3>3. Acting(y) => Kept(exec[y].run)
      BY <1>1, <1>3, <1>8, <2>2, <3>2 DEF Kept
    <3> QED BY <1>8, <2>2, <3>1, <3>3, KeptFrame
  <2> QED BY <2>1, <2>2
<1>11. ASSUME NEW r \in Runs, NEW h \in Holders \cup {Gone}, <<r, h>> \in renewals'
       PROVE  Started(r)'
  <2>1. PICK m \in renewals : <<r, h>> = <<m[1], Now(m[2])>>
    BY <1>1, <1>11
  <2>2. m \in Runs \X (Holders \cup {Gone}) /\ r = m[1]
    BY <2>1 DEF IInv, TypeOK
  <2>3. <<r, m[2]>> \in renewals /\ m[2] \in Holders \cup {Gone}
    BY <2>1, <2>2
  <2> QED BY <1>4, <2>3 DEF CInv, Steady
<1>12. \A c \in Clients : client'[c].op = "cancel" => "cancel" \in Ops
  BY <1>1 DEF CInv
<1> QED BY <1>2, <1>6, <1>9, <1>10, <1>11, <1>12 DEF CInv, Calm

LEMMA EnterC ==
  ASSUME IInv, CInv, NEW c \in Clients, NEW op, NEW r, NEW k, Enter(c, op, r, k),
         op = "cancel" => "cancel" \in Ops
  PROVE  \A d \in Clients : client'[d].op = "cancel" => "cancel" \in Ops
BY DEF IInv, TypeOK, CInv, Enter

LEMMA ReturnC ==
  ASSUME IInv, CInv, NEW c \in Clients, Return(c)
  PROVE  \A d \in Clients : client'[d].op = "cancel" => "cancel" \in Ops
<1>1. client'[c].op = "done" /\ \A d \in Clients \ {c} : client'[d] = client[d]
  BY DEF IInv, TypeOK, Return, NoCall
<1> QED BY <1>1 DEF CInv

LEMMA DeliverAppendC ==
  ASSUME IInv, CInv, NEW c \in Clients, DeliverAppend(c)
  PROVE  CInv'
<1>1. PICK r \in Runs, k \in Steps : r = client[c].run /\ k = client[c].at
  BY DEF DeliverAppend, IInv, CallOK
<1>2. Body[k] \in {"await", "awaitTimeout"} /\ OwnPath(k) \in Path /\ c \in Value
  BY <1>1, Paths DEF DeliverAppend, IInv, CallOK, Value, Author
<1>3. /\ Append(r, OwnPath(k), c) /\ Enter(c, "unpark", r, 0)
      /\ UNCHANGED <<run, exec, renewals, elapsed, performed, budget>>
  BY <1>1 DEF DeliverAppend
<1>4. /\ Grows
      /\ \A q \in Runs, o \in Path : q # r \/ o # OwnPath(k) => entries'[q][o] = entries[q][o]
  BY <1>2, <1>3, AppendGrows
<1>5. /\ \A q \in Runs : entries'[q][InputsPath] = entries[q][InputsPath]
      /\ \A q \in Runs, j \in Steps :
           Body[j] = "effect" => entries'[q][OwnPath(j)] = entries[q][OwnPath(j)]
  BY <1>2, <1>4, Paths, PathsDiffer
<1>6. \A d \in Clients : client'[d].op = "cancel" => "cancel" \in Ops
  BY <1>3, EnterC
<1> QED BY <1>3, <1>4, <1>5, <1>6, RowsStayC

LEMMA OverrideAppendC ==
  ASSUME IInv, CInv, NEW c \in Clients, OverrideAppend(c)
  PROVE  CInv'
<1>1. PICK r \in Runs : r = client[c].run
  BY DEF OverrideAppend, IInv, CallOK
<1>2. OverridePath \in Path /\ c \in Value
  BY Paths DEF Value, Author
<1>3. /\ Append(r, OverridePath, c) /\ Enter(c, "unpark", r, 0)
      /\ UNCHANGED <<run, exec, renewals, elapsed, performed, budget>>
  BY <1>1 DEF OverrideAppend
<1>4. /\ Grows
      /\ \A q \in Runs, o \in Path : q # r \/ o # OverridePath => entries'[q][o] = entries[q][o]
  BY <1>2, <1>3, AppendGrows
<1>5. InputsPath # OverridePath
  BY DEF InputsPath, OverridePath
<1>6. /\ \A q \in Runs : entries'[q][InputsPath] = entries[q][InputsPath]
      /\ \A q \in Runs, j \in Steps : entries'[q][OwnPath(j)] = entries[q][OwnPath(j)]
  BY <1>4, <1>5, Paths, PathsDiffer
<1>7. \A d \in Clients : client'[d].op = "cancel" => "cancel" \in Ops
  BY <1>3, EnterC
<1> QED BY <1>3, <1>4, <1>6, <1>7, RowsStayC

\* A call that touches no row and no entry.
LEMMA ReadC ==
  ASSUME IInv, CInv, UNCHANGED <<run, entries, exec, renewals, elapsed, performed, budget>>,
         \A d \in Clients : client'[d].op = "cancel" => "cancel" \in Ops
  PROVE  CInv'
<1>1. Grows
  BY DEF Grows
<1> QED BY <1>1, RowsStayC

\* Unparking leaves the claim alone, and an unpinned run is not parked.
LEMMA UnparkC ==
  ASSUME IInv, CInv, NEW c \in Clients, Unpark(c)
  PROVE  CInv'
<1>1. PICK r \in Runs : r = client[c].run
  BY DEF Unpark, IInv, CallOK
<1>2. Return(c) /\ UNCHANGED <<entries, exec, renewals, elapsed, performed, budget>>
  BY DEF Unpark
<1>3. \A d \in Clients : client'[d].op = "cancel" => "cancel" \in Ops
  BY <1>2, ReturnC
<1>4. CASE run[r].status # "parked"
  <2>1. run' = run
    BY <1>1, <1>4 DEF Unpark, UnparkRun, IInv, TypeOK
  <2> QED BY <1>2, <1>3, <2>1, ReadC
<1>5. CASE run[r].status = "parked"
  <2>1. run' = [run EXCEPT ![r] = IF run[r].status = "parked"
                                  THEN [run[r] EXCEPT !.status = "running", !.parked = 0,
                                                      !.token = None, !.due = None]
                                  ELSE run[r]]
    BY <1>1, Zenon DEF Unpark, UnparkRun
  <2>2. /\ run'[r].status = "running" /\ run'[r].stored = run[r].stored
        /\ run'[r].holder = run[r].holder /\ run'[r].live = run[r].live
        /\ \A q \in Runs \ {r} : run'[q] = run[q]
    BY <1>5, <2>1 DEF IInv, TypeOK, Row
  <2>3. Steady
    <3>1. \A q \in Runs : Started(q) => Started(q)' /\ run'[q].stored = run[q].stored
      BY <2>2 DEF Started
    <3> QED BY <1>2, <3>1 DEF Steady, Grows
  <2>4. \A q \in Runs : RowOK(q)'
    BY <2>2 DEF CInv, RowOK, Started
  <2>5. \A y \in Slots : Acting(y) => Kept(exec[y].run)
    BY <1>2, <2>2 DEF Kept, IInv, SlotOK, Acting, Owning, InBody
  <2>6. ASSUME Calm', NEW q \in Runs, Unpinned(q)
        PROVE  /\ run'[q].status = run[q].status
               /\ \A w \in Starters : Minding(w, q) => Minding(w, q)'
    <3>1. PinnedOK(q)
      BY <2>3, <2>6, StillHold DEF CInv
    <3>2. q # r
      BY <1>5, <2>6, <3>1 DEF PinnedOK
    <3> QED BY <1>2, <2>2, <3>2 DEF Minding
  <2>7. \A q \in Runs, g \in Holders \cup {Gone} : <<q, g>> \in renewals' => Started(q)'
    BY <1>2, <2>3, RenewalsFrame
  <2>8. \A q \in Runs : ~Started(q) => run'[q].status = "none"
    BY <1>5, <2>2 DEF Started
  <2> QED BY <1>2, <1>3, <2>3, <2>4, <2>5, <2>6, <2>7, <2>8, OutsideC
<1> QED BY <1>4, <1>5

\* Cancelling takes the claim from under whoever holds it.
LEMMA CancelWriteC ==
  ASSUME IInv, CInv, NEW c \in Clients, CancelWrite(c)
  PROVE  CInv'
<1>1. PICK r \in Runs : r = client[c].run
  BY DEF CancelWrite, IInv, CallOK
<1>2. /\ Return(c) /\ UNCHANGED <<entries, exec, renewals, elapsed, performed, budget>>
      /\ CompleteRun(r, "cancelled", None) /\ "cancelled" \in RunStatus
  BY <1>1 DEF CancelWrite, RunStatus
<1>3. \A d \in Clients : client'[d].op = "cancel" => "cancel" \in Ops
  BY <1>2, ReturnC
<1>4. /\ run'[r].status = "cancelled" /\ run'[r].stored = run[r].stored
      /\ \A q \in Runs \ {r} : run'[q] = run[q]
  BY <1>2, CompleteRow, CompleteStored
<1>5. run'[r].holder = None
  BY <1>2 DEF CompleteRun, IInv, TypeOK, Row
<1>6. Steady
  <2>1. \A q \in Runs : Started(q) => Started(q)' /\ run'[q].stored = run[q].stored
    BY <1>4 DEF Started
  <2> QED BY <1>2, <2>1 DEF Steady, Grows
<1>7. \A q \in Runs : RowOK(q)'
  BY <1>4 DEF CInv, RowOK, Started
<1>8. ~ClaimsHold
  BY DEF CancelWrite, CInv, ClaimsHold
<1>9. ~ClaimsHold'
  BY <1>6, <1>8, StillHold
<1>10. \A q \in Runs : \/ run'[q].status = "cancelled"
                       \/ /\ run'[q].status = run[q].status
                          /\ \A w \in Starters : Minding(w, q) => Minding(w, q)'
  BY <1>2, <1>4 DEF Minding
<1>11. \A q \in Runs, g \in Holders \cup {Gone} : <<q, g>> \in renewals' => Started(q)'
  BY <1>2, <1>6, RenewalsFrame
<1>12. \A q \in Runs : ~Started(q) => run'[q].status \in {"none", "cancelled"}
  BY <1>4 DEF Started
<1> QED BY <1>2, <1>3, <1>6, <1>7, <1>9, <1>10, <1>11, <1>12, OutsideC

LEMMA ScheduleC ==
  ASSUME IInv, CInv, NEW c \in Clients, NEW r \in Runs, Schedule(c, r)
  PROVE  CInv'
<1>1. /\ Return(c) /\ UNCHANGED <<entries, exec, renewals, elapsed, performed, budget>>
      /\ ~Started(r)
  BY DEF Schedule, Started
<1>2. \A d \in Clients : client'[d].op = "cancel" => "cancel" \in Ops
  BY <1>1, ReturnC
<1>3. /\ run'[r].status = "scheduled" /\ run'[r].stored /\ run'[r].holder = None
      /\ \A q \in Runs \ {r} : run'[q] = run[q]
  BY DEF Schedule, NoRun, IInv, TypeOK
<1>4. Steady
  <2>1. \A q \in Runs : Started(q) => Started(q)' /\ run'[q].stored = run[q].stored
    BY <1>1, <1>3 DEF Started
  <2> QED BY <1>1, <2>1 DEF Steady, Grows
<1>5. \A q \in Runs : RowOK(q)'
  BY <1>3 DEF CInv, RowOK, Started
<1>6. ASSUME NEW y \in Slots, Acting(y) PROVE Kept(exec[y].run)
  <2>1. exec[y].run \in Runs /\ exec[y].run # r
    BY <1>1, <1>6 DEF CInv, OriginOK, IInv, SlotOK, Acting, Owning, InBody
  <2> QED BY <1>1, <1>3, <2>1 DEF Kept
<1>7. ASSUME NEW q \in Runs, Unpinned(q)
      PROVE  /\ run'[q].status = run[q].status
             /\ \A w \in Starters : Minding(w, q) => Minding(w, q)'
  BY <1>1, <1>3, <1>7 DEF Minding, Unpinned
<1>8. \A q \in Runs, g \in Holders \cup {Gone} : <<q, g>> \in renewals' => Started(q)'
  BY <1>1, <1>4, RenewalsFrame
<1>9. \A q \in Runs : ~Started(q) => run'[q].status = "none" \/ run'[q].stored
  BY <1>3 DEF Started
<1> QED BY <1>1, <1>2, <1>4, <1>5, <1>6, <1>7, <1>8, <1>9, OutsideC

LEMMA AddressC ==
  ASSUME IInv, CInv, NEW c \in Clients, Address(c)
  PROVE  CInv'
<1>1. ASSUME NEW r \in Runs, DeliverFind(c, r) PROVE CInv'
  BY <1>1, EnterC, ReadC DEF DeliverFind
<1>2. ASSUME NEW r \in Runs, CancelRead(c, r) PROVE CInv'
  BY <1>2, EnterC, ReadC DEF CancelRead
<1>3. ASSUME NEW r \in Runs, ResumeRead(c, r) PROVE CInv'
  BY <1>3, EnterC, ReadC DEF ResumeRead
<1>4. ASSUME NEW r \in Runs, Schedule(c, r) PROVE CInv'
  BY <1>4, ScheduleC
<1>5. CASE DeliverAppend(c)  BY <1>5, DeliverAppendC
<1>6. CASE Unpark(c)         BY <1>6, UnparkC
<1>7. CASE CancelWrite(c)    BY <1>7, CancelWriteC
<1>8. CASE OverrideAppend(c) BY <1>8, OverrideAppendC
<1>9. CASE Abandon(c)        BY <1>9, ReturnC, ReadC DEF Abandon
<1> QED BY <1>1, <1>2, <1>3, <1>4, <1>5, <1>6, <1>7, <1>8, <1>9 DEF Address

-----------------------------------------------------------------------------
(* What the claim protects, put together. *)

LEMMA ClaimsInit == Init => CInv
<1> SUFFICES ASSUME Init PROVE CInv
  OBVIOUS
<1>1. \A r \in Runs : RowOK(r) /\ ~Started(r)
  BY DEF Init, NoRun, RowOK, Started
<1>2. \A x \in Slots : exec[x].st = "idle" /\ exec[x].batch = {}
  BY DEF Init, Idle
<1>3. \A x \in Slots : OriginOK(x) /\ HeldOK(x) /\ CurrentOK(x) /\ FinalOK(x)
  BY <1>2 DEF OriginOK, HeldOK, CurrentOK, FinalOK, Acting, Owning, InBody
<1>4. \A r \in Runs : PinnedOK(r)
  BY <1>1, Paths, DurableConstants DEF Init, NothingSeen, PinnedOK, Unpinned, InputOrigin
<1>5. \A r \in Runs, k \in Steps, x \in Slots : DoneOK(r, k, x)
  BY DEF Init, DoneOK
<1>6. \A c \in Clients : client[c].op = "none"
  BY DEF Init, NoCall
<1>7. renewals = {}
  BY DEF Init
<1> QED BY <1>1, <1>3, <1>4, <1>5, <1>6, <1>7 DEF CInv

LEMMA DriveC ==
  ASSUME IInv, CInv, NEW x \in Slots, Drive(x)
  PROVE  CInv'
<1>1. CASE ReadExisting(x)  BY <1>1, ReadExistingC
<1>2. CASE ClaimStart(x)    BY <1>2, ClaimStartC
<1>3. CASE SweepNext(x)     BY <1>3, SweepNextC
<1>4. CASE Load(x)          BY <1>4, LoadC
<1>5. CASE Open(x)          BY <1>5, OpenC
<1>6. CASE DecideInputs(x)  BY <1>6, DecideInputsC
<1>7. CASE Replay(x)        BY <1>7, ReplayC
<1>8. CASE PerformEffect(x) BY <1>8, PerformEffectC
<1>9. CASE FailEffect(x)    BY <1>9, FailEffectC
<1>10. CASE RecordStep(x)   BY <1>10, RecordStepC
<1>11. CASE PinToken(x)     BY <1>11, PinTokenC
<1>12. CASE PinDeadline(x)  BY <1>12, PinDeadlineC
<1>13. CASE SleepDone(x)    BY <1>13, SleepDoneC
<1>14. CASE AwaitTimeout(x) BY <1>14, AwaitTimeoutC
<1>15. CASE DecideToPark(x) BY <1>15, DecideToParkC
<1>16. CASE Park(x)         BY <1>16, ParkC
<1>17. CASE SettleFailed(x) BY <1>17, SettleFailedC
<1>18. CASE Complete(x)     BY <1>18, CompleteC
<1> QED BY <1>1, <1>2, <1>3, <1>4, <1>5, <1>6, <1>7, <1>8, <1>9, <1>10,
           <1>11, <1>12, <1>13, <1>14, <1>15, <1>16, <1>17, <1>18 DEF Drive

LEMMA ClaimsNext == IInv /\ CInv /\ [Next]_vars => CInv'
<1> SUFFICES ASSUME IInv, CInv, [Next]_vars PROVE CInv'
  OBVIOUS
<1>1. ASSUME NEW x \in Slots, NEW r \in Runs, AdmitRun(x, r) PROVE CInv'
  BY <1>1, AdmitRunC
<1>2. ASSUME NEW x \in Slots, Sweep(x) PROVE CInv'
  BY <1>2, SweepC
<1>3. ASSUME NEW x \in Slots, Drive(x) PROVE CInv'
  BY <1>3, DriveC
<1>4. ASSUME NEW x \in Slots, Interrupt(x) PROVE CInv'
  BY <1>4, InterruptC
<1>5. ASSUME NEW x \in Slots, FireRenewal(x) PROVE CInv'
  BY <1>5, FireRenewalC
<1>6. ASSUME NEW r \in Runs, NEW h \in Holders \cup {Gone}, LandRenewal(r, h) PROVE CInv'
  BY <1>6, LandRenewalC
<1>7. ASSUME NEW r \in Runs, Lapse(r) PROVE CInv'
  BY <1>7, LapseC
<1>8. ASSUME NEW r \in Runs, Elapse(r) PROVE CInv'
  BY <1>8, ElapseC
<1>9. ASSUME NEW host \in Hosts, Crash(host) PROVE CInv'
  BY <1>9, CrashC
<1>10. ASSUME NEW c \in Clients, Address(c) PROVE CInv'
  BY <1>10, AddressC
<1>11. ASSUME NEW x \in Slots, FailWrite(x) PROVE CInv'
  BY <1>11, FailWriteC
<1>12. CASE UNCHANGED vars
  <2>1. Grows /\ \A c \in Clients : client'[c].op = "cancel" => "cancel" \in Ops
    BY <1>12 DEF Grows, CInv, vars
  <2> QED BY <1>12, <2>1, RowsStayC DEF vars
<1> QED BY <1>1, <1>2, <1>3, <1>4, <1>5, <1>6, <1>7, <1>8, <1>9, <1>10, <1>11,
           <1>12 DEF Next

\* What the slots, the rows and the history must be for the claim to protect.
THEOREM ClaimsInvariant == Spec => [](IInv /\ CInv)
<1>1. IInv /\ CInv /\ [Next]_vars => (IInv /\ CInv)'
  BY NextOK, ClaimsNext
<1>2. Init => IInv /\ CInv
  BY InitOK, ClaimsInit
<1> QED BY <1>1, <1>2, PTL DEF Spec

\* A claim that is renewed in time keeps every other execution of the run away,
\* lets no effect be performed twice, and lets no resumer run the body before its
\* start has pinned the inputs its caller sent.
THEOREM ClaimsProtected == Spec => []ClaimsProtect
<1>1. IInv /\ CInv => ClaimsProtect
  <2> SUFFICES ASSUME IInv, CInv PROVE ClaimsProtect
    OBVIOUS
  <2>1. InputsSurvive
    BY DEF CInv, Calm, PinnedOK, InputsSurvive
  <2>2. ExclusiveExecution
    BY AloneOK DEF ExclusiveExecution, Alone, Acting
  <2>3. EffectOnce
    BY DEF CInv, DoneOK, EffectOnce
  <2> QED BY <2>1, <2>2, <2>3 DEF ClaimsProtect
<1> QED BY <1>1, ClaimsInvariant, PTL

-----------------------------------------------------------------------------
(* A completed run stays as it is. *)

StaysFinal ==
  \A r \in Runs : run[r].status = "completed" =>
    run'[r].status = "completed" /\ run'[r].result = run[r].result

LEMMA ClaimFinal ==
  ASSUME IInv, NEW r \in Runs, NEW h, run' = [run EXCEPT ![r] = Claimed(run[r], h)]
  PROVE  StaysFinal
BY ClaimedRow DEF StaysFinal

\* Only the body's own run is touched, and a completed one is only completed
\* again, with what the journal holds.
LEMMA OwnFinal ==
  ASSUME IInv, CInv, ClaimsHold, NEW x \in Slots, NEW r \in Runs, r = exec[x].run,
         exec[x].st \in InBody,
         \A q \in Runs \ {r} : run'[q] = run[q],
         exec[x].st = "step" => /\ run'[r].status = "completed"
                                /\ run'[r].result = [k \in Steps |-> exec[x].seen[OwnPath(k)]]
                                /\ exec[x].at = N + 1,
         exec[x].st # "inputs"
  PROVE  StaysFinal
<1> SUFFICES ASSUME run[r].status = "completed"
             PROVE  run'[r].status = "completed" /\ run'[r].result = run[r].result
  BY DEF StaysFinal
<1>1. FinalOK(x) /\ RowOK(r) /\ ResultOK(r) /\ AgreeOK(x)
  BY DEF CInv, IInv
<1>2. exec[x].st = "step" /\ \A k \in Steps : exec[x].seen[OwnPath(k)] # None
  BY <1>1 DEF FinalOK
<1>3. \A k \in Steps : exec[x].seen[OwnPath(k)] = run[r].result[k]
  BY <1>1, <1>2, Paths DEF AgreeOK, ResultOK
<1>4. run[r].result \in [Steps -> Value \cup {None}]
  BY <1>1 DEF RowOK
<1>5. [k \in Steps |-> exec[x].seen[OwnPath(k)]] = run[r].result
  BY <1>3, <1>4
<1> QED BY <1>2, <1>5

LEMMA CompleteFinal ==
  ASSUME IInv, CInv, ClaimsHold, NEW x \in Slots, Complete(x)
  PROVE  StaysFinal
<1> DEFINE result == [j \in Steps |-> exec[x].seen[OwnPath(j)]]
<1>1. PICK r \in Runs : r = exec[x].run
  BY DEF Complete, IInv, SlotOK
<1>2. result \in [Steps -> Value \cup {None}] /\ "completed" \in RunStatus
  BY Paths DEF IInv, TypeOK, Exec, RunStatus
<1>3. CASE exec[x].latched
  BY <1>3 DEF Complete, StaysFinal
<1>4. CASE ~exec[x].latched
  <2>1. CompleteRun(r, "completed", result)
    BY <1>1, <1>4 DEF Complete
  <2>2. /\ run'[r].status = "completed" /\ \A q \in Runs \ {r} : run'[q] = run[q]
        /\ run'[r].result = result
    <3> HIDE DEF result
    <3> QED BY <1>2, <2>1, CompleteRow
  <2>3. exec[x].st = "step" /\ exec[x].at = N + 1
    BY DEF Complete
  <2> QED BY <1>1, <2>2, <2>3, OwnFinal DEF InBody
<1> QED BY <1>3, <1>4

LEMMA SettleFailedFinal ==
  ASSUME IInv, CInv, ClaimsHold, NEW x \in Slots, SettleFailed(x)
  PROVE  StaysFinal
<1>1. PICK r \in Runs : r = exec[x].run
  BY DEF SettleFailed, IInv, SlotOK
<1>2. CompleteRun(r, "failed", None) /\ "failed" \in RunStatus /\ exec[x].st = "failing"
  BY <1>1 DEF SettleFailed, RunStatus
<1>3. \A q \in Runs \ {r} : run'[q] = run[q]
  BY <1>2, CompleteRow
<1> QED BY <1>1, <1>2, <1>3, OwnFinal DEF InBody

LEMMA ParkFinal ==
  ASSUME IInv, CInv, ClaimsHold, NEW x \in Slots, Park(x)
  PROVE  StaysFinal
<1>1. PICK r \in Runs : r = exec[x].run
  BY DEF Park, IInv, SlotOK
<1>2. PICK k, token, due : ParkRun(r, k, token, due)
  BY <1>1 DEF Park
<1>3. \A q \in Runs \ {r} : run'[q] = run[q]
  BY <1>2 DEF ParkRun, IInv, TypeOK
<1>4. exec[x].st = "parking"
  BY DEF Park
<1> QED BY <1>1, <1>3, <1>4, OwnFinal DEF InBody

LEMMA DriveFinal ==
  ASSUME IInv, CInv, ClaimsHold, NEW x \in Slots, Drive(x)
  PROVE  StaysFinal
<1>1. CASE Complete(x)     BY <1>1, CompleteFinal
<1>2. CASE SettleFailed(x) BY <1>2, SettleFailedFinal
<1>3. CASE Park(x)         BY <1>3, ParkFinal
<1>4. CASE ClaimStart(x)
  <2>1. exec[x].run \in Runs
    BY <1>4 DEF ClaimStart, IInv, SlotOK
  <2>2. CASE UNCHANGED run
    BY <2>2 DEF StaysFinal
  <2>3. CASE run' = [run EXCEPT ![exec[x].run] = Claimed(run[exec[x].run], HolderOf[x])]
    BY <2>1, <2>3, ClaimFinal
  <2> QED BY <1>4, <2>2, <2>3 DEF ClaimStart
<1>5. CASE SweepNext(x)
  <2>1. PICK r \in exec[x].batch :
          \/ UNCHANGED run
          \/ run' = [run EXCEPT ![r] = Claimed(run[r], HolderOf[x])]
    BY <1>5 DEF SweepNext
  <2>2. r \in Runs
    BY <2>1 DEF IInv, TypeOK, Exec
  <2>3. CASE UNCHANGED run
    BY <2>3 DEF StaysFinal
  <2> QED BY <2>1, <2>2, <2>3, ClaimFinal
<1>6. CASE UNCHANGED run
  BY <1>6 DEF StaysFinal
<1>7. \/ Complete(x) \/ SettleFailed(x) \/ Park(x) \/ ClaimStart(x) \/ SweepNext(x)
      \/ UNCHANGED run
  BY DEF Drive, ReadExisting, Load, Open, DecideInputs, Replay, PerformEffect,
         FailEffect, RecordStep, PinToken, PinDeadline, SleepDone, AwaitTimeout,
         DecideToPark
<1> QED BY <1>1, <1>2, <1>3, <1>4, <1>5, <1>6, <1>7

LEMMA AddressFinal ==
  ASSUME IInv, CInv, ClaimsHold, NEW c \in Clients, Address(c)
  PROVE  StaysFinal
<1>1. ASSUME NEW r \in Runs, Schedule(c, r) PROVE StaysFinal
  <2>1. run[r].status = "none" /\ \A q \in Runs \ {r} : run'[q] = run[q]
    BY <1>1 DEF Schedule, IInv, TypeOK
  <2> QED BY <2>1 DEF StaysFinal
<1>2. CASE Unpark(c)
  <2>1. PICK r \in Runs : r = client[c].run
    BY <1>2 DEF Unpark, IInv, CallOK
  <2>2. /\ \A q \in Runs \ {r} : run'[q] = run[q]
        /\ run[r].status # "parked" => run'[r] = run[r]
    BY <1>2, <2>1 DEF Unpark, UnparkRun, IInv, TypeOK
  <2> QED BY <2>2 DEF StaysFinal
<1>3. ~CancelWrite(c)
  BY DEF CancelWrite, CInv, ClaimsHold
<1>4. CASE UNCHANGED run
  BY <1>4 DEF StaysFinal
<1>5. \/ \E r \in Runs : Schedule(c, r)
      \/ Unpark(c) \/ CancelWrite(c) \/ UNCHANGED run
  BY DEF Address, DeliverFind, CancelRead, ResumeRead, DeliverAppend, OverrideAppend, Abandon
<1> QED BY <1>1, <1>2, <1>3, <1>4, <1>5

LEMMA NextFinal ==
  ASSUME IInv, CInv, ClaimsHold, [Next]_vars
  PROVE  StaysFinal
<1>1. ASSUME NEW x \in Slots, NEW r \in Runs, AdmitRun(x, r) PROVE StaysFinal
  <2>1. /\ run[r].status # "none" => run' = run
        /\ \A q \in Runs \ {r} : run'[q] = run[q]
    BY <1>1 DEF AdmitRun, IInv, TypeOK
  <2> QED BY <2>1 DEF StaysFinal
<1>2. ASSUME NEW x \in Slots, Drive(x) PROVE StaysFinal
  BY <1>2, DriveFinal
<1>3. ASSUME NEW r \in Runs, NEW h \in Holders \cup {Gone}, LandRenewal(r, h) PROVE StaysFinal
  <2>1. CASE UNCHANGED run
    BY <2>1 DEF StaysFinal
  <2>2. CASE run' = [run EXCEPT ![r] = Claimed(run[r], h)]
    BY <2>2, ClaimFinal
  <2> QED BY <1>3, <2>1, <2>2 DEF LandRenewal
<1>4. ASSUME NEW r \in Runs, Lapse(r) PROVE StaysFinal
  BY <1>4 DEF Lapse, StaysFinal, IInv, TypeOK, Row
<1>5. ASSUME NEW host \in Hosts, Crash(host) PROVE StaysFinal
  <2>1. PICK h \in [Runs -> Holders \cup {Gone, None}] :
          run' = [r \in Runs |-> [run[r] EXCEPT !.holder = h[r]]]
    <3> DEFINE dead == {HolderOf[x] : x \in {y \in Slots : HostOf[y] = host}}
               Now(g) == IF g \in dead THEN Gone ELSE g
    <3>1. [r \in Runs |-> Now(run[r].holder)] \in [Runs -> Holders \cup {Gone, None}]
      BY DEF IInv, TypeOK, Row
    <3>2. run' = [r \in Runs |-> [run[r] EXCEPT !.holder = Now(run[r].holder)]]
      BY <1>5 DEF Crash
    <3> HIDE DEF Now
    <3>3. run' = [r \in Runs |-> [run[r] EXCEPT !.holder = [q \in Runs |-> Now(run[q].holder)][r]]]
      BY <3>2
    <3> QED BY <3>1, <3>3
  <2> QED BY <2>1 DEF StaysFinal, IInv, TypeOK, Row
<1>6. ASSUME NEW c \in Clients, Address(c) PROVE StaysFinal
  BY <1>6, AddressFinal
<1>7. CASE UNCHANGED run
  BY <1>7 DEF StaysFinal
<1>8. \/ \E x \in Slots, r \in Runs : AdmitRun(x, r)
      \/ \E x \in Slots : Drive(x)
      \/ \E r \in Runs, h \in Holders \cup {Gone} : LandRenewal(r, h)
      \/ \E r \in Runs : Lapse(r)
      \/ \E host \in Hosts : Crash(host)
      \/ \E c \in Clients : Address(c)
      \/ UNCHANGED run
  BY DEF Next, vars, Sweep, FireRenewal, Interrupt, FailWrite, Elapse
<1> QED BY <1>1, <1>2, <1>3, <1>4, <1>5, <1>6, <1>7, <1>8

\* Under the same conditions a completed run is never settled differently, though a
\* stale sweep or a stale attach may run its body once more: that body finds every
\* step recorded, so all it can do is complete the run again with the same result.
THEOREM CompletedFinal == Spec => CompletedIsFinal
<1>1. IInv /\ CInv /\ [Next]_vars =>
        [ClaimsHold => \A r \in Runs : run[r].status = "completed" =>
           run'[r].status = "completed" /\ run'[r].result = run[r].result]_vars
  BY NextFinal DEF StaysFinal
<1> QED BY <1>1, ClaimsInvariant, PTL DEF Spec, CompletedIsFinal

-----------------------------------------------------------------------------
(* The journal is one history per run: DurableLocal implements DurableHistory. *)
(* A decision may be pinned only while its step is the one to come, which      *)
(* takes a third invariant: a step is not recorded before what it decided is.  *)
(* HInv says so of the entries, and of who is about to write one: the slot     *)
(* that records, the call that delivers to a park, and the park it found.      *)

\* What step k decides is in the journal.
PinsOK(r, k) ==
  /\ Body[k] \in {"await", "awaitTimeout"} => entries[r][TokenPath(k)] # None
  /\ Body[k] \in Timed => entries[r][AtPath(k)] # None

HInv ==
  /\ \A x \in Slots : exec[x].st = "record" /\ Body[exec[x].at] \in Waits => Pinned(x)
  /\ \A c \in Clients : client[c].op = "deliver" =>
       PinsOK(client[c].run, client[c].at) /\ entries[client[c].run][InputsPath] # None
  /\ \A r \in Runs : run[r].status = "parked" => entries[r][InputsPath] # None
  /\ \A r \in Runs, k \in Steps : entries[r][OwnPath(k)] # None => PinsOK(r, k)

\* What a step must see to for HInv: no slot comes to record a wait without its
\* pins, no call to deliver to one, no row is parked and no step recorded without.
StillSlots ==
  \A x \in Slots : exec'[x].st = "record" =>
    \/ exec'[x] = exec[x]
    \/ Body[exec'[x].at] \in Waits => Pinned(x)'
StillCalls ==
  \A c \in Clients : client'[c].op = "deliver" =>
    \/ client'[c] = client[c]
    \/ PinsOK(client[c].run, client[c].at)' /\ entries'[client'[c].run][InputsPath] # None
StillRows ==
  \A r \in Runs :
    run'[r].status = "parked" => run[r].status = "parked" \/ entries'[r][InputsPath] # None
StillSteps ==
  \A r \in Runs, k \in Steps :
    entries'[r][OwnPath(k)] # None => entries[r][OwnPath(k)] # None \/ PinsOK(r, k)'

LEMMA PinsKept ==
  ASSUME IInv, Grows, NEW r \in Runs, NEW k \in Steps, PinsOK(r, k)
  PROVE  PinsOK(r, k)'
BY Paths DEF PinsOK, Grows

LEMMA HKept ==
  ASSUME IInv, HInv, Grows, StillSlots, StillCalls, StillRows, StillSteps
  PROVE  HInv'
<1>1. ASSUME NEW x \in Slots, exec'[x].st = "record", Body[exec'[x].at] \in Waits
      PROVE  Pinned(x)'
  BY <1>1 DEF StillSlots, HInv, Pinned, TokenPinned
<1>2. ASSUME NEW c \in Clients, client'[c].op = "deliver"
      PROVE  PinsOK(client[c].run, client[c].at)' /\ entries'[client'[c].run][InputsPath] # None
  <2>1. CASE client'[c] = client[c]
    <3>1. client[c].run \in Runs /\ client[c].at \in Steps
      BY <1>2, <2>1 DEF IInv, CallOK
    <3>2. PinsOK(client[c].run, client[c].at) /\ entries[client[c].run][InputsPath] # None
      BY <1>2, <2>1 DEF HInv
    <3>3. /\ entries'[client[c].run][InputsPath] # None
          /\ Body[client[c].at] \in {"await", "awaitTimeout"} =>
               entries'[client[c].run][TokenPath(client[c].at)] # None
          /\ Body[client[c].at] \in Timed => entries'[client[c].run][AtPath(client[c].at)] # None
      BY <3>1, <3>2, Paths DEF PinsOK, Grows
    <3> QED BY <2>1, <3>3 DEF PinsOK
  <2> QED BY <1>2, <2>1 DEF StillCalls
<1>3. ASSUME NEW r \in Runs, run'[r].status = "parked" PROVE entries'[r][InputsPath] # None
  BY <1>3, Paths DEF StillRows, HInv, Grows
<1>4. ASSUME NEW r \in Runs, NEW k \in Steps, entries'[r][OwnPath(k)] # None
      PROVE  PinsOK(r, k)'
  BY <1>4, PinsKept DEF StillSteps, HInv
<1> QED BY <1>1, <1>2, <1>3, <1>4 DEF HInv

\* A parked run waits on what is pinned.
LEMMA ParkPins ==
  ASSUME IInv, NEW r \in Runs, run[r].status = "parked"
  PROVE  run[r].parked \in Steps /\ PinsOK(r, run[r].parked)
<1>1. run[r] \in Row /\ ParkOK(r)
  BY DEF IInv, TypeOK
<1> DEFINE k == run[r].parked
<1>2. k \in Steps /\ (Body[k] \in Timed => run[r].due = <<k, entries[r][AtPath(k)]>>)
  BY <1>1 DEF ParkOK
<1>3. Body[k] \in Timed => entries[r][AtPath(k)] \in Author
  BY <1>1, <1>2 DEF Row, Deadline, ParkOK
<1>4. Body[k] \in Timed => entries[r][AtPath(k)] # None
  BY <1>3, DurableConstants DEF Author
<1>5. Body[k] \in {"await", "awaitTimeout"} => entries[r][TokenPath(k)] # None
  BY <1>1 DEF ParkOK
<1> QED BY <1>2, <1>4, <1>5 DEF PinsOK

-----------------------------------------------------------------------------
(* The journal as a history: what each kind of write is in DurableHistory.    *)

\* A step of the history, or none.
HStep == [History!HistoryNext]_(History!hvars)

\* What neither writes an entry nor changes a result is a stutter.
LEMMA MapSame ==
  ASSUME entries' = entries, \A q \in Runs : run'[q].result = run[q].result
  PROVE  HStep
<1>1. [q \in Runs |-> run'[q].result] = [q \in Runs |-> run[q].result]
  OBVIOUS
<1> QED BY <1>1 DEF HStep, History!hvars

\* The result of r becomes v, the journal stays.
Results(r, v) ==
  /\ entries' = entries
  /\ \A q \in Runs \ {r} : run'[q].result = run[q].result
  /\ run'[r].result = v

LEMMA MapResults ==
  ASSUME NEW r \in Runs, NEW v, Results(r, v)
  PROVE  [q \in Runs |-> run'[q].result] = [[q \in Runs |-> run[q].result] EXCEPT ![r] = v]
<1>1. \A q \in Runs : run'[q].result = IF q = r THEN v ELSE run[q].result
  BY DEF Results
<1> QED BY <1>1

\* A settlement withdraws the result or concludes the run with its whole history.
LEMMA MapWithdraw ==
  ASSUME NEW r \in Runs, Results(r, None)
  PROVE  HStep
<1>1. [q \in Runs |-> run'[q].result] = [[q \in Runs |-> run[q].result] EXCEPT ![r] = None]
  BY MapResults
<1>2. History!Withdraw(r)
  BY <1>1 DEF Results, History!Withdraw
<1> QED BY <1>2 DEF HStep, History!HistoryNext

LEMMA MapConclude ==
  ASSUME NEW r \in Runs, Results(r, [k \in Steps |-> entries[r][OwnPath(k)]]),
         \A k \in Steps : entries[r][OwnPath(k)] # None
  PROVE  HStep
<1> DEFINE h == [q \in Runs |-> [k \in Steps |-> entries[q][OwnPath(k)]]]
<1>1. [q \in Runs |-> run'[q].result] = [[q \in Runs |-> run[q].result] EXCEPT ![r] = h[r]]
  BY MapResults
<1>2. \A k \in Steps : h[r][k] # None
  OBVIOUS
<1>3. History!Conclude(r)
  BY <1>1, <1>2 DEF Results, History!Conclude, Steps
<1> QED BY <1>3 DEF HStep, History!HistoryNext


-----------------------------------------------------------------------------
\* An append at p, whoever wins, with the results left alone.
Writes(r, p, v) ==
  /\ Append(r, p, v)
  /\ \A q \in Runs : run'[q].result = run[q].result

\* An append at a recorded path changes nothing, another is the only change.
LEMMA AppendSame ==
  ASSUME IInv, NEW r \in Runs, NEW p \in Path, NEW v, Append(r, p, v), entries[r][p] # None
  PROVE  entries' = entries
<1>1. entries \in [Runs -> [Path -> Value \cup {None}]]
  BY DEF IInv, TypeOK
<1>2. entries' = [entries EXCEPT ![r][p] = entries[r][p]]
  BY DEF Append, Stored
<1> QED BY <1>1, <1>2

LEMMA AppendNew ==
  ASSUME IInv, NEW r \in Runs, NEW p \in Path, NEW v, Append(r, p, v), entries[r][p] = None
  PROVE  \A q \in Runs, o \in Path :
           entries'[q][o] = IF q = r /\ o = p THEN v ELSE entries[q][o]
<1>1. entries \in [Runs -> [Path -> Value \cup {None}]]
  BY DEF IInv, TypeOK
<1>2. entries' = [entries EXCEPT ![r][p] = v]
  BY DEF Append, Stored
<1> QED BY <1>1, <1>2

\* The history as the journal holds it.
InputsOf    == [r \in Runs |-> entries[r][InputsPath]]
StepsOf     == [r \in Runs |-> [k \in 1..N |-> entries[r][OwnPath(k)]]]
PinsOf      == [r \in Runs |-> [k \in 1..N |-> [d \in {"token", "at"} |-> entries[r][<<k, d>>]]]]
OverridesOf == [r \in Runs |-> entries[r][OverridePath]]
ResultOf    == [r \in Runs |-> run[r].result]

LEMMA SameInputs ==
  ASSUME \A q \in Runs : entries'[q][InputsPath] = entries[q][InputsPath]
  PROVE  InputsOf' = InputsOf
BY DEF InputsOf

LEMMA SameOverrides ==
  ASSUME \A q \in Runs : entries'[q][OverridePath] = entries[q][OverridePath]
  PROVE  OverridesOf' = OverridesOf
BY DEF OverridesOf

LEMMA SameSteps ==
  ASSUME \A q \in Runs, k \in Steps : entries'[q][OwnPath(k)] = entries[q][OwnPath(k)]
  PROVE  StepsOf' = StepsOf
<1>1. \A q \in Runs : [k \in 1..N |-> entries'[q][OwnPath(k)]] = [k \in 1..N |-> entries[q][OwnPath(k)]]
  BY DEF Steps
<1> QED BY <1>1 DEF StepsOf

LEMMA SamePins ==
  ASSUME \A q \in Runs, k \in Steps, d \in {"token", "at"} :
           entries'[q][<<k, d>>] = entries[q][<<k, d>>]
  PROVE  PinsOf' = PinsOf
<1>1. \A q \in Runs, k \in 1..N :
        [d \in {"token", "at"} |-> entries'[q][<<k, d>>]] = [d \in {"token", "at"} |-> entries[q][<<k, d>>]]
  BY DEF Steps
<1>2. \A q \in Runs :
        [k \in 1..N |-> [d \in {"token", "at"} |-> entries'[q][<<k, d>>]]]
          = [k \in 1..N |-> [d \in {"token", "at"} |-> entries[q][<<k, d>>]]]
  BY <1>1
<1> QED BY <1>2 DEF PinsOf

LEMMA SameResult ==
  ASSUME \A q \in Runs : run'[q].result = run[q].result
  PROVE  ResultOf' = ResultOf
BY DEF ResultOf

\* A write of the inputs begins the history, unless it has begun.
LEMMA MapBegin ==
  ASSUME IInv, NEW r \in Runs, NEW v \in Value, Writes(r, InputsPath, v)
  PROVE  HStep
<1>1. CASE entries[r][InputsPath] # None
  BY <1>1, Paths, AppendSame, MapSame DEF Writes
<1>2. CASE entries[r][InputsPath] = None
  <2>1. \A q \in Runs, o \in Path :
           entries'[q][o] = IF q = r /\ o = InputsPath THEN v ELSE entries[q][o]
    BY <1>2, Paths, AppendNew DEF Writes
  <2>2. InputsOf' = [InputsOf EXCEPT ![r] = v]
    BY <2>1, Paths DEF InputsOf
  <2>3. StepsOf' = StepsOf
    BY <2>1, Paths, PathsDiffer, SameSteps
  <2>4. PinsOf' = PinsOf
    <3>1. \A k \in Steps, d \in {"token", "at"} : <<k, d>> \in Path /\ <<k, d>> # InputsPath
      BY DEF Path, InputsPath
    <3> QED BY <2>1, <3>1, SamePins
  <2>5. OverridesOf' = OverridesOf
    BY <2>1, Paths, SameOverrides DEF InputsPath, OverridePath
  <2>6. ResultOf' = ResultOf
    BY SameResult DEF Writes
  <2>7. History!Begin(r)
    BY <1>2, <2>2, <2>3, <2>4, <2>5, <2>6
       DEF History!Begin, InputsOf, StepsOf, PinsOf, OverridesOf, ResultOf
  <2> QED BY <2>7 DEF HStep, History!HistoryNext
<1> QED BY <1>1, <1>2

LEMMA MapOverride ==
  ASSUME IInv, NEW r \in Runs, NEW v \in Value, Writes(r, OverridePath, v)
  PROVE  HStep
<1>1. CASE entries[r][OverridePath] # None
  BY <1>1, Paths, AppendSame, MapSame DEF Writes
<1>2. CASE entries[r][OverridePath] = None
  <2>1. \A q \in Runs, o \in Path :
           entries'[q][o] = IF q = r /\ o = OverridePath THEN v ELSE entries[q][o]
    BY <1>2, Paths, AppendNew DEF Writes
  <2>2. OverridesOf' = [OverridesOf EXCEPT ![r] = v]
    BY <2>1, Paths DEF OverridesOf
  <2>3. StepsOf' = StepsOf
    BY <2>1, Paths, PathsDiffer, SameSteps
  <2>4. PinsOf' = PinsOf
    <3>1. \A k \in Steps, d \in {"token", "at"} : <<k, d>> \in Path /\ <<k, d>> # OverridePath
      BY DEF Path, OverridePath
    <3> QED BY <2>1, <3>1, SamePins
  <2>5. InputsOf' = InputsOf
    BY <2>1, Paths, SameInputs DEF InputsPath, OverridePath
  <2>6. ResultOf' = ResultOf
    BY SameResult DEF Writes
  <2>7. History!Override(r)
    BY <1>2, <2>2, <2>3, <2>4, <2>5, <2>6
       DEF History!Override, InputsOf, StepsOf, PinsOf, OverridesOf, ResultOf
  <2> QED BY <2>7 DEF HStep, History!HistoryNext
<1> QED BY <1>1, <1>2


\* The body has come to step k, which is not recorded.
LEMMA MapFrontier ==
  ASSUME NEW r \in Runs, NEW k \in Steps, entries[r][InputsPath] # None,
         ReachedOK(r, k), entries[r][OwnPath(k)] = None
  PROVE  History!Frontier(r, k)
<1>1. InputsOf[r] # None /\ StepsOf[r][k] = None
  BY DEF InputsOf, StepsOf, Steps
<1>2. ASSUME NEW j \in 1..(k - 1) PROVE StepsOf[r][j] # None
  <2>1. j \in Steps /\ j < k
    BY DurableConstants DEF Steps
  <2> QED BY <2>1 DEF ReachedOK, StepsOf, Steps
<1> QED BY <1>1, <1>2 DEF History!Frontier, InputsOf, StepsOf

\* A write at a step records it, unless it is recorded.
LEMMA MapRecord ==
  ASSUME IInv, NEW r \in Runs, NEW k \in Steps, NEW v \in Value, Writes(r, OwnPath(k), v),
         entries[r][InputsPath] # None, ReachedOK(r, k)
  PROVE  HStep
<1>1. CASE entries[r][OwnPath(k)] # None
  BY <1>1, Paths, AppendSame, MapSame DEF Writes
<1>2. CASE entries[r][OwnPath(k)] = None
  <2>1. \A q \in Runs, o \in Path :
           entries'[q][o] = IF q = r /\ o = OwnPath(k) THEN v ELSE entries[q][o]
    BY <1>2, Paths, AppendNew DEF Writes
  <2>2. StepsOf' = [StepsOf EXCEPT ![r][k] = v]
    <3>1. \A q \in Runs, j \in Steps :
            entries'[q][OwnPath(j)] = IF q = r /\ j = k THEN v ELSE entries[q][OwnPath(j)]
      BY <2>1, Paths, PathsDiffer
    <3>2. \A q \in Runs : q # r =>
            [j \in 1..N |-> entries'[q][OwnPath(j)]] = [j \in 1..N |-> entries[q][OwnPath(j)]]
      BY <3>1 DEF Steps
    <3>3. [j \in 1..N |-> entries'[r][OwnPath(j)]]
            = [[j \in 1..N |-> entries[r][OwnPath(j)]] EXCEPT ![k] = v]
      BY <3>1 DEF Steps
    <3> QED BY <3>2, <3>3 DEF StepsOf
  <2>3. InputsOf' = InputsOf /\ OverridesOf' = OverridesOf
    BY <2>1, Paths, PathsDiffer, SameInputs, SameOverrides
  <2>4. PinsOf' = PinsOf
    <3>1. \A j \in Steps, d \in {"token", "at"} : <<j, d>> \in Path /\ <<j, d>> # OwnPath(k)
      BY DEF Path, OwnPath
    <3> QED BY <2>1, <3>1, SamePins
  <2>5. ResultOf' = ResultOf
    BY SameResult DEF Writes
  <2>6. History!Frontier(r, k)
    BY <1>2, MapFrontier
  <2>7. History!Record(r, k)
    BY <2>2, <2>3, <2>4, <2>5, <2>6
       DEF History!Record, InputsOf, StepsOf, PinsOf, OverridesOf, ResultOf
  <2> QED BY <2>7 DEF HStep, History!HistoryNext, Steps
<1> QED BY <1>1, <1>2

\* Functions that differ at one argument.
LEMMA Updated ==
  ASSUME NEW S, NEW f, NEW g, NEW r \in S, NEW w,
         f = [q \in S |-> f[q]], g = [q \in S |-> g[q]],
         g[r] = w, \A q \in S : q # r => g[q] = f[q]
  PROVE  g = [f EXCEPT ![r] = w]
OBVIOUS

\* A write of a decision pins it while its step is the one to come, unless pinned.
LEMMA MapDecide ==
  ASSUME IInv, NEW r \in Runs, NEW k \in Steps, NEW d \in {"token", "at"}, NEW v \in Value,
         Writes(r, <<k, d>>, v), entries[r][InputsPath] # None, ReachedOK(r, k),
         entries[r][<<k, d>>] = None => entries[r][OwnPath(k)] = None
  PROVE  HStep
<1>0. <<k, d>> \in Path
  BY DEF Path
<1>1. CASE entries[r][<<k, d>>] # None
  BY <1>0, <1>1, AppendSame, MapSame DEF Writes
<1>2. CASE entries[r][<<k, d>>] = None
  <2>1. \A q \in Runs, o \in Path :
           entries'[q][o] = IF q = r /\ o = <<k, d>> THEN v ELSE entries[q][o]
    BY <1>0, <1>2, AppendNew DEF Writes
  <2>2. PinsOf' = [PinsOf EXCEPT ![r][k][d] = v]
    <3>1. \A q \in Runs, j \in Steps, e \in {"token", "at"} :
            entries'[q][<<j, e>>] = IF q = r /\ j = k /\ e = d THEN v ELSE entries[q][<<j, e>>]
      BY <2>1 DEF Path
    <3>2. \A q \in Runs, j \in 1..N : q # r \/ j # k =>
            [e \in {"token", "at"} |-> entries'[q][<<j, e>>]]
              = [e \in {"token", "at"} |-> entries[q][<<j, e>>]]
      BY <3>1 DEF Steps
    <3>3. [e \in {"token", "at"} |-> entries'[r][<<k, e>>]]
            = [[e \in {"token", "at"} |-> entries[r][<<k, e>>]] EXCEPT ![d] = v]
      BY <3>1
    <3>4. \A q \in Runs : q # r =>
            [j \in 1..N |-> [e \in {"token", "at"} |-> entries'[q][<<j, e>>]]]
              = [j \in 1..N |-> [e \in {"token", "at"} |-> entries[q][<<j, e>>]]]
      BY <3>2
    <3>5. [j \in 1..N |-> [e \in {"token", "at"} |-> entries'[r][<<j, e>>]]]
            = [[j \in 1..N |-> [e \in {"token", "at"} |-> entries[r][<<j, e>>]]] EXCEPT ![k][d] = v]
      BY <3>2, <3>3 DEF Steps
    <3>6. PinsOf'[r] = [PinsOf[r] EXCEPT ![k][d] = v] /\ \A q \in Runs : q # r => PinsOf'[q] = PinsOf[q]
      BY <3>4, <3>5 DEF PinsOf
    <3>7. PinsOf' = [PinsOf EXCEPT ![r] = [PinsOf[r] EXCEPT ![k][d] = v]]
      <4>1. PinsOf = [q \in Runs |-> PinsOf[q]] /\ PinsOf' = [q \in Runs |-> PinsOf'[q]]
        BY DEF PinsOf
      <4> QED BY <3>6, <4>1, Updated
    <3> QED BY <3>7
  <2>3. InputsOf' = InputsOf /\ OverridesOf' = OverridesOf
    BY <2>1, Paths, SameInputs, SameOverrides DEF InputsPath, OverridePath
  <2>4. StepsOf' = StepsOf
    <3>1. \A j \in Steps : OwnPath(j) # <<k, d>>
      BY DEF OwnPath
    <3> QED BY <2>1, <3>1, Paths, SameSteps
  <2>5. ResultOf' = ResultOf
    BY SameResult DEF Writes
  <2>6. History!Frontier(r, k)
    BY <1>2, MapFrontier
  <2>7. PinsOf[r][k][d] = None
    BY <1>2 DEF PinsOf, Steps
  <2>8. History!Decide(r, k, d)
    BY <2>2, <2>3, <2>4, <2>5, <2>6, <2>7
       DEF History!Decide, InputsOf, StepsOf, PinsOf, OverridesOf, ResultOf
  <2> QED BY <2>8 DEF HStep, History!HistoryNext, History!Pins, Steps
<1> QED BY <1>1, <1>2


-----------------------------------------------------------------------------
(* Every step of the backend follows the history and keeps HInv.              *)

Follows == HStep /\ Grows /\ StillSlots /\ StillCalls /\ StillRows /\ StillSteps

\* Nothing is written and no result changes.
LEMMA QuietFollows ==
  ASSUME entries' = entries, elapsed \subseteq elapsed', performed \subseteq performed',
         \A q \in Runs : run'[q].result = run[q].result,
         StillSlots, StillCalls, StillRows
  PROVE  Follows
<1>1. HStep
  BY MapSame
<1>2. Grows /\ StillSteps
  BY DEF Grows, StillSteps
<1> QED BY <1>1, <1>2 DEF Follows

LEMMA SlotMoves ==
  ASSUME NEW x \in Slots, Others(x),
         exec'[x].st = "record" /\ Body[exec'[x].at] \in Waits => Pinned(x)'
  PROVE  StillSlots
BY DEF Others, StillSlots

LEMMA SlotsRest ==
  ASSUME UNCHANGED exec
  PROVE  StillSlots
BY DEF StillSlots

LEMMA CallsRest ==
  ASSUME UNCHANGED client
  PROVE  StillCalls
BY DEF StillCalls

\* What a slot does without a statement, or with one that reads.
LEMMA SlotFollows ==
  ASSUME NEW x \in Slots, Others(x),
         exec'[x].st = "record" /\ Body[exec'[x].at] \in Waits => Pinned(x)',
         UNCHANGED <<run, entries, client, elapsed>>, performed \subseteq performed'
  PROVE  Follows
<1>1. StillSlots /\ StillCalls /\ StillRows
  BY SlotMoves, CallsRest DEF StillRows
<1> QED BY <1>1, QuietFollows

LEMMA BecomeFollows ==
  ASSUME IInv, NEW x \in Slots, NEW st \in ExecState \ {"record"}, Become(x, st),
         UNCHANGED <<run, entries, client, elapsed>>, performed \subseteq performed'
  PROVE  Follows
<1>1. Others(x) /\ exec'[x].st # "record"
  BY BecomeType DEF Others
<1> QED BY <1>1, SlotFollows

LEMMA FinishFollows ==
  ASSUME IInv, NEW x \in Slots, Finish(x),
         UNCHANGED <<run, entries, client, elapsed, performed>>
  PROVE  Follows
<1>1. Others(x) /\ exec'[x].st # "record"
  BY FinishFacts
<1> QED BY <1>1, SlotFollows

LEMMA States ==
  {"attach", "open", "failing", "parking", "step", "record"} \subseteq ExecState
BY DEF ExecState, Owning, InBody

LEMMA ReadExistingH ==
  ASSUME IInv, NEW x \in Slots, ReadExisting(x)
  PROVE  Follows
BY States, BecomeFollows, FinishFollows DEF ReadExisting

LEMMA SweepH ==
  ASSUME IInv, NEW x \in Slots, Sweep(x)
  PROVE  Follows
<1>1. DueRuns \in SUBSET Runs
  BY DEF DueRuns
<1>2. Others(x) /\ exec'[x].st # "record"
  BY <1>1, AfterFacts DEF Sweep
<1> QED BY <1>2, SlotFollows DEF Sweep

LEMMA LoadH ==
  ASSUME IInv, NEW x \in Slots, Load(x)
  PROVE  Follows
<1>1. Others(x) /\ exec'[x].st # "record"
  BY DEF Load, IInv, TypeOK, Exec, Others
<1> QED BY <1>1, SlotFollows DEF Load

LEMMA OpenH ==
  ASSUME IInv, NEW x \in Slots, Open(x)
  PROVE  Follows
<1>1. Others(x) /\ exec'[x].st # "record"
  BY DEF Open, IInv, TypeOK, Exec, Others
<1> QED BY <1>1, SlotFollows DEF Open

LEMMA ReplayH ==
  ASSUME IInv, NEW x \in Slots, Replay(x)
  PROVE  Follows
<1>1. Others(x) /\ exec'[x].st # "record"
  BY DEF Replay, IInv, TypeOK, Exec, Others
<1> QED BY <1>1, SlotFollows DEF Replay

LEMMA PerformEffectH ==
  ASSUME IInv, NEW x \in Slots, PerformEffect(x)
  PROVE  Follows
<1>1. Others(x) /\ exec'[x].at = exec[x].at /\ Body[exec[x].at] \notin Waits
  BY States, BecomeType DEF PerformEffect, Reaching, Waits, Others
<1>2. UNCHANGED <<run, entries, client, elapsed>> /\ performed \subseteq performed'
  BY DEF PerformEffect
<1> QED BY <1>1, <1>2, SlotFollows

LEMMA SleepDoneH ==
  ASSUME IInv, NEW x \in Slots, SleepDone(x)
  PROVE  Follows
<1>1. Others(x) /\ exec'[x].at = exec[x].at /\ exec'[x].seen = exec[x].seen
  BY States, BecomeType DEF SleepDone, Others
<1>2. Pinned(x)'
  BY <1>1 DEF SleepDone, Pinned, TokenPinned
<1> QED BY <1>1, <1>2, SlotFollows DEF SleepDone

LEMMA StepsAside ==
  ASSUME IInv, NEW x \in Slots,
         FailEffect(x) \/ AwaitTimeout(x) \/ DecideToPark(x) \/ FailWrite(x)
  PROVE  Follows
<1>1. /\ Become(x, "failing") \/ Become(x, "parking")
      /\ UNCHANGED <<run, entries, client, elapsed, performed>>
  BY DEF FailEffect, AwaitTimeout, DecideToPark, FailWrite
<1> QED BY <1>1, States, BecomeFollows

LEMMA InterruptH ==
  ASSUME IInv, NEW x \in Slots, Interrupt(x)
  PROVE  Follows
BY FinishFollows DEF Interrupt

LEMMA FireRenewalH ==
  ASSUME IInv, NEW x \in Slots, FireRenewal(x)
  PROVE  Follows
<1>1. Others(x) /\ StillSlots
  BY SlotsRest DEF FireRenewal, Others
<1>2. StillCalls /\ StillRows
  BY CallsRest DEF FireRenewal, StillRows
<1> QED BY <1>1, <1>2, QuietFollows DEF FireRenewal


-----------------------------------------------------------------------------
(* Claims, settlements and parks. *)

SameRows == \A q \in Runs : run'[q].result = run[q].result /\ run'[q].status = run[q].status

LEMMA ClaimRows ==
  ASSUME IInv, NEW r \in Runs, NEW h, run' = [run EXCEPT ![r] = Claimed(run[r], h)]
  PROVE  SameRows
BY DEF IInv, TypeOK, Row, Claimed, SameRows

\* Only claims change hands.
LEMMA ClaimFollows ==
  ASSUME entries' = entries, elapsed \subseteq elapsed', performed \subseteq performed',
         SameRows, StillSlots, UNCHANGED client
  PROVE  Follows
<1>1. StillCalls /\ StillRows
  BY CallsRest DEF StillRows, SameRows
<1> QED BY <1>1, QuietFollows DEF SameRows

LEMMA ClaimStartH ==
  ASSUME IInv, NEW x \in Slots, ClaimStart(x)
  PROVE  Follows
<1>1. PICK r \in Runs : r = exec[x].run
  BY DEF ClaimStart, IInv, SlotOK
<1>2. CASE Claimable(r, HolderOf[x])
  <2>1. run' = [run EXCEPT ![r] = Claimed(run[r], HolderOf[x])] /\ Become(x, "open")
    BY <1>1, <1>2 DEF ClaimStart
  <2>2. SameRows
    BY <2>1, ClaimRows
  <2>3. Others(x) /\ exec'[x].st # "record"
    BY <2>1, States, BecomeType DEF Others
  <2> QED BY <2>2, <2>3, SlotMoves, ClaimFollows DEF ClaimStart
<1>3. CASE ~Claimable(r, HolderOf[x])
  BY <1>1, <1>3, FinishFollows DEF ClaimStart
<1> QED BY <1>2, <1>3

LEMMA SweepNextH ==
  ASSUME IInv, NEW x \in Slots, SweepNext(x)
  PROVE  Follows
<1>1. PICK r \in exec[x].batch :
        \/ /\ run' = [run EXCEPT ![r] = Claimed(run[r], HolderOf[x])]
           /\ exec' = [exec EXCEPT ![x] = [Idle EXCEPT !.st = "load", !.run = r,
                                                       !.batch = exec[x].batch \ {r}]]
        \/ /\ exec' = [exec EXCEPT ![x] = After(exec[x].batch \ {r})]
           /\ UNCHANGED run
  BY DEF SweepNext
<1>2. r \in Runs /\ exec[x].batch \ {r} \in SUBSET Runs
  BY <1>1 DEF IInv, TypeOK, Exec
<1>3. SameRows
  BY <1>1, <1>2, ClaimRows DEF SameRows
<1>4. Others(x) /\ exec'[x].st # "record"
  <2>1. CASE exec' = [exec EXCEPT ![x] = After(exec[x].batch \ {r})]
    BY <1>2, <2>1, AfterFacts
  <2>2. CASE exec' = [exec EXCEPT ![x] = [Idle EXCEPT !.st = "load", !.run = r,
                                                      !.batch = exec[x].batch \ {r}]]
    BY <2>2 DEF IInv, TypeOK, Idle, Others
  <2> QED BY <1>1, <2>1, <2>2
<1> QED BY <1>3, <1>4, SlotMoves, ClaimFollows DEF SweepNext

\* A row is settled or inserted: its result is set, and it is not parked.
LEMMA SettleFollows ==
  ASSUME NEW r \in Runs, Results(r, None), run'[r].status # "parked",
         \A q \in Runs \ {r} : run'[q] = run[q],
         UNCHANGED <<elapsed, performed>>, StillSlots, StillCalls
  PROVE  Follows
<1>1. HStep
  BY MapWithdraw
<1>2. Grows /\ StillSteps /\ StillRows
  BY DEF Results, Grows, StillSteps, StillRows
<1> QED BY <1>1, <1>2 DEF Follows

LEMMA AdmitRunH ==
  ASSUME IInv, NEW x \in Slots, NEW r \in Runs, AdmitRun(x, r)
  PROVE  Follows
<1>1. Others(x) /\ exec'[x].st # "record"
  BY DEF AdmitRun, IInv, TypeOK, Idle, Others
<1>2. StillSlots /\ StillCalls
  BY <1>1, SlotMoves, CallsRest DEF AdmitRun
<1>3. CASE run[r].status = "none"
  <2>1. run' = [run EXCEPT ![r] = [NoRun EXCEPT !.status = "running",
                                                !.holder = HolderOf[x], !.live = TRUE]]
    BY <1>3 DEF AdmitRun
  <2>2. /\ run'[r].status = "running" /\ run'[r].result = None
        /\ \A q \in Runs \ {r} : run'[q] = run[q]
    BY <2>1 DEF IInv, TypeOK, NoRun
  <2>3. Results(r, None)
    BY <2>2 DEF Results, AdmitRun
  <2> QED BY <1>2, <2>2, <2>3, SettleFollows DEF AdmitRun
<1>4. CASE run[r].status # "none"
  <2>1. UNCHANGED run
    BY <1>4 DEF AdmitRun
  <2> QED BY <1>1, <2>1, SlotFollows DEF AdmitRun
<1> QED BY <1>3, <1>4

LEMMA SettleFailedH ==
  ASSUME IInv, NEW x \in Slots, SettleFailed(x)
  PROVE  Follows
<1>1. PICK r \in Runs : r = exec[x].run
  BY DEF SettleFailed, IInv, SlotOK
<1>2. CompleteRun(r, "failed", None) /\ "failed" \in RunStatus
  BY <1>1 DEF SettleFailed, RunStatus
<1>3. /\ run'[r].status = "failed" /\ run'[r].result = None
      /\ \A q \in Runs \ {r} : run'[q] = run[q]
  BY <1>2, CompleteRow
<1>4. Results(r, None)
  BY <1>3 DEF Results, SettleFailed
<1>5. StillSlots /\ StillCalls
  BY FinishFacts, SlotMoves, CallsRest DEF SettleFailed
<1> QED BY <1>3, <1>4, <1>5, SettleFollows DEF SettleFailed

\* By the time the body returns, its history is whole.
LEMMA CompleteH ==
  ASSUME IInv, NEW x \in Slots, Complete(x)
  PROVE  Follows
<1>1. PICK r \in Runs : r = exec[x].run
  BY DEF Complete, IInv, SlotOK
<1>2. CASE exec[x].latched
  <2>1. UNCHANGED run
    BY <1>2 DEF Complete
  <2> QED BY <2>1, FinishFollows DEF Complete
<1>3. CASE ~exec[x].latched
  <2> DEFINE result == [j \in Steps |-> exec[x].seen[OwnPath(j)]]
  <2>1. \A j \in Steps : exec[x].seen[OwnPath(j)] # None
    <3>1. \A j \in Steps : j < N + 1
      BY DurableConstants DEF Steps
    <3> QED BY <3>1 DEF Complete, IInv, SlotOK, InBody
  <2>2. \A j \in Steps : entries[r][OwnPath(j)] = exec[x].seen[OwnPath(j)]
    BY <1>1, <2>1, Paths DEF IInv, AgreeOK
  <2>3. result = [j \in Steps |-> entries[r][OwnPath(j)]]
    BY <2>2
  <2>4. result \in [Steps -> Value \cup {None}]
    BY Paths DEF IInv, TypeOK, Exec
  <2>5. CompleteRun(r, "completed", result) /\ "completed" \in RunStatus
    BY <1>1, <1>3 DEF Complete, RunStatus
  <2>6. /\ run'[r].status = "completed" /\ run'[r].result = result
        /\ \A q \in Runs \ {r} : run'[q] = run[q]
    <3> HIDE DEF result
    <3> QED BY <2>4, <2>5, CompleteRow
  <2>7. Results(r, [k \in Steps |-> entries[r][OwnPath(k)]])
    BY <2>3, <2>6 DEF Results, Complete
  <2>8. HStep
    BY <2>1, <2>2, <2>7, MapConclude
  <2>9. StillSlots /\ StillCalls
    BY FinishFacts, SlotMoves, CallsRest DEF Complete
  <2>10. Grows /\ StillSteps /\ StillRows
    BY <2>6 DEF Complete, Grows, StillSteps, StillRows
  <2> QED BY <2>8, <2>9, <2>10 DEF Follows
<1> QED BY <1>2, <1>3


LEMMA ParkH ==
  ASSUME IInv, CInv, NEW x \in Slots, Park(x)
  PROVE  Follows
<1>1. PICK r \in Runs : r = exec[x].run
  BY DEF Park, IInv, SlotOK
<1>2. PICK k, token, due : ParkRun(r, k, token, due)
  BY <1>1 DEF Park
<1>3. run'[r].result = run[r].result /\ \A q \in Runs \ {r} : run'[q] = run[q]
  BY <1>2 DEF ParkRun, IInv, TypeOK, Row
<1>4. entries[r][InputsPath] # None
  BY <1>1 DEF Park, CInv, OriginOK, InBody
<1>5. StillRows
  BY <1>3, <1>4 DEF Park, StillRows
<1>6. Others(x) /\ (exec'[x].st = "record" => Pinned(x)')
  <2>1. CASE exec' = [exec EXCEPT ![x].st = "record", ![x].latched = TRUE]
    <3>1. Others(x) /\ exec'[x].at = exec[x].at /\ exec'[x].seen = exec[x].seen
      BY <2>1 DEF IInv, TypeOK, Exec, Others
    <3>2. Pinned(x)
      BY DEF Park, IInv, SlotOK
    <3> QED BY <3>1, <3>2 DEF Pinned, TokenPinned
  <2>2. CASE Finish(x)
    BY <2>2, FinishFacts
  <2> QED BY <2>1, <2>2 DEF Park
<1>7. StillSlots /\ StillCalls
  BY <1>6, SlotMoves, CallsRest DEF Park
<1>8. \A q \in Runs : run'[q].result = run[q].result
  BY <1>3
<1> QED BY <1>5, <1>7, <1>8, QuietFollows DEF Park

-----------------------------------------------------------------------------
(* What a body writes. *)

\* A body's write follows the history when the write itself does: the slot goes on
\* to its next step and nothing else moves.
LEMMA WriteFollows ==
  ASSUME IInv, NEW x \in Slots, NEW p \in Path, NEW v \in Value, NEW at \in 0..(N + 1),
         exec[x].st \in InBody, Write(x, p, v, "step", at),
         UNCHANGED <<run, client, renewals, elapsed, performed, budget>>,
         Writes(exec[x].run, p, v) => HStep,
         StillSteps
  PROVE  Follows
<1>1. Goes(x) /\ exec'[x].st = "step"
  BY WriteGoes
<1>2. StillSlots /\ StillCalls /\ StillRows
  BY <1>1, SlotMoves, CallsRest DEF Goes, StillRows
<1>3. Grows
  BY <1>1 DEF Goes, Steady
<1>4. HStep
  BY DEF Write, Writes
<1> QED BY <1>2, <1>3, <1>4 DEF Follows

\* Only the entry at p changes.
LEMMA OtherSteps ==
  ASSUME IInv, NEW r \in Runs, NEW p \in Path, NEW v \in Value, Append(r, p, v),
         UNCHANGED <<elapsed, performed>>,
         \A k \in Steps : p = OwnPath(k) => PinsOK(r, k)
  PROVE  StillSteps
<1>1. \A q \in Runs, o \in Path : q # r \/ o # p => entries'[q][o] = entries[q][o]
  BY AppendGrows
<1>2. Grows
  BY AppendGrows
<1> SUFFICES ASSUME NEW q \in Runs, NEW k \in Steps, entries'[q][OwnPath(k)] # None
             PROVE  entries[q][OwnPath(k)] # None \/ PinsOK(q, k)'
  BY DEF StillSteps
<1>3. CASE q = r /\ p = OwnPath(k)
  BY <1>2, <1>3, PinsKept
<1>4. CASE ~(q = r /\ p = OwnPath(k))
  BY <1>1, <1>4, Paths
<1> QED BY <1>3, <1>4

LEMMA DecideInputsH ==
  ASSUME IInv, CInv, NEW x \in Slots, DecideInputs(x)
  PROVE  Follows
<1>1. exec[x].run \in Runs /\ exec[x].st \in InBody
  BY DEF DecideInputs, IInv, SlotOK, InBody
<1>2. CASE exec[x].seen[InputsPath] # None
  BY <1>2, States, BecomeFollows DEF DecideInputs
<1>3. CASE exec[x].seen[InputsPath] = None
  <2>1. Write(x, InputsPath, exec[x].inputs, "step", 1)
    BY <1>3 DEF DecideInputs
  <2>2. exec[x].inputs \in Value /\ 1 \in 0..(N + 1)
    <3>1. 1 \in 0..(N + 1)
      BY DurableConstants
    <3> QED BY <3>1 DEF IInv, TypeOK, Exec, Value
  <2>3. Writes(exec[x].run, InputsPath, exec[x].inputs) => HStep
    BY <1>1, <2>2, MapBegin
  <2>4. StillSteps
    BY <1>1, <2>1, <2>2, Paths, PathsDiffer, OtherSteps DEF Write, DecideInputs
  <2> QED BY <1>1, <2>1, <2>2, <2>3, <2>4, Paths, WriteFollows DEF DecideInputs
<1> QED BY <1>2, <1>3

LEMMA RecordStepH ==
  ASSUME IInv, CInv, HInv, NEW x \in Slots, RecordStep(x)
  PROVE  Follows
<1>1. PICK r \in Runs, k \in Steps : r = exec[x].run /\ k = exec[x].at
  BY DEF RecordStep, IInv, SlotOK
<1>2. exec[x].st \in InBody /\ SlotOK(x) /\ AgreeOK(x)
  BY DEF RecordStep, IInv, InBody
<1>3. ReachedOK(r, k)
  BY <1>1, <1>2, Paths DEF SlotOK, AgreeOK, ReachedOK
<1>4. entries[r][InputsPath] # None
  BY <1>1 DEF RecordStep, CInv, OriginOK, InBody
<1>5. PinsOK(r, k)
  <2>1. CASE Body[k] \in Waits
    <3>1. Pinned(x)
      BY <1>1, <2>1 DEF RecordStep, HInv
    <3> QED BY <1>1, <1>2, <3>1, Paths DEF Pinned, TokenPinned, AgreeOK, PinsOK
  <2>2. CASE Body[k] \notin Waits
    BY <2>2 DEF PinsOK, Waits, Timed
  <2> QED BY <2>1, <2>2
<1>6. x \in Value /\ k + 1 \in 0..(N + 1)
  BY DurableConstants DEF Value, Author, Steps
<1>7. Write(x, OwnPath(k), x, "step", k + 1)
  BY <1>1 DEF RecordStep
<1>8. Writes(exec[x].run, OwnPath(k), x) => HStep
  BY <1>1, <1>3, <1>4, <1>6, MapRecord
<1>9. StillSteps
  BY <1>1, <1>5, <1>6, <1>7, Paths, PathsDiffer, OtherSteps DEF Write, RecordStep
<1> QED BY <1>2, <1>6, <1>7, <1>8, <1>9, Paths, WriteFollows DEF RecordStep

\* A body that decides has not read its step, and that is because the step is not
\* recorded: had anybody recorded it, the decision would have been recorded too.
LEMMA PinH ==
  ASSUME IInv, CInv, HInv, NEW x \in Slots, NEW d \in {"token", "at"}, Reaching(x, Waits),
         entries[exec[x].run][<<exec[x].at, d>>] = None
           => entries[exec[x].run][OwnPath(exec[x].at)] = None,
         Write(x, <<exec[x].at, d>>, x, "step", exec[x].at),
         UNCHANGED <<run, client, renewals, elapsed, performed, budget>>
  PROVE  Follows
<1>1. PICK r \in Runs, k \in Steps : r = exec[x].run /\ k = exec[x].at
  BY DEF Reaching, IInv, SlotOK
<1>2. exec[x].st \in InBody /\ SlotOK(x) /\ AgreeOK(x)
  BY DEF Reaching, IInv, InBody
<1>3. ReachedOK(r, k)
  BY <1>1, <1>2, Paths DEF SlotOK, AgreeOK, ReachedOK
<1>4. entries[r][InputsPath] # None
  BY <1>1 DEF Reaching, CInv, OriginOK, InBody
<1>5. x \in Value /\ k \in 0..(N + 1) /\ <<k, d>> \in Path
  BY DurableConstants DEF Value, Author, Steps, Path
<1>6. Writes(r, <<k, d>>, x) => HStep
  BY <1>1, <1>3, <1>4, <1>5, MapDecide
<1>7. \A j \in Steps : <<k, d>> # OwnPath(j)
  BY DEF OwnPath
<1>8. StillSteps
  BY <1>1, <1>5, <1>7, OtherSteps DEF Write
<1> QED BY <1>1, <1>2, <1>5, <1>6, <1>8, WriteFollows

LEMMA PinTokenH ==
  ASSUME IInv, CInv, HInv, NEW x \in Slots, PinToken(x)
  PROVE  Follows
<1>1. Reaching(x, Waits) /\ Body[exec[x].at] \in {"await", "awaitTimeout"} /\ exec[x].at \in Steps
  BY DEF PinToken, Reaching, Waits
<1>2. exec[x].run \in Runs
  BY <1>1 DEF Reaching, IInv, SlotOK
<1>3. TokenPath(exec[x].at) = <<exec[x].at, "token">>
  BY DEF TokenPath
<1>4. entries[exec[x].run][<<exec[x].at, "token">>] = None
           => entries[exec[x].run][OwnPath(exec[x].at)] = None
  BY <1>1, <1>2, <1>3 DEF HInv, PinsOK
<1> QED BY <1>1, <1>3, <1>4, PinH DEF PinToken

LEMMA PinDeadlineH ==
  ASSUME IInv, CInv, HInv, NEW x \in Slots, PinDeadline(x)
  PROVE  Follows
<1>1. Reaching(x, Waits) /\ Body[exec[x].at] \in Timed /\ exec[x].at \in Steps
  BY DEF PinDeadline, Reaching, Waits, Timed
<1>2. exec[x].run \in Runs
  BY <1>1 DEF Reaching, IInv, SlotOK
<1>3. AtPath(exec[x].at) = <<exec[x].at, "at">>
  BY DEF AtPath
<1>4. entries[exec[x].run][<<exec[x].at, "at">>] = None
           => entries[exec[x].run][OwnPath(exec[x].at)] = None
  BY <1>1, <1>2, <1>3 DEF HInv, PinsOK
<1> QED BY <1>1, <1>3, <1>4, PinH DEF PinDeadline


-----------------------------------------------------------------------------
(* The environment and the calls. *)

LEMMA LandRenewalH ==
  ASSUME IInv, NEW r \in Runs, NEW h, LandRenewal(r, h)
  PROVE  Follows
<1>1. SameRows
  BY ClaimRows DEF LandRenewal, SameRows
<1>2. StillSlots
  BY SlotsRest DEF LandRenewal
<1> QED BY <1>1, <1>2, ClaimFollows DEF LandRenewal

LEMMA LapseH ==
  ASSUME IInv, NEW r \in Runs, Lapse(r)
  PROVE  Follows
<1>1. SameRows
  BY DEF Lapse, IInv, TypeOK, Row, SameRows
<1>2. StillSlots
  BY SlotsRest DEF Lapse
<1> QED BY <1>1, <1>2, ClaimFollows DEF Lapse

LEMMA ElapseH ==
  ASSUME NEW r \in Runs, Elapse(r)
  PROVE  Follows
<1>1. StillSlots /\ SameRows
  BY SlotsRest DEF Elapse, SameRows
<1>2. elapsed \subseteq elapsed'
  BY DEF Elapse
<1> QED BY <1>1, <1>2, ClaimFollows DEF Elapse

LEMMA CrashH ==
  ASSUME IInv, NEW host \in Hosts, Crash(host)
  PROVE  Follows
<1>1. SameRows
  <2>1. PICK h \in [Runs -> Holders \cup {Gone, None}] :
          run' = [r \in Runs |-> [run[r] EXCEPT !.holder = h[r]]]
    <3> DEFINE dead == {HolderOf[x] : x \in {y \in Slots : HostOf[y] = host}}
               Now(g) == IF g \in dead THEN Gone ELSE g
    <3>1. [r \in Runs |-> Now(run[r].holder)] \in [Runs -> Holders \cup {Gone, None}]
      BY DEF IInv, TypeOK, Row
    <3>2. run' = [r \in Runs |-> [run[r] EXCEPT !.holder = Now(run[r].holder)]]
      BY DEF Crash
    <3> HIDE DEF Now
    <3>3. run' = [r \in Runs |-> [run[r] EXCEPT !.holder = [q \in Runs |-> Now(run[q].holder)][r]]]
      BY <3>2
    <3> QED BY <3>1, <3>3
  <2> QED BY <2>1 DEF SameRows, IInv, TypeOK, Row
<1>2. StillSlots
  BY DEF Crash, StillSlots, Idle
<1> QED BY <1>1, <1>2, ClaimFollows DEF Crash

\* A call that only reads, or only returns.
LEMMA CallFollows ==
  ASSUME UNCHANGED <<entries, exec, elapsed, performed>>, StillCalls, StillRows,
         \A q \in Runs : run'[q].result = run[q].result
  PROVE  Follows
<1>1. StillSlots
  BY SlotsRest
<1> QED BY <1>1, QuietFollows

LEMMA ReturnRests ==
  ASSUME IInv, NEW c \in Clients, Return(c)
  PROVE  StillCalls
<1>1. client'[c].op = "done" /\ \A d \in Clients \ {c} : client'[d] = client[d]
  BY DEF Return, NoCall, IInv, TypeOK
<1> QED BY <1>1 DEF StillCalls

LEMMA EnterRests ==
  ASSUME IInv, NEW c \in Clients, NEW r, NEW k, NEW op \in {"unpark", "cancel", "override"},
         Enter(c, op, r, k)
  PROVE  StillCalls
<1>1. client'[c].op = op /\ \A d \in Clients \ {c} : client'[d] = client[d]
  BY DEF Enter, IInv, TypeOK
<1> QED BY <1>1 DEF StillCalls

LEMMA DeliverFindH ==
  ASSUME IInv, HInv, NEW c \in Clients, NEW r \in Runs, DeliverFind(c, r)
  PROVE  Follows
<1>1. run[r].parked \in Steps /\ PinsOK(r, run[r].parked) /\ entries[r][InputsPath] # None
  BY ParkPins DEF DeliverFind, HInv
<1>2. /\ client'[c].run = r /\ client'[c].at = run[r].parked
      /\ \A d \in Clients \ {c} : client'[d] = client[d]
  BY DEF DeliverFind, Enter, IInv, TypeOK
<1>3. UNCHANGED <<run, entries, exec, elapsed, performed>>
  BY DEF DeliverFind
<1>4. StillCalls
  BY <1>1, <1>2, <1>3 DEF StillCalls, PinsOK
<1> QED BY <1>3, <1>4, CallFollows DEF StillRows

LEMMA ReadH ==
  ASSUME IInv, NEW c \in Clients, NEW r \in Runs, CancelRead(c, r) \/ ResumeRead(c, r)
  PROVE  Follows
<1>1. StillCalls
  BY EnterRests DEF CancelRead, ResumeRead
<1> QED BY <1>1, CallFollows DEF CancelRead, ResumeRead, StillRows

LEMMA AbandonH ==
  ASSUME IInv, NEW c \in Clients, Abandon(c)
  PROVE  Follows
<1>1. StillCalls
  BY ReturnRests DEF Abandon
<1> QED BY <1>1, CallFollows DEF Abandon, StillRows

LEMMA UnparkH ==
  ASSUME IInv, NEW c \in Clients, Unpark(c)
  PROVE  Follows
<1>1. PICK r \in Runs : r = client[c].run
  BY DEF Unpark, IInv, CallOK
<1>2. PICK row : row = [run[r] EXCEPT !.status = "running", !.parked = 0,
                                      !.token = None, !.due = None]
  OBVIOUS
<1>3. row.result = run[r].result /\ row.status = "running"
  BY <1>2 DEF IInv, TypeOK, Row
<1>4. run' = [run EXCEPT ![r] = IF run[r].status = "parked" THEN row ELSE run[r]]
  BY <1>1, <1>2 DEF Unpark, UnparkRun
<1>5. \A q \in Runs : run'[q].result = run[q].result
  BY <1>3, <1>4 DEF IInv, TypeOK
<1>6. StillRows
  BY <1>3, <1>4 DEF IInv, TypeOK, StillRows
<1>7. StillCalls
  BY ReturnRests DEF Unpark
<1> QED BY <1>5, <1>6, <1>7, CallFollows DEF Unpark

LEMMA CancelWriteH ==
  ASSUME IInv, NEW c \in Clients, CancelWrite(c)
  PROVE  Follows
<1>1. PICK r \in Runs : r = client[c].run
  BY DEF CancelWrite, IInv, CallOK
<1>2. CompleteRun(r, "cancelled", None) /\ "cancelled" \in RunStatus
  BY <1>1 DEF CancelWrite, RunStatus
<1>3. /\ run'[r].status = "cancelled" /\ run'[r].result = None
      /\ \A q \in Runs \ {r} : run'[q] = run[q]
  BY <1>2, CompleteRow
<1>4. Results(r, None)
  BY <1>3 DEF Results, CancelWrite
<1>5. StillSlots /\ StillCalls
  BY ReturnRests, SlotsRest DEF CancelWrite
<1> QED BY <1>3, <1>4, <1>5, SettleFollows DEF CancelWrite

LEMMA ScheduleH ==
  ASSUME IInv, NEW c \in Clients, NEW r \in Runs, Schedule(c, r)
  PROVE  Follows
<1>1. /\ run'[r].status = "scheduled" /\ run'[r].result = None
      /\ \A q \in Runs \ {r} : run'[q] = run[q]
  BY DEF Schedule, IInv, TypeOK, NoRun
<1>2. Results(r, None)
  BY <1>1 DEF Results, Schedule
<1>3. StillSlots /\ StillCalls
  BY ReturnRests, SlotsRest DEF Schedule
<1> QED BY <1>1, <1>2, <1>3, SettleFollows DEF Schedule

\* What a call appends.
LEMMA AppendCallH ==
  ASSUME IInv, NEW c \in Clients, NEW r \in Runs, NEW p \in Path,
         Append(r, p, c), Enter(c, "unpark", r, 0),
         UNCHANGED <<run, exec, renewals, elapsed, performed, budget>>,
         Writes(r, p, c) => HStep, StillSteps
  PROVE  Follows
<1>1. StillSlots /\ StillCalls /\ StillRows
  BY SlotsRest, EnterRests DEF StillRows
<1>2. Grows
  BY AppendGrows DEF Value, Author
<1>3. HStep
  BY DEF Writes
<1> QED BY <1>1, <1>2, <1>3 DEF Follows

LEMMA DeliverAppendH ==
  ASSUME IInv, HInv, NEW c \in Clients, DeliverAppend(c)
  PROVE  Follows
<1>1. PICK r \in Runs, k \in Steps : r = client[c].run /\ k = client[c].at
  BY DEF DeliverAppend, IInv, CallOK
<1>2. ReachedOK(r, k) /\ PinsOK(r, k) /\ entries[r][InputsPath] # None
  BY <1>1 DEF DeliverAppend, IInv, CallOK, HInv
<1>3. c \in Value
  BY DEF Value, Author
<1>4. Writes(r, OwnPath(k), c) => HStep
  BY <1>2, <1>3, MapRecord
<1>5. StillSteps
  BY <1>1, <1>2, <1>3, Paths, PathsDiffer, OtherSteps DEF DeliverAppend
<1> QED BY <1>1, <1>4, <1>5, Paths, AppendCallH DEF DeliverAppend

LEMMA OverrideAppendH ==
  ASSUME IInv, NEW c \in Clients, OverrideAppend(c)
  PROVE  Follows
<1>1. PICK r \in Runs : r = client[c].run
  BY DEF OverrideAppend, IInv, CallOK
<1>2. c \in Value
  BY DEF Value, Author
<1>3. Writes(r, OverridePath, c) => HStep
  BY <1>2, MapOverride
<1>4. StillSteps
  BY <1>1, <1>2, Paths, PathsDiffer, OtherSteps DEF OverrideAppend
<1> QED BY <1>1, <1>3, <1>4, Paths, AppendCallH DEF OverrideAppend

-----------------------------------------------------------------------------
LEMMA DriveH ==
  ASSUME IInv, CInv, HInv, NEW x \in Slots, Drive(x)
  PROVE  Follows
<1>1. CASE ReadExisting(x)  BY <1>1, ReadExistingH
<1>2. CASE ClaimStart(x)    BY <1>2, ClaimStartH
<1>3. CASE SweepNext(x)     BY <1>3, SweepNextH
<1>4. CASE Load(x)          BY <1>4, LoadH
<1>5. CASE Open(x)          BY <1>5, OpenH
<1>6. CASE DecideInputs(x)  BY <1>6, DecideInputsH
<1>7. CASE Replay(x)        BY <1>7, ReplayH
<1>8. CASE PerformEffect(x) BY <1>8, PerformEffectH
<1>9. CASE RecordStep(x)    BY <1>9, RecordStepH
<1>10. CASE PinToken(x)     BY <1>10, PinTokenH
<1>11. CASE PinDeadline(x)  BY <1>11, PinDeadlineH
<1>12. CASE SleepDone(x)    BY <1>12, SleepDoneH
<1>13. CASE FailEffect(x) \/ AwaitTimeout(x) \/ DecideToPark(x)
  BY <1>13, StepsAside
<1>14. CASE Park(x)         BY <1>14, ParkH
<1>15. CASE SettleFailed(x) BY <1>15, SettleFailedH
<1>16. CASE Complete(x)     BY <1>16, CompleteH
<1> QED
  BY <1>1, <1>2, <1>3, <1>4, <1>5, <1>6, <1>7, <1>8, <1>9, <1>10, <1>11, <1>12, <1>13,
     <1>14, <1>15, <1>16 DEF Drive

LEMMA AddressH ==
  ASSUME IInv, HInv, NEW c \in Clients, Address(c)
  PROVE  Follows
<1>1. ASSUME NEW r \in Runs, DeliverFind(c, r) PROVE Follows
  BY <1>1, DeliverFindH
<1>2. ASSUME NEW r \in Runs, CancelRead(c, r) \/ ResumeRead(c, r) PROVE Follows
  BY <1>2, ReadH
<1>3. ASSUME NEW r \in Runs, Schedule(c, r) PROVE Follows
  BY <1>3, ScheduleH
<1>4. CASE DeliverAppend(c)  BY <1>4, DeliverAppendH
<1>5. CASE Unpark(c)         BY <1>5, UnparkH
<1>6. CASE CancelWrite(c)    BY <1>6, CancelWriteH
<1>7. CASE OverrideAppend(c) BY <1>7, OverrideAppendH
<1>8. CASE Abandon(c)        BY <1>8, AbandonH
<1> QED BY <1>1, <1>2, <1>3, <1>4, <1>5, <1>6, <1>7, <1>8 DEF Address

LEMMA NextH ==
  ASSUME IInv, CInv, HInv, [Next]_vars
  PROVE  Follows
<1>1. ASSUME NEW x \in Slots, NEW r \in Runs, AdmitRun(x, r) PROVE Follows
  BY <1>1, AdmitRunH
<1>2. ASSUME NEW x \in Slots, Sweep(x) PROVE Follows
  BY <1>2, SweepH
<1>3. ASSUME NEW x \in Slots, Drive(x) PROVE Follows
  BY <1>3, DriveH
<1>4. ASSUME NEW x \in Slots, FireRenewal(x) PROVE Follows
  BY <1>4, FireRenewalH
<1>5. ASSUME NEW x \in Slots, Interrupt(x) \/ FailWrite(x) PROVE Follows
  BY <1>5, InterruptH, StepsAside
<1>6. ASSUME NEW r \in Runs, NEW h \in Holders \cup {Gone}, LandRenewal(r, h) PROVE Follows
  BY <1>6, LandRenewalH
<1>7. ASSUME NEW r \in Runs, Lapse(r) \/ Elapse(r) PROVE Follows
  BY <1>7, LapseH, ElapseH
<1>8. ASSUME NEW host \in Hosts, Crash(host) PROVE Follows
  BY <1>8, CrashH
<1>9. ASSUME NEW c \in Clients, Address(c) PROVE Follows
  BY <1>9, AddressH
<1>10. CASE UNCHANGED vars
  BY <1>10, CallFollows DEF vars, StillCalls, StillRows
<1> QED BY <1>1, <1>2, <1>3, <1>4, <1>5, <1>6, <1>7, <1>8, <1>9, <1>10 DEF Next

LEMMA InitH == Init => HInv /\ History!HistoryInit
<1> SUFFICES ASSUME Init PROVE HInv /\ History!HistoryInit
  OBVIOUS
<1>1. \A r \in Runs, p \in Path : entries[r][p] = None
  BY DEF Init, NothingSeen
<1>2. HInv
  BY <1>1, Paths DEF Init, HInv, Idle, NoCall, NoRun
<1>3. /\ InputsOf = [r \in Runs |-> None] /\ OverridesOf = [r \in Runs |-> None]
      /\ ResultOf = [r \in Runs |-> None]
  BY <1>1, Paths DEF Init, NoRun, InputsOf, OverridesOf, ResultOf
<1>4. StepsOf = [r \in Runs |-> [k \in 1..N |-> None]]
  <2>1. \A r \in Runs : [k \in 1..N |-> entries[r][OwnPath(k)]] = [k \in 1..N |-> None]
    BY <1>1, Paths DEF Steps
  <2> QED BY <2>1 DEF StepsOf
<1>5. PinsOf = [r \in Runs |-> [k \in 1..N |-> [d \in {"token", "at"} |-> None]]]
  <2>1. \A r \in Runs, k \in 1..N, d \in {"token", "at"} : entries[r][<<k, d>>] = None
    BY <1>1 DEF Path, Steps
  <2>2. \A r \in Runs, k \in 1..N :
          [d \in {"token", "at"} |-> entries[r][<<k, d>>]] = [d \in {"token", "at"} |-> None]
    BY <2>1
  <2>3. \A r \in Runs :
          [k \in 1..N |-> [d \in {"token", "at"} |-> entries[r][<<k, d>>]]]
            = [k \in 1..N |-> [d \in {"token", "at"} |-> None]]
    BY <2>2
  <2> QED BY <2>3 DEF PinsOf
<1>6. History!HistoryInit
  BY <1>3, <1>4, <1>5
     DEF History!HistoryInit, History!Pins, InputsOf, StepsOf, PinsOf, OverridesOf, ResultOf
<1> QED BY <1>2, <1>6

\* Whatever crashes, lapses, is cancelled or swallowed: a wait that is recorded, about
\* to be recorded or about to be answered has its token and deadline in the journal,
\* and a run that parked has its inputs there (run-handle.ts, deliver.ts).
THEOREM HistoryInvariant == Spec => [](IInv /\ CInv /\ HInv)
<1>1. Init => HInv
  BY InitH
<1>2. IInv /\ CInv /\ HInv /\ [Next]_vars => HInv'
  BY NextH, HKept DEF Follows
<1> QED BY <1>1, <1>2, ClaimsInvariant, PTL DEF Spec

\* The backend implements DurableHistory: the entries table, written by racing
\* executions and outside calls, is one history per run.  Inputs before steps, steps
\* in order and once, a decision only while its step is the one to come, and a result
\* that is the whole history or none (run-handle.ts #write, postgres append).
THEOREM Refines == Spec => OneHistory
<1>1. Init => History!HistoryInit
  BY InitH
<1>2. IInv /\ CInv /\ HInv /\ [Next]_vars => [History!HistoryNext]_(History!hvars)
  BY NextH DEF Follows, HStep
<1> QED BY <1>1, <1>2, HistoryInvariant, PTL DEF Spec, OneHistory, History!HistorySpec
=============================================================================
