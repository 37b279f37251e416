--------------------------- MODULE ContextLifecycle ---------------------------
(***************************************************************************)
(* The resources of one EvaluationContext: the interleaved create/init     *)
(* loop, teardown, and the reconciliation that unwinds and rebuilds what   *)
(* an edit touched.  What happens to the effects of a single resource is   *)
(* in EffectScope; here a resource is one unit and what matters is the     *)
(* order, the retries and who is left behind.                              *)
(*                                                                         *)
(* A step handles one resource.  The loop takes the pending resources in   *)
(* any order: the sorted order knows only the edges the analyzer sees.     *)
(***************************************************************************)
EXTENDS Naturals, Sequences, FiniteSets, SequencesExt

CONSTANTS
  Resources,      \* resource names
  Deps,           \* Deps[r]: what r holds through a reference or reads
  ByName,         \* ByName[r]: what r looks up by name while it initializes
  Needs,          \* Needs[r]: what must be initialized for create() to succeed
  Sinks,          \* the resources with TEARDOWN_LAST
  Broken,         \* the resources whose init() always fails
  MaxPasses,      \* MAX_PASSES
  MaxFlakes,      \* bound on failures of the others
  MaxReconciles,  \* bound on reconciliations
  Overlap         \* may the kernel be torn down during a reconciliation?

Uses(r) == Deps[r] \cup ByName[r]

ASSUME LifecycleConstants ==
  /\ \A f \in {Deps, ByName, Needs} : f \in [Resources -> SUBSET Resources]
  /\ Sinks \subseteq Resources /\ Broken \subseteq Resources
  /\ {MaxPasses, MaxFlakes, MaxReconciles} \subseteq Nat
  /\ Overlap \in BOOLEAN

VARIABLES
  phase,      \* what the host awaits: "loop", "ready", "failed", "aborted", "unwind"
  st,         \* st[r]: pendingResources, createdInstances, resourceInstances
  order,      \* resourceInstances in insertion order
  withheld,   \* withheldResources
  recreated,  \* recreatedResources
  loop,       \* initializeResources' local state
  started,    \* the resources whose run() was dispatched
  reconciling,  \* what a reconciliation has still to unwind, and is to rebuild
  down,       \* the teardown, and what it has still to unwind
  opaque,     \* opaquelyRead
  held,       \* the resources with effects whose inverses were not run
  faulted,    \* history: who failed by itself since the pass began
  moved,      \* history: first creations and initializations of this loop
  counts      \* failures and reconciliations so far

lifeVars == <<phase, st, order, withheld, recreated, loop, started, reconciling, down, opaque,
              held, faulted, moved, counts>>

\* What the loop leaves alone.
hostVars == <<started, reconciling, down>>

With(s) == {r \in Resources : st[r] = s}
Declared == Resources \ With("out")

\* A pass begins with its create sub-phase.
PassFrom(pass) == [sub |-> "create", todo |-> With("pending"), now |-> {}, progress |-> FALSE,
                   pass |-> pass]

NoUnwinding == [line |-> <<>>, left |-> {}, impacted |-> {}, rebuilt |-> {}, refused |-> FALSE]

LifeInit ==
  /\ phase = "loop"
  /\ st = [r \in Resources |-> "pending"]
  /\ order = <<>>
  /\ withheld = {} /\ recreated = {} /\ started = {}
  /\ opaque = {} /\ held = {} /\ faulted = {}
  /\ loop = [sub |-> "create", todo |-> Resources, now |-> {}, progress |-> FALSE, pass |-> 1]
  /\ reconciling = NoUnwinding
  /\ down = [st |-> "no", line |-> <<>>, left |-> {}, early |-> FALSE]
  /\ moved = 0
  /\ counts = [flakes |-> 0, reconciles |-> 0]

-----------------------------------------------------------------------------
(* initializeResources. *)

\* Who may fail by itself now.
MayFail(r) ==
  \/ /\ r \in Broken
     /\ UNCHANGED counts
  \/ /\ r \notin Broken /\ counts.flakes < MaxFlakes
     /\ counts' = [counts EXCEPT !.flakes = @ + 1]

Looping == phase = "loop"
Settled == phase \in {"ready", "failed", "aborted"}

\* Mutant: creating a resource again counts as progress.
CountsAsProgress_Always(r) == TRUE

CountsAsProgress(r) == r \notin recreated

\* create() succeeds; init() follows at once.
CreateOne(r) ==
  /\ Looping /\ loop.sub = "create" /\ loop.now = {} /\ r \in loop.todo
  /\ \A d \in Needs[r] : st[d] = "live"
  /\ st' = [st EXCEPT ![r] = "created"]
  /\ held' = held \cup {r}
  /\ loop' = [loop EXCEPT !.todo = @ \ {r}, !.now = {r}, !.progress = @ \/ CountsAsProgress(r)]
  /\ moved' = IF r \in recreated THEN moved ELSE moved + 1
  /\ UNCHANGED <<phase, order, withheld, recreated, hostVars, opaque, faulted, counts>>

\* create() throws: the resource stays pending.
CreateThrows(r) ==
  /\ Looping /\ loop.sub = "create" /\ loop.now = {} /\ r \in loop.todo
  /\ IF \E d \in Needs[r] : st[d] # "live" THEN UNCHANGED <<faulted, counts>>
     ELSE MayFail(r) /\ faulted' = faulted \cup {r}
  /\ loop' = [loop EXCEPT !.todo = @ \ {r}]
  /\ UNCHANGED <<phase, st, order, withheld, recreated, hostVars, opaque, held, moved>>

EndCreates ==
  /\ Looping /\ loop.sub = "create" /\ loop.now = {} /\ loop.todo = {}
  /\ loop' = [loop EXCEPT !.sub = "init", !.todo = With("created") \ withheld]
  /\ UNCHANGED <<phase, st, order, withheld, recreated, hostVars, opaque, held,
                 faulted, moved, counts>>

\* The resource initialize() is called for: the one just created, or one of the
\* init sub-phase.
Turn(r) ==
  /\ Looping
  /\ loop.now = {r} \/ (loop.sub = "init" /\ loop.now = {} /\ r \in loop.todo)
\* What was injected is there, so init() runs and looks up what it knows by name.
TurnOver(r, progress) ==
  /\ loop' = [loop EXCEPT !.todo = @ \ {r}, !.now = {}, !.progress = @ \/ progress]
  /\ opaque' = IF \A d \in Deps[r] : st[d] = "live" THEN opaque \cup ByName[r] ELSE opaque

\* Mutant: an initialization is no progress.
Initialized_NoProgress(r) ==
  /\ Turn(r) /\ \A d \in Uses(r) : st[d] = "live"
  /\ st' = [st EXCEPT ![r] = "live"]
  /\ order' = Append(order, r)
  /\ TurnOver(r, FALSE)
  /\ moved' = moved + 1
  /\ UNCHANGED <<phase, withheld, recreated, hostVars, held, faulted, counts>>

Initialized(r) ==
  /\ Turn(r) /\ \A d \in Uses(r) : st[d] = "live"
  /\ st' = [st EXCEPT ![r] = "live"]
  /\ order' = Append(order, r)
  /\ TurnOver(r, TRUE)
  /\ moved' = moved + 1
  /\ UNCHANGED <<phase, withheld, recreated, hostVars, held, faulted, counts>>

\* Mutant: a reference that is not initialized yet is left empty.
Deferred_Never(r) ==
  /\ Turn(r) /\ \E d \in Uses(r) : st[d] \in {"pending", "created"}
  /\ st' = [st EXCEPT ![r] = "live"]
  /\ order' = Append(order, r)
  /\ TurnOver(r, TRUE)
  /\ UNCHANGED <<phase, withheld, recreated, hostVars, held, faulted, moved,
                 counts>>

\* A reference to a resource that is not initialized yet defers: the instance stays,
\* and is withheld when what init() did cannot be undone.
Deferred(r) ==
  /\ Turn(r) /\ \E d \in Uses(r) : st[d] \in {"pending", "created"}
  /\ TurnOver(r, FALSE)
  /\ \/ UNCHANGED <<withheld, counts>>
     \/ MayFail(r) /\ withheld' = withheld \cup {r}
  /\ UNCHANGED <<phase, st, order, recreated, hostVars, held, faulted, moved>>

\* init() fails: everything is undone, the instance dropped and the resource queued
\* again.  Or an inverse refuses, and the resource is withheld.  Or init() is done and
\* publishSnapshot() fails: the instance stays, with all it did.
InitFails(r) ==
  /\ Turn(r)
  /\ IF \A d \in Uses(r) : st[d] = "live" THEN MayFail(r)
     ELSE /\ \A d \in Uses(r) : st[d] \notin {"pending", "created"}
          /\ UNCHANGED counts
  /\ faulted' = faulted \cup {r}
  /\ TurnOver(r, FALSE)
  /\ \/ /\ st' = [st EXCEPT ![r] = "pending"]
        /\ held' = held \ {r}
        /\ recreated' = recreated \cup {r}
        /\ UNCHANGED withheld
     \/ /\ withheld' = withheld \cup {r}
        /\ UNCHANGED <<st, held, recreated>>
     \/ UNCHANGED <<st, held, recreated, withheld>>
  /\ UNCHANGED <<phase, order, hostVars, moved>>

\* ERR_FATAL and ERR_VISIBILITY_DENIED leave the loop at once: raised by init(), after
\* its recovery; raised before, with the instance as it is.
Fatal(r) ==
  /\ Turn(r) \/ (Looping /\ loop.sub = "create" /\ loop.now = {} /\ r \in loop.todo)
  /\ MayFail(r)
  /\ phase' = "aborted"
  /\ \/ /\ st[r] = "created"
        /\ st' = [st EXCEPT ![r] = "pending"]
        /\ held' = held \ {r}
        /\ recreated' = recreated \cup {r}
     \/ UNCHANGED <<st, held, recreated>>
  /\ UNCHANGED <<order, withheld, loop, hostVars, opaque, faulted, moved>>

\* A pass without progress, or the last one, ends the loop.
EndPass ==
  /\ Looping /\ loop.sub = "init" /\ loop.now = {} /\ loop.todo = {}
  /\ IF loop.progress /\ loop.pass < MaxPasses
     THEN /\ loop' = PassFrom(loop.pass + 1)
          /\ faulted' = {}
          /\ UNCHANGED phase
     ELSE /\ phase' = IF With("pending") \cup With("created") = {} THEN "ready" ELSE "failed"
          /\ UNCHANGED <<loop, faulted>>
  /\ UNCHANGED <<st, order, withheld, recreated, hostVars, opaque, held, moved, counts>>

-----------------------------------------------------------------------------
(* Unwinding. *)

InTier(r, left) == r \in Sinks => left \subseteq Sinks

\* Nobody left in the tier depends on r.
Free(r, left) ==
  /\ InTier(r, left)
  /\ \A c \in left : InTier(c, left) /\ c # r => r \notin Deps[c]

\* Mutant: in the order of insertion.
UnwindsNext_Oldest(r, line, left) ==
  \E i \in 1..Len(line) : /\ line[i] = r /\ r \in left
                         /\ \A j \in (i + 1)..Len(line) : line[j] \notin left

\* teardownOrder, from a line in the reverse of the insertion order: the lower tier
\* first, in it the first resource that is free.
UnwindsNext(r, line, left) ==
  /\ r \in left /\ Free(r, left)
  /\ \E i \in 1..Len(line) : /\ line[i] = r
                            /\ \A j \in 1..(i - 1) : line[j] \in left => ~Free(line[j], left)

\* unwindEach, for one resource: its effects are undone, its instance dropped.
Unwound(r, as) ==
  /\ st' = [st EXCEPT ![r] = IF @ = "live" THEN as ELSE @]
  /\ order' = RemoveFirst(order, r)
  /\ held' = held \ {r}
  /\ started' = started \ {r}

\* Mutant: the resources that are to go last are left out.
ToTearDown_FirstTier == Range(order) \ Sinks

ToTearDown == Range(order)

\* teardown(): the instances of now, in order.
BeginTeardown ==
  /\ down.st = "no"
  /\ Settled \/ (Overlap /\ counts.reconciles > 0)
  /\ down' = [st |-> "going", line |-> Reverse(order), left |-> ToTearDown, early |-> ~Settled]
  /\ UNCHANGED <<phase, st, order, withheld, recreated, loop, started, reconciling, opaque,
                 held, faulted, moved, counts>>

TeardownOne(r) ==
  /\ down.st = "going" /\ UnwindsNext(r, down.line, down.left)
  /\ Unwound(r, "gone")
  /\ down' = [down EXCEPT !.left = @ \ {r}]
  /\ UNCHANGED <<opaque, phase, withheld, recreated, loop, reconciling, faulted, moved, counts>>

EndTeardown ==
  /\ down.st = "going" /\ down.left = {}
  /\ down' = [down EXCEPT !.st = "done", !.line = <<>>]
  /\ UNCHANGED <<phase, st, order, withheld, recreated, loop, started, reconciling, opaque,
                 held, faulted, moved, counts>>

-----------------------------------------------------------------------------
(* Targets and reconciliation. *)

StartTarget(r) ==
  /\ phase = "ready" /\ down.st = "no" /\ st[r] = "live" /\ r \notin started
  /\ started' = started \cup {r}
  /\ UNCHANGED <<phase, st, order, withheld, recreated, loop, reconciling, down, opaque, held,
                 faulted, moved, counts>>

\* Mutant: only the direct holders.
ImpactClosure_Direct(stale) == stale \cup {r \in Declared : Deps[r] \cap stale # {}}

\* impactClosure: the least set closed under holders.
ImpactClosure(stale) ==
  CHOOSE s \in SUBSET Declared :
    /\ stale \subseteq s
    /\ \A r \in Declared : Deps[r] \cap s # {} => r \in s
    /\ \A t \in SUBSET s : /\ stale \subseteq t
                           /\ \A r \in Declared : Deps[r] \cap t # {} => r \in t
                           => t = s

\* Mutant: a resource looked up by name is unwound under its holder.
Bounded_Opaque(impacted) == impacted \cap started = {}

\* A reconciliation is given up, nothing unwound, when the impact reaches a resource
\* somebody looked up by name or one that was started.
Bounded(impacted) ==
  /\ impacted \cap started = {}
  /\ impacted \cap opaque = {}

\* reconcile(): of the declared, `edited` moved or went away and `removed` went away;
\* `added` is new; the rest of the impact is rebuilt.  What is declared uses only what is
\* declared.
BeginReconcile(edited, removed, added) ==
  LET impacted == ImpactClosure(edited)
      after == (Declared \ removed) \cup added
  IN /\ phase = "ready" /\ down.st = "no" /\ edited \cup added # {}
     /\ \A r \in after : Uses(r) \cup Needs[r] \subseteq after
     /\ counts.reconciles < MaxReconciles
     /\ Bounded(impacted)
     /\ counts' = [counts EXCEPT !.reconciles = @ + 1]
     /\ phase' = "unwind"
     /\ reconciling' = [line |-> Reverse(order), left |-> impacted \cap Range(order),
                      impacted |-> impacted, rebuilt |-> (impacted \ removed) \cup added,
                      refused |-> FALSE]
     /\ UNCHANGED <<st, order, withheld, recreated, loop, started, down, opaque, held, faulted,
                    moved>>

\* unwindEach goes on over an inverse that refuses.
UnwindOne(r, refused) ==
  /\ phase = "unwind" /\ UnwindsNext(r, reconciling.line, reconciling.left)
  /\ Unwound(r, "gone")
  /\ reconciling' = [reconciling EXCEPT !.left = @ \ {r}, !.refused = @ \/ refused]
  /\ IF refused THEN MayFail(r) ELSE UNCHANGED counts
  /\ UNCHANGED <<phase, withheld, recreated, loop, down, opaque, faulted, moved>>

\* deregisterManifest, registerManifest, and another round of the loop.
Reregister ==
  /\ phase = "unwind" /\ reconciling.left = {} /\ ~reconciling.refused
  /\ st' = [r \in Resources |->
              IF r \in reconciling.rebuilt THEN "pending"
              ELSE IF r \in reconciling.impacted THEN "out" ELSE st[r]]
  /\ withheld' = withheld \ reconciling.impacted
  /\ recreated' = recreated \ reconciling.impacted
  /\ phase' = "loop"
  /\ loop' = [sub |-> "create", todo |-> reconciling.rebuilt, now |-> {}, progress |-> FALSE,
              pass |-> 1]
  /\ reconciling' = NoUnwinding
  /\ faulted' = {} /\ moved' = 0
  /\ UNCHANGED <<order, started, down, opaque, held, counts>>

\* Something refused: unwindResources throws, and reconcile() with it.
ReconcileRejects ==
  /\ phase = "unwind" /\ reconciling.left = {} /\ reconciling.refused
  /\ phase' = "ready"
  /\ reconciling' = NoUnwinding
  /\ UNCHANGED <<st, order, withheld, recreated, loop, started, down, opaque, held, faulted,
                 moved, counts>>

LifeNext ==
  \/ \E r \in Resources : \/ CreateOne(r) \/ CreateThrows(r)
                          \/ Initialized(r) \/ Deferred(r) \/ InitFails(r) \/ Fatal(r)
                          \/ StartTarget(r) \/ TeardownOne(r)
                          \/ \E refused \in BOOLEAN : UnwindOne(r, refused)
  \/ EndCreates \/ EndPass \/ BeginTeardown \/ EndTeardown \/ Reregister \/ ReconcileRejects
  \/ /\ phase = "ready"
     /\ \E edited \in SUBSET Declared, added \in SUBSET With("out") :
          \E removed \in SUBSET edited : BeginReconcile(edited, removed, added)

LifeSpec == LifeInit /\ [][LifeNext]_lifeVars

-----------------------------------------------------------------------------
(* Properties. *)

LifeTypeOK ==
  /\ phase \in {"loop", "ready", "failed", "aborted", "unwind"}
  /\ st \in [Resources -> {"out", "pending", "created", "live", "gone"}]
  /\ Range(order) \subseteq Resources /\ IsInjective(order)
  /\ withheld \cup recreated \cup started \cup opaque \cup held \cup faulted \subseteq Resources
  /\ loop.pass \in 1..MaxPasses
  /\ down.st \in {"no", "going", "done"}

\* A live resource never holds a dead one: not while the loop retries and defers, not
\* halfway through a teardown or a reconciliation, whatever was rebuilt before.  A sink
\* alone may outlive what it uses (resource-edges.ts, "a consumer is torn down before
\* everything it holds").
HoldsTheLiving ==
  ~down.early => \A r \in With("live") \ Sinks : \A d \in Uses(r) : st[d] = "live"

\* When the loop gives up before its last pass, nobody was given up on for want of another
\* one: whoever is not live failed by itself in the final pass, was withheld, or waits
\* for somebody who is not live (evaluation-context.ts initializeResources).
GaveEveryoneATurn ==
  phase = "failed" /\ loop.pass < MaxPasses =>
    \A r \in With("pending") \cup With("created") :
      \/ r \in faulted \cup withheld
      \/ \E d \in Uses(r) \cup Needs[r] : st[d] # "live"

\* A pass is earned by somebody created for the first time or initialized: a resource
\* that keeps failing is not created over and over ("ten pools for an unreachable
\* database").
PassesAreEarned == loop.pass <= 1 + moved

\* The loop makes as many passes as somebody needs and no more.
EndsInTime == GaveEveryoneATurn /\ PassesAreEarned

\* A teardown leaves nobody live, and nothing held but by resources that never were
\* (kernel.ts teardown, "cleans up whichever resources had initialized").
TeardownIsComplete ==
  down.st = "done" /\ ~down.early =>
    With("live") = {} /\ held \subseteq With("created")

-----------------------------------------------------------------------------
(* Statements of the source that the code does not keep. *)

\* evaluation-context.ts, "everything create() allocated on its behalf goes with it or
\* nothing reclaims it": a resource that only ever deferred, or was withheld, stays
\* among the created instances, which the teardown does not look at.
NothingStaysHeld == down.st = "done" => held = {}

\* kernel.ts reconcileLocked, "every exit before that point puts them back", and the
\* change log, "A failed `Kernel.reconcile()` leaves the kernel as it was": when an
\* inverse refuses, what was unwound stays declared and is not live, and the next
\* reconcile() finds no difference.
ReadyIsLive == phase = "ready" /\ down.st = "no" => With("live") = Declared

\* kernel.ts teardown, "Tear down every initialized resource": with a reconciliation
\* under way, what it initializes later is not in the teardown's list.
EveryoneTornDown == down.st = "done" => With("live") = {}
==============================================================================
