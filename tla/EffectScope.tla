---------------------------- MODULE EffectScope ----------------------------
(***************************************************************************)
(* The inverse accumulator behind ctx.effect and the lifecycle that drives *)
(* it (kernel/nodejs/src/effect-scope.ts and the init, run and teardown    *)
(* paths of evaluation-context.ts), for one resource.                      *)
(*                                                                         *)
(* The scope is a stack of frames of inverses.  Three kinds of chains run  *)
(* against it: the one an init() returned, the one a run() returned, and   *)
(* the ones operations perform (an invocation, or a detached task).  An    *)
(* inverse is asynchronous, so whoever runs inverses (a recovery, a        *)
(* disposal, the teardown) is suspended at each of them, and everything    *)
(* else on the event loop goes on meanwhile.  An action is the code        *)
(* between two awaits.                                                     *)
(***************************************************************************)
EXTENDS Integers, Sequences, FiniteSets

CONSTANTS
    Inits,        \* attempts at init(), each with its own chain
    Runs,         \* calls of run(), each with its own chain
    Ops,          \* chains performed by operations
    Generators,   \* the chains whose steps are the yields of one generator body
    Registers,    \* the operations that use register() instead of a chain
    Disposers,    \* the operations that dispose of their effect when they end
    Teardown,     \* the teardown of the resource
    None,         \* no effect
    Steps,        \* the steps of a chain, each allocating something
    Overlapping,  \* may the resource be torn down while a run() is under way?
    Unpublishable \* may publishing the resource after a good init() fail?

Chains == Inits \cup Runs \cup Ops
Unwinders == Chains \cup {Teardown}

\* The k-th step of a chain allocates something and produces the inverse that
\* releases it.
Effects == Chains \X (1..Steps)

ASSUME ScopeConstants ==
    /\ Inits \cap Runs = {} /\ Inits \cap Ops = {} /\ Runs \cap Ops = {}
    /\ Teardown \notin Chains /\ None \notin Effects
    /\ Generators \subseteq Chains /\ Registers \subseteq Ops /\ Disposers \subseteq Ops
    /\ Generators \cap Registers = {}
    /\ Steps \in Nat \ {0}
    /\ Overlapping \in BOOLEAN /\ Unpublishable \in BOOLEAN

VARIABLES
    frames,    \* the open frames, innermost last, each a set of effects
    unwinding, \* the flag a chain looks at before it starts a step
    closed,    \* every frame was unwound: terminal
    eff,       \* what became of each effect
    chain,     \* where each chain is
    un,        \* where each caller of runInverses is
    life,      \* where the resource is in its lifecycle
    count      \* how many effects were recorded: their order

vars == <<frames, unwinding, closed, eff, chain, un, life, count>>
-----------------------------------------------------------------------------
\* "held": recorded, its inverse not started (the registration is not disposed);
\* "lost": allocated, but there was no frame to record its inverse on.
EffectStates == {"none", "held", "running", "undone", "refused", "lost"}

Idle == [pc |-> "idle", at |-> 0, why |-> "none"]
Off == [st |-> "off", was |-> FALSE, all |-> FALSE, refused |-> FALSE, now |-> None, todo |-> {}]
Ended == [Off EXCEPT !.st = "ended"]

\* Why a chain did not complete: a step of its own, or a refusal by the scope.
Reasons == {"none", "threw", "closing", "closed", "no_frame"}

TypeOK ==
    /\ frames \in Seq(SUBSET Effects)
    /\ unwinding \in BOOLEAN
    /\ closed \in BOOLEAN
    /\ eff \in [Effects -> [st: EffectStates, depth: Nat, order: Nat, runs: Nat]]
    /\ chain \in [Chains -> [pc: {"idle", "called", "body", "ok", "failed", "settled"},
                             at: 0..Steps, why: Reasons]]
    /\ un \in [Unwinders -> [st: {"off", "inverse", "between", "ended"}, was: BOOLEAN,
                             all: BOOLEAN, refused: BOOLEAN,
                             now: Effects \cup {None}, todo: SUBSET Effects]]
    /\ life \in {"created", "initing", "live", "tearing", "down", "discarded", "withheld"}
    /\ count \in Nat

Init ==
    /\ frames = << {} >>         \* the create frame is opened with the scope
    /\ unwinding = FALSE
    /\ closed = FALSE
    /\ eff = [e \in Effects |-> [st |-> "none", depth |-> 0, order |-> 0, runs |-> 0]]
    /\ chain = [c \in Chains |-> Idle]
    /\ un = [u \in Unwinders |-> Off]
    /\ life = "created"
    /\ count = 0
-----------------------------------------------------------------------------
(* Running inverses *)

\* Wrong form: a registration somebody disposed of is run again.
Undisposed_All(list, state) == {e \in list : state[e].st \in {"held", "running", "undone"}}

\* The entries of a list an unwind would still run: a disposed one is skipped.
Undisposed(list, state) == {e \in list : state[e].st = "held"}

\* Wrong form: in the order of registration.
IsNewest_Oldest(e, list) == e \in list /\ \A f \in list : eff[e].order <= eff[f].order

IsNewest(e, list) == e \in list /\ \A f \in list : eff[f].order <= eff[e].order

\* The newest inverse of the list is started, on its way off its frame; with
\* nothing left to run, the flag goes back to what it was and the caller is
\* resumed a few ticks later.  The flag is raised once, before the first.
RunInverses(u, list, flag, was, all, refused, stack, state) ==
    LET left == Undisposed(list, state)
    IN  \/ \E e \in left :
             /\ IsNewest(e, left)
             /\ eff' = [state EXCEPT ![e] = [st |-> "running", depth |-> @.depth,
                                              order |-> @.order, runs |-> @.runs + 1]]
             /\ frames' = [i \in 1..Len(stack) |-> stack[i] \ {e}]
             /\ unwinding' = flag
             /\ un' = [un EXCEPT ![u] = [st |-> "inverse", was |-> was, all |-> all,
                                         refused |-> refused, now |-> e, todo |-> left \ {e}]]
        \/ /\ left = {}
           /\ eff' = state
           /\ frames' = stack
           /\ unwinding' = was
           /\ un' = [un EXCEPT ![u] = [st |-> "between", was |-> was, all |-> all,
                                       refused |-> refused, now |-> None, todo |-> {}]]

\* Wrong form: the frame is unwound but stays on the stack.
UnwindFrame_Peeks(u, all, refused) ==
    /\ frames # <<>>
    /\ RunInverses(u, frames[Len(frames)], TRUE, unwinding, all, refused, frames, eff)

\* unwindFrame: the innermost frame is popped and its inverses run.
UnwindFrame(u, all, refused) ==
    \/ /\ frames # <<>>
       /\ RunInverses(u, frames[Len(frames)], TRUE, unwinding, all, refused,
                      SubSeq(frames, 1, Len(frames) - 1), eff)
    \/ /\ frames = <<>>
       /\ RunInverses(u, {}, TRUE, unwinding, all, refused, <<>>, eff)

\* An inverse settles; one that throws is kept as a failure, and the unwind
\* goes on with the entries of its list that nobody disposed of meanwhile.
InverseSettles(u, ok) ==
    /\ un[u].st = "inverse"
    /\ RunInverses(u, un[u].todo, unwinding, un[u].was, un[u].all, un[u].refused \/ ~ok, frames,
                   [eff EXCEPT ![un[u].now].st = IF ok THEN "undone" ELSE "refused"])
    /\ UNCHANGED <<closed, chain, life, count>>

\* unwindAll: one frame is done and another is open.
NextFrame(u) ==
    /\ un[u].st = "between" /\ un[u].all /\ frames # <<>>
    /\ UnwindFrame(u, TRUE, un[u].refused)
    /\ UNCHANGED <<closed, chain, life, count>>

\* Wrong form: the scope is closed after its innermost frame.
ScopeCloses_OneFrame(u) ==
    /\ un[u].st = "between" /\ un[u].all
    /\ closed' = TRUE
    /\ un' = [un EXCEPT ![u] = Ended]
    /\ life' = IF u = Teardown THEN "down"
               ELSE IF un[u].refused THEN "withheld" ELSE "discarded"
    /\ UNCHANGED <<frames, unwinding, eff, chain, count>>

\* unwindAll: no frame is left.  The scope is closed, and the teardown goes on
\* to the next resource, or the failed instance is discarded: its retry has a
\* scope of its own.
ScopeCloses(u) ==
    /\ un[u].st = "between" /\ un[u].all /\ frames = <<>>
    /\ closed' = TRUE
    /\ un' = [un EXCEPT ![u] = Ended]
    /\ life' = IF u = Teardown THEN "down"
               ELSE IF un[u].refused THEN "withheld" ELSE "discarded"
    /\ UNCHANGED <<frames, unwinding, eff, chain, count>>

\* Wrong form: a deferred init() is tried again although an inverse refused.
FrameUnwound_Retries(u) ==
    /\ un[u].st = "between" /\ ~un[u].all
    /\ un' = [un EXCEPT ![u] = Ended]
    /\ life' = IF u \in Inits THEN "created" ELSE life
    /\ UNCHANGED <<frames, unwinding, closed, eff, chain, count>>

\* A disposal, the recovery of a run() or that of a deferred init() is over;
\* a deferred init() may be tried again, unless something could not be undone.
FrameUnwound(u) ==
    /\ un[u].st = "between" /\ ~un[u].all
    /\ un' = [un EXCEPT ![u] = Ended]
    /\ life' = IF u \in Inits THEN IF un[u].refused THEN "withheld" ELSE "created" ELSE life
    /\ UNCHANGED <<frames, unwinding, closed, eff, chain, count>>
-----------------------------------------------------------------------------
(* Chains *)

Pc(c, pc, at, why) == [chain EXCEPT ![c] = [pc |-> pc, at |-> at, why |-> why]]

\* Wrong form: only a closed scope turns a step away.
Refusal_ClosedOnly(c, at) ==
    IF closed /\ (at = 0 \/ c \notin Generators) THEN "closed" ELSE "none"

\* The boundary before the step after at: between two steps of a chain the
\* scope must be neither closed nor unwinding, between two yields of a
\* generator it must not be unwinding.
Refusal(c, at) ==
    IF closed /\ (at = 0 \/ c \notin Generators) THEN "closed"
    ELSE IF unwinding THEN "closing" ELSE "none"

\* Wrong form: one step too many.
Boundary_OffByOne(c, at) ==
    IF at = Steps + 1 /\ (c \notin Generators \/ ~unwinding) THEN Pc(c, "ok", at, "none")
    ELSE IF Refusal(c, at) # "none" THEN Pc(c, "failed", at, Refusal(c, at))
    ELSE Pc(c, "body", at, "none")

Boundary(c, at) ==
    IF at = Steps /\ (c \notin Generators \/ ~unwinding) THEN Pc(c, "ok", at, "none")
    ELSE IF Refusal(c, at) # "none" THEN Pc(c, "failed", at, Refusal(c, at))
    ELSE Pc(c, "body", at, "none")

\* record: onto the innermost frame of now, whichever was open at the start.
Record(e) ==
    /\ frames' = [frames EXCEPT ![Len(frames)] = @ \cup {e}]
    /\ eff' = [eff EXCEPT ![e] = [st |-> "held", depth |-> Len(frames), order |-> count + 1, runs |-> @.runs]]
    /\ count' = count + 1

\* The body of a step resolves, and the inverse it produced is recorded if it
\* can be.  A yield always is an inverse; a step may have nothing to undo.
StepDone(c) ==
    LET e == <<c, chain[c].at + 1>>
    IN  /\ chain[c].pc = "body"
        /\ \/ /\ ~closed /\ frames # <<>>
              /\ Record(e)
              /\ chain' = Boundary(c, chain[c].at + 1)
           \/ /\ closed \/ frames = <<>>
              /\ eff' = [eff EXCEPT ![e].st = "lost"]
              /\ chain' = Pc(c, "failed", chain[c].at, IF closed THEN "closed" ELSE "no_frame")
              /\ UNCHANGED <<frames, count>>
           \/ /\ c \notin Generators
              /\ chain' = Boundary(c, chain[c].at + 1)
              /\ UNCHANGED <<frames, eff, count>>
        /\ UNCHANGED <<unwinding, closed, un, life>>

\* The body of a step throws; what the earlier steps recorded stays recorded.
StepThrows(c) ==
    /\ chain[c].pc = "body"
    /\ chain' = Pc(c, "failed", chain[c].at, "threw")
    /\ UNCHANGED <<frames, unwinding, closed, eff, un, life, count>>

\* init() or run() itself settles: by throwing, with nothing to execute, or
\* with a chain, which is executed.
MethodSettles(c) ==
    /\ chain[c].pc = "called"
    /\ chain' \in {Pc(c, "failed", 0, "threw"), Pc(c, "ok", 0, "none"), Boundary(c, 0)}
    /\ UNCHANGED <<frames, unwinding, closed, eff, un, life, count>>
-----------------------------------------------------------------------------
(* The lifecycle *)

OpenFrame == frames' = Append(frames, {})

\* The initialization loop reaches a created resource.
InitBegins(i) ==
    /\ life = "created" /\ chain[i] = Idle
    /\ OpenFrame
    /\ chain' = Pc(i, "called", 0, "none")
    /\ life' = "initing"
    /\ UNCHANGED <<unwinding, closed, eff, un, count>>

\* A failed init() is recovered: its frame alone when it only deferred (a
\* reference that is not initialized yet), everything when it failed.
InitRecovers(i, deferred) ==
    /\ i \in Inits /\ chain[i].pc = "failed" /\ un[i].st = "off"
    /\ deferred => chain[i].why = "threw"
    /\ UnwindFrame(i, ~deferred, FALSE)
    /\ UNCHANGED <<closed, chain, life, count>>

\* The snapshot is published, and the resource is one the teardown knows.
InitPublished(i) ==
    /\ i \in Inits /\ chain[i].pc = "ok"
    /\ chain' = [chain EXCEPT ![i].pc = "settled"]
    /\ life' = "live"
    /\ UNCHANGED <<frames, unwinding, closed, eff, un, count>>

\* Publishing fails: the resource stays among the created ones and the loop
\* reaches it again.
InitUnpublished(i) ==
    /\ Unpublishable
    /\ i \in Inits /\ chain[i].pc = "ok"
    /\ chain' = [chain EXCEPT ![i].pc = "settled"]
    /\ life' = "created"
    /\ UNCHANGED <<frames, unwinding, closed, eff, un, count>>

InFlight(r) == chain[r].pc \notin {"idle", "settled"} /\ un[r].st # "ended"

\* A target is run.  Its callers run it again only when it has settled; the
\* resource is found as long as its teardown is not over.
RunBegins(r) ==
    /\ life = "live" \/ (Overlapping /\ life = "tearing")
    /\ chain[r] = Idle
    /\ \A q \in Runs : ~InFlight(q)
    /\ OpenFrame
    /\ chain' = Pc(r, "called", 0, "none")
    /\ UNCHANGED <<unwinding, closed, eff, un, life, count>>

\* A run() whose chain completed publishes what it learned.
RunSettles(r, published) ==
    /\ r \in Runs /\ chain[r].pc = "ok"
    /\ chain' = IF published THEN [chain EXCEPT ![r].pc = "settled"]
                ELSE Pc(r, "failed", chain[r].at, "threw")
    /\ UNCHANGED <<frames, unwinding, closed, eff, un, life, count>>

\* Wrong form: a failed run() takes the whole scope down.
RunRecovers_All(r) ==
    /\ r \in Runs /\ chain[r].pc = "failed" /\ un[r].st = "off"
    /\ UnwindFrame(r, TRUE, FALSE)
    /\ UNCHANGED <<closed, chain, life, count>>

\* A run() that did not complete unwinds the innermost frame.
RunRecovers(r) ==
    /\ r \in Runs /\ chain[r].pc = "failed" /\ un[r].st = "off"
    /\ UnwindFrame(r, FALSE, FALSE)
    /\ UNCHANGED <<closed, chain, life, count>>

\* An operation performs a chain; whoever still holds the resource may.
Perform(o) ==
    /\ o \notin Registers
    /\ chain[o] = Idle
    /\ chain' = Boundary(o, 0)
    /\ UNCHANGED <<frames, unwinding, closed, eff, un, life, count>>

\* register: an inverse for work done elsewhere, recorded at once.
Register(o) ==
    /\ o \in Registers
    /\ chain[o] = Idle
    /\ IF closed \/ frames = <<>>
       THEN /\ chain' = Pc(o, "failed", 0, IF closed THEN "closed" ELSE "no_frame")
            /\ UNCHANGED <<frames, eff, count>>
       ELSE /\ chain' = Pc(o, "ok", 1, "none")
            /\ Record(<<o, 1>>)
    /\ UNCHANGED <<unwinding, closed, un, life>>

\* The operation ends and disposes of what its chain recorded.
Dispose(o) ==
    /\ o \in Disposers /\ chain[o].pc = "ok" /\ un[o].st = "off"
    /\ RunInverses(o, {<<o, k>> : k \in 1..chain[o].at}, TRUE, unwinding, FALSE, FALSE, frames, eff)
    /\ UNCHANGED <<closed, chain, life, count>>

\* The resource's turn in the teardown of its context.
TeardownBegins ==
    /\ life = "live"
    /\ Overlapping \/ \A r \in Runs : ~InFlight(r)
    /\ life' = "tearing"
    /\ UnwindFrame(Teardown, TRUE, FALSE)
    /\ UNCHANGED <<closed, chain, count>>
-----------------------------------------------------------------------------
Settles ==
    \/ \E u \in Unwinders : \/ \E ok \in BOOLEAN : InverseSettles(u, ok)
                            \/ NextFrame(u)
                            \/ ScopeCloses(u)
                            \/ FrameUnwound(u)
    \/ \E c \in Chains : StepDone(c) \/ StepThrows(c) \/ MethodSettles(c)
    \/ \E i \in Inits : InitPublished(i) \/ \E d \in BOOLEAN : InitRecovers(i, d)
    \/ \E r \in Runs : RunRecovers(r) \/ \E p \in BOOLEAN : RunSettles(r, p)

Next ==
    \/ Settles
    \/ \E i \in Inits : InitBegins(i) \/ InitUnpublished(i)
    \/ \E r \in Runs : RunBegins(r)
    \/ \E o \in Ops : Perform(o) \/ Register(o) \/ Dispose(o)
    \/ TeardownBegins

Spec == Init /\ [][Next]_vars

\* What is pending settles: inverses and bodies are awaited without a bound,
\* so that they do settle is what their authors owe.
FairSpec == Spec /\ WF_vars(Settles)
-----------------------------------------------------------------------------
(* What must hold *)

\* An inverse is run at most once, however disposals, the recoveries and the
\* teardown meet at its registration.
InverseOnce == \A e \in Effects : eff[e].runs <= 1

\* Nothing is left recorded in a scope that has fully unwound: an inverse
\* still waiting there would be one nothing will ever run, or one that runs
\* after the teardown has gone on to what it depends on.
ClosedIsClean == closed => \A e \in Effects : eff[e].st # "held"

\* When a recovery or the teardown starts an inverse, nothing that was
\* recorded on an inner frame, or later on the same frame, is still waiting.
StartsBy(u, e) ==
    un'[u].st = "inverse" /\ un'[u].now = e /\ eff[e].st = "held" /\ eff'[e].st = "running"
InnermostFirst ==
    [][\A u \in Unwinders \ Ops, e \in Effects : StartsBy(u, e) =>
         \A f \in Effects : eff[f].st = "held" =>
             /\ eff[f].depth <= eff[e].depth
             /\ eff[f].depth = eff[e].depth => eff[f].order <= eff[e].order]_vars

\* What init() built stays while the resource is live: a run() that fails,
\* and operations that come and go, take down only what is theirs.
InitIntact ==
    life = "live" => \A i \in Inits : chain[i].pc = "settled" =>
        \A k \in 1..chain[i].at : eff[<<i, k>>].st \in {"held", "none"}

\* An init() is entered only when nothing an earlier attempt did is in place.
RetryIsClean ==
    \A i, j \in Inits : i # j /\ chain[j].pc \in {"called", "body"} =>
        \A k \in 1..Steps : eff[<<i, k>>].st \notin {"held", "running", "refused"}

\* The effects of init() are there as long as the resource lives on them, and gone
\* before another attempt is made (evaluation-context.ts).
InitIsWhole == InitIntact /\ RetryIsClean

\* As long as no operation disposed of its effect, no chain starts a step while
\* a recovery or the teardown is awaiting an inverse.
StopsWhileUnwinding ==
    [][\A c \in Chains :
         chain'[c].pc = "body" /\ chain'[c] # chain[c] /\ (\A o \in Ops : un[o].st = "off") =>
            \A u \in Unwinders \ Ops : un[u].st # "inverse"]_vars

\* Recoveries and the teardown undo in the reverse of the order things were done in,
\* and nothing is done meanwhile (effect-scope.ts).
OrderedUnwind == InnermostFirst /\ StopsWhileUnwinding

\* A teardown that began ends, whatever runs and operations do meanwhile.
TeardownEnds == (life = "tearing") ~> (life = "down")
-----------------------------------------------------------------------------
(* Statements of the comments that the code does not keep.  NoLostInverse has  *)
(* a run of its own; the README names the instances that refute the others.    *)

\* What a step allocated always has its inverse recorded.
NoLostInverse == \A e \in Effects : eff[e].st # "lost"

\* The flag is up only while somebody runs inverses.
FlagIsHonest == unwinding => \E u \in Unwinders : un[u].st = "inverse"

\* A chain is turned away because the resource is being torn down only when a
\* frame of it is being unwound.
RefusedOnlyAtTeardown ==
    [][\A c \in Chains : chain'[c].why = "closing" /\ chain[c].why # "closing" =>
         \E u \in Unwinders \ Ops : un[u].st \in {"inverse", "between"}]_vars
=============================================================================
