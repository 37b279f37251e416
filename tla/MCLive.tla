-------------------------------- MODULE MCLive --------------------------------
(***************************************************************************)
(* What must eventually happen, checked for three components that share no *)
(* state: the queue worker, the scope of one resource, and `telo run`.  A  *)
(* behaviour picks one of them at the start; only that one moves, under    *)
(* its own fairness.                                                       *)
(***************************************************************************)
EXTENDS QueueDelivery, KernelRun, TLC

VARIABLES
  component,                                                     \* the one that moves
  frames, unwinding, closed, eff, chain, un, life, count         \* of EffectScope

scopeVars == <<frames, unwinding, closed, eff, chain, un, life, count>>

\* One init(), one run() still under way at the teardown, one registration.
Scope == INSTANCE EffectScope WITH
  Inits <- {"i1"}, Runs <- {"r1"}, Ops <- {"o1"}, Generators <- {"r1"}, Registers <- {"o1"},
  Disposers <- {"o1"}, Teardown <- "td", None <- "none", Steps <- 1,
  Overlapping <- TRUE, Unpublishable <- TRUE

LiveInit ==
  /\ component \in {"queue", "scope", "run"}
  /\ Init /\ Scope!Init /\ RunInit

QueueMoves ==
  /\ component = "queue" /\ Next
  /\ UNCHANGED <<component, scopeVars, runVars>>
ScopeMoves ==
  /\ component = "scope" /\ Scope!Next
  /\ UNCHANGED <<component, vars, runVars>>
RunMoves ==
  /\ component = "run" /\ RunNext
  /\ UNCHANGED <<component, vars, scopeVars>>

\* Fairness, the fairness of Scope!FairSpec and RunFairness, of the one that moves.
FairQueue ==
  /\ WF_vars(component = "queue" /\ Tick)
  /\ \A i \in Ids : WF_vars(component = "queue" /\ Visible(i))
  /\ \A w \in Workers : WF_vars(component = "queue" /\ WorkerStep(w))
  /\ \A w \in Workers :
       WF_vars(component = "queue" /\ \E f \in flights : f.w = w /\ FlightStep(f))
FairScope == WF_scopeVars(component = "scope" /\ Scope!Settles)
FairRun ==
  /\ WF_runVars(component = "run" /\ KernelStep)
  /\ WF_runVars(component = "run" /\ TargetSettles)
  /\ WF_runVars(component = "run" /\ SessionStep)
  /\ \A f \in Files : WF_runVars(component = "run" /\ ReportChange(f))

LiveSpec ==
  /\ LiveInit
  /\ [][QueueMoves \/ ScopeMoves \/ RunMoves]_<<component, vars, scopeVars, runVars>>
  /\ FairQueue /\ FairScope /\ FairRun

\* A teardown that began ends, whatever runs and operations do meanwhile
\* (evaluation-context.ts unwindEach).
TeardownEnds == Scope!TeardownEnds
===============================================================================
