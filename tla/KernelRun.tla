------------------------------ MODULE KernelRun ------------------------------
(***************************************************************************)
(* `telo run`: Kernel.start() (boot, run the targets, wait until nobody    *)
(* holds the kernel, tear down), and the session around it, which in watch *)
(* mode replaces the kernel whenever a file it was built from changes.     *)
(*                                                                         *)
(* A step is the code between two awaits.  A stop (SIGINT, SIGTERM) and a  *)
(* reload both cancel the boot run and force the idle wait open.           *)
(***************************************************************************)
EXTENDS Naturals, FiniteSets

CONSTANTS
  TargetCount,  \* how many targets the application has
  Services,     \* the targets whose run() leaves the kernel held
  Inspect,      \* --inspect: the session holds the kernel, unless it watches
  Watch,        \* --watch
  MaxEdits      \* bound on edits

\* The entry is watched from the start, an imported file once a load named it.
Files == {"entry", "imported"}

ASSUME RunConstants ==
  /\ TargetCount \in Nat /\ MaxEdits \in Nat
  /\ Services \subseteq 1..TargetCount
  /\ Inspect \in BOOLEAN /\ Watch \in BOOLEAN

VARIABLES
  session,    \* where the session's cycle is
  kernel,     \* the current kernel
  gate,       \* the cycle's `changed`: "none", "open" or "settled"
  memo,       \* pendingChange, stopping, and whether every file is watched
  debounce,   \* the files whose change is about to be reported
  noticed,    \* files edited under a watch since the kernel read them
  missed,     \* history: this kernel's cancellation came too late for a target to refuse
  edits       \* edits so far

runVars == <<session, kernel, gate, memo, debounce, noticed, missed, edits>>

NoKernel == [phase |-> "down", at |-> 1, inFlight |-> FALSE, holds |-> 0, cancelled |-> FALSE]

RunInit ==
  /\ session = "top"
  /\ kernel = NoKernel
  /\ gate = "none"
  /\ memo = [pending |-> FALSE, stopping |-> FALSE, synced |-> FALSE]
  /\ debounce = {} /\ noticed = {}
  /\ missed = FALSE
  /\ edits = 0

-----------------------------------------------------------------------------
(* Kernel.start. *)

Phase(phase) == kernel' = [kernel EXCEPT !.phase = phase]
OnlyKernel == UNCHANGED <<session, gate, memo, debounce, noticed, missed, edits>>

\* boot(): initialize every resource, or fail.
Boot ==
  /\ kernel.phase = "boot"
  /\ \E phase \in {"targets", "teardown"} : Phase(phase)
  /\ OnlyKernel

\* Mutant: a target is dispatched whether or not the boot run was cancelled.
Dispatch_Ungated ==
  /\ kernel.phase = "targets" /\ ~kernel.inFlight /\ kernel.at <= TargetCount
  /\ kernel' = [kernel EXCEPT !.inFlight = TRUE]
  /\ OnlyKernel

\* The dispatch gate refuses a target once the boot run was cancelled.
Dispatch ==
  /\ kernel.phase = "targets" /\ ~kernel.inFlight /\ kernel.at <= TargetCount
  /\ kernel' = IF kernel.cancelled THEN [kernel EXCEPT !.phase = "teardown"]
               ELSE [kernel EXCEPT !.inFlight = TRUE]
  /\ OnlyKernel

\* A target's run() returns: a service holds the kernel from here.
TargetReturns ==
  /\ kernel.inFlight
  /\ kernel' = [kernel EXCEPT !.inFlight = FALSE, !.at = @ + 1,
                              !.holds = IF kernel.at \in Services THEN @ + 1 ELSE @]
  /\ OnlyKernel

\* It fails or honours its cancellation: its frame is unwound, start() is over.
TargetThrows ==
  /\ kernel.inFlight
  /\ kernel' = [kernel EXCEPT !.inFlight = FALSE, !.phase = "teardown"]
  /\ OnlyKernel

\* runTargets announces that every target was started.
Started ==
  /\ kernel.phase = "targets" /\ ~kernel.inFlight /\ kernel.at > TargetCount
  /\ Phase("started")
  /\ OnlyKernel

WaitForIdle ==
  /\ kernel.phase = "started"
  /\ Phase(IF kernel.holds = 0 THEN "teardown" ELSE "waiting")
  /\ OnlyKernel

\* The last hold released resolves the wait.
ReleaseHolder ==
  /\ kernel.holds > (IF Inspect /\ ~Watch THEN 1 ELSE 0)
  /\ kernel.phase \in {"targets", "started", "waiting"}
  /\ kernel' = [kernel EXCEPT !.holds = @ - 1,
       !.phase = IF kernel.holds = 1 /\ @ = "waiting" THEN "teardown" ELSE @]
  /\ OnlyKernel

TearsDown ==
  /\ kernel.phase = "teardown"
  /\ kernel' = [kernel EXCEPT !.phase = "down", !.holds = 0]
  /\ OnlyKernel

\* Somebody is still to be refused at the dispatch gate.
Gated ==
  \/ kernel.phase \in {"load", "boot"} /\ TargetCount > 0
  \/ kernel.phase = "targets" /\ kernel.at < TargetCount
  \/ kernel.phase = "targets" /\ kernel.at = TargetCount /\ ~kernel.inFlight

\* kernel.cancel(), then forceIdle(): a wait that has not begun is not affected.
CancelAndForce ==
  /\ kernel' = [kernel EXCEPT !.cancelled = TRUE,
                              !.phase = IF @ = "waiting" THEN "teardown" ELSE @]
  /\ missed' = \/ missed
               \/ /\ ~kernel.cancelled /\ ~Gated
                  /\ kernel.phase \in {"load", "boot", "targets", "started"}

-----------------------------------------------------------------------------
(* The session. *)

\* notifyChange: settle the gate of this cycle, or remember for the next one.
Notify(m) ==
  IF gate = "open" THEN gate' = "settled" /\ memo' = m
  ELSE memo' = [m EXCEPT !.pending = TRUE] /\ UNCHANGED gate

\* The head of the cycle: a gate of its own, settled at once by a pending change.
NextCycle ==
  /\ session = "top" /\ ~memo.stopping
  /\ session' = "build"
  /\ gate' = IF ~Watch THEN "none" ELSE IF memo.pending THEN "settled" ELSE "open"
  /\ memo' = [memo EXCEPT !.pending = FALSE]
  /\ UNCHANGED <<kernel, debounce, noticed, missed, edits>>

EndSession ==
  /\ session = "top" /\ memo.stopping
  /\ session' = "exited"
  /\ UNCHANGED <<kernel, gate, memo, debounce, noticed, missed, edits>>

\* A packaged executable is read and, being rewritten, does not unpack.
ResolveFails ==
  /\ session = "build" /\ Watch
  /\ session' = "await"
  /\ noticed' = {}
  /\ UNCHANGED <<kernel, gate, memo, debounce, missed, edits>>

\* buildKernel; load() reads the files from here on.
Build ==
  /\ session = "build"
  /\ session' = "load"
  /\ kernel' = [NoKernel EXCEPT !.phase = "load"]
  /\ noticed' = {} /\ missed' = FALSE
  /\ UNCHANGED <<gate, memo, debounce, edits>>

LoadFails ==
  /\ session = "load"
  /\ session' = IF Watch THEN "await" ELSE "exited"
  /\ Phase("down")
  /\ UNCHANGED <<gate, memo, debounce, noticed, missed, edits>>

\* load() answered --help, or whoever was asked for an input interrupted it.
LoadEnds ==
  /\ session = "load"
  /\ session' = "exited"
  /\ Phase("down")
  /\ memo' = [memo EXCEPT !.stopping = Watch \/ @]
  /\ debounce' = {}
  /\ UNCHANGED <<gate, noticed, missed, edits>>

\* Mutant: the gate is opened when start() is called, not at the head of the cycle.
LoadOk_FreshGate ==
  /\ session = "load"
  /\ session' = "running"
  /\ kernel' = [kernel EXCEPT !.phase = "boot", !.holds = IF Inspect /\ ~Watch THEN 1 ELSE 0]
  /\ memo' = [memo EXCEPT !.synced = TRUE]
  /\ gate' = IF Watch THEN "open" ELSE "none"
  /\ UNCHANGED <<debounce, noticed, missed, edits>>

\* Every file of the graph is watched, and start() is called.
LoadOk ==
  /\ session = "load"
  /\ session' = "running"
  /\ kernel' = [kernel EXCEPT !.phase = "boot", !.holds = IF Inspect /\ ~Watch THEN 1 ELSE 0]
  /\ memo' = [memo EXCEPT !.synced = TRUE]
  /\ UNCHANGED <<gate, debounce, noticed, missed, edits>>

\* Mutant: an application that ends takes the watch session with it.
Finished_Exits ==
  /\ session = "running" /\ kernel.phase = "down"
  /\ session' = "exited"
  /\ UNCHANGED <<kernel, gate, memo, debounce, noticed, missed, edits>>

\* The kernel ended by itself.
Finished ==
  /\ session = "running" /\ kernel.phase = "down"
  /\ session' = IF Watch THEN "await" ELSE "exited"
  /\ UNCHANGED <<kernel, gate, memo, debounce, noticed, missed, edits>>

\* A change ends this generation.
Reload ==
  /\ session = "running" /\ gate = "settled" /\ kernel.phase # "down"
  /\ session' = "reloading"
  /\ CancelAndForce
  /\ UNCHANGED <<gate, memo, debounce, noticed, edits>>

Reloaded ==
  /\ session = "reloading" /\ kernel.phase = "down"
  /\ session' = "top"
  /\ UNCHANGED <<kernel, gate, memo, debounce, noticed, missed, edits>>

Changed ==
  /\ session = "await" /\ gate = "settled"
  /\ session' = "top"
  /\ UNCHANGED <<kernel, gate, memo, debounce, noticed, missed, edits>>

-----------------------------------------------------------------------------
(* The outside. *)

\* A file is saved.  Its watcher reports it after a while, once for several saves.
Edit(f) ==
  /\ Watch /\ edits < MaxEdits
  /\ edits' = edits + 1
  /\ IF (f = "entry" \/ memo.synced) /\ ~memo.stopping
     THEN debounce' = debounce \cup {f} /\ noticed' = noticed \cup {f}
     ELSE UNCHANGED <<debounce, noticed>>
  /\ UNCHANGED <<session, kernel, gate, memo, missed>>

ReportChange(f) ==
  /\ f \in debounce
  /\ debounce' = debounce \ {f}
  /\ Notify(memo)
  /\ UNCHANGED <<session, kernel, noticed, missed, edits>>

\* SIGINT or SIGTERM, once: shutdown(), or requestStop() in watch mode.
Stop ==
  /\ ~memo.stopping
  /\ session \in {"load", "running"} \/ (Watch /\ session # "exited")
  /\ debounce' = {}
  /\ CancelAndForce
  /\ IF Watch THEN Notify([memo EXCEPT !.stopping = TRUE])
     ELSE memo' = [memo EXCEPT !.stopping = TRUE] /\ UNCHANGED gate
  /\ UNCHANGED <<session, noticed, edits>>

\* What nobody outside has to do.  A target that was cancelled settles one way or
\* another; left alone it may run for good.
TargetSettles == kernel.cancelled /\ (TargetReturns \/ TargetThrows)
KernelStep == Boot \/ Dispatch \/ Started \/ WaitForIdle \/ TearsDown
SessionStep == \/ NextCycle \/ EndSession \/ ResolveFails \/ Build
               \/ LoadFails \/ LoadEnds \/ LoadOk \/ Finished \/ Reload \/ Reloaded \/ Changed

RunNext ==
  \/ KernelStep \/ TargetReturns \/ TargetThrows \/ ReleaseHolder
  \/ SessionStep
  \/ \E f \in Files : Edit(f) \/ ReportChange(f)
  \/ Stop

RunFairness ==
  /\ WF_runVars(KernelStep) /\ WF_runVars(TargetSettles) /\ WF_runVars(SessionStep)
  /\ \A f \in Files : WF_runVars(ReportChange(f))

RunSpec == RunInit /\ [][RunNext]_runVars /\ RunFairness

-----------------------------------------------------------------------------
(* Properties. *)

RunTypeOK ==
  /\ session \in {"top", "build", "load", "running", "reloading", "await", "exited"}
  /\ kernel \in [phase : {"load", "boot", "targets", "started", "waiting", "teardown", "down"},
                 at : 1..(TargetCount + 1), inFlight : BOOLEAN,
                 holds : 0..(TargetCount + 1), cancelled : BOOLEAN]
  /\ gate \in {"none", "open", "settled"}
  /\ memo \in [pending : BOOLEAN, stopping : BOOLEAN, synced : BOOLEAN]
  /\ debounce \subseteq Files /\ noticed \subseteq Files
  /\ missed \in BOOLEAN /\ edits \in 0..MaxEdits

\* A cancellation that some target is still to be refused by, or that finds the kernel
\* waiting, ends in a teardown (run.ts shutdown, "unblock the idle wait for graceful
\* exit").
CancelEnds == kernel.cancelled /\ ~missed ~> kernel.phase = "down" \/ missed

\* An edit is picked up by a new generation, unless the session is stopped or a
\* cancellation was missed.
EditReloads == noticed # {} ~> noticed = {} \/ memo.stopping \/ missed

-----------------------------------------------------------------------------
(* Statements of the source that the code does not keep. *)

\* kernel.ts forceIdle, "unblock graceful exit so start()'s waitForIdle returns and its
\* finally clause runs teardown()": a signal is followed by the teardown.
GracefulExit == memo.stopping ~> kernel.phase = "down"
==============================================================================
