---------------------------- MODULE ScheduleRunner ----------------------------
(***************************************************************************)
(* Schedule.Cron and Schedule.Interval: arm a one-shot timer, tick, arm    *)
(* again.  run() takes a kernel hold and arms; the two inverses run in     *)
(* reverse: disarm and drain, then release the hold.  An expression with   *)
(* no further occurrence gives the hold back early.                        *)
(***************************************************************************)
EXTENDS Naturals

CONSTANTS MaxTicks   \* bound on the occurrences of the schedule

ASSUME ScheduleConstants == MaxTicks \in Nat

VARIABLES
  hold,      \* "none", "held" or "released": the kernel hold
  timer,     \* the one-shot timer is armed
  inFlight,  \* a tick is running
  stopped,   \* disarm() was called
  unwind,    \* how far the inverses of run() have come
  ticks      \* occurrences so far

scheduleVars == <<hold, timer, inFlight, stopped, unwind, ticks>>

ScheduleInit ==
  /\ hold = "none"
  /\ timer = FALSE /\ inFlight = FALSE /\ stopped = FALSE
  /\ unwind = "none"
  /\ ticks = 0

\* arm(): nothing once stopped; no further occurrence releases the hold.
Arm ==
  IF stopped THEN UNCHANGED <<timer, hold>>
  ELSE \/ timer' = TRUE /\ UNCHANGED hold
       \/ timer' = FALSE /\ hold' = "released"

\* run(): the hold first, then the first arming.
TakeHold ==
  /\ hold = "none" /\ unwind = "none"
  /\ hold' = "held"
  /\ unwind' = "arming"
  /\ UNCHANGED <<timer, inFlight, stopped, ticks>>

FirstArm ==
  /\ unwind = "arming"
  /\ Arm
  /\ unwind' = "armed"
  /\ UNCHANGED <<inFlight, stopped, ticks>>

\* The timer fires: a tick, whatever its gate says and however it ends.
Fire ==
  /\ timer /\ ticks < MaxTicks
  /\ timer' = FALSE
  /\ inFlight' = TRUE
  /\ ticks' = ticks + 1
  /\ UNCHANGED <<hold, stopped, unwind>>

\* The tick settles, and only then is the next one armed.
TickSettles ==
  /\ inFlight
  /\ inFlight' = FALSE
  /\ Arm
  /\ UNCHANGED <<stopped, unwind, ticks>>

\* Teardown unwinds the run frame: disarm() ...
Disarm ==
  /\ unwind = "armed"
  /\ stopped' = TRUE
  /\ timer' = FALSE
  /\ unwind' = "draining"
  /\ UNCHANGED <<hold, inFlight, ticks>>

\* Mutant: an occurrence in flight is abandoned.
Drained_Abandoned ==
  /\ unwind = "draining"
  /\ unwind' = "drained"
  /\ UNCHANGED <<hold, timer, inFlight, stopped, ticks>>

\* ... which waits for the tick in flight ...
Drained ==
  /\ unwind = "draining"
  /\ ~inFlight
  /\ unwind' = "drained"
  /\ UNCHANGED <<hold, timer, inFlight, stopped, ticks>>

\* ... then the hold, which ignores a second release.
ReleaseHold ==
  /\ unwind = "drained"
  /\ hold' = "released"
  /\ unwind' = "done"
  /\ UNCHANGED <<timer, inFlight, stopped, ticks>>

ScheduleNext ==
  TakeHold \/ FirstArm \/ Fire \/ TickSettles \/ Disarm \/ Drained \/ ReleaseHold

ScheduleSpec == ScheduleInit /\ [][ScheduleNext]_scheduleVars

-----------------------------------------------------------------------------
(* Properties. *)

\* The application may stop as soon as nobody holds it: a schedule works, or is about
\* to, only while it holds (schedule-runner.ts run, "drain first, then release").
WorksUnderHold == timer \/ inFlight => hold = "held"
==============================================================================
