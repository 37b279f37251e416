--------------------------- MODULE DurableHistory ---------------------------
(***************************************************************************)
(* What durable execution promises its callers, with no executions, claims *)
(* or processes in sight: a run has ONE history.  Its inputs are pinned    *)
(* before its first step, a step is recorded once and after the steps      *)
(* before it, what a step decided is pinned while that step is the one to  *)
(* come, and a result is the whole history as it stands.  Nothing recorded *)
(* is ever rewritten; a result can be withdrawn, the history cannot.       *)
(*                                                                         *)
(* DurableLocal implements this module (DurableLocal!History).             *)
(***************************************************************************)
EXTENDS Naturals

CONSTANTS
  Runs,   \* run ids
  N,      \* number of steps of the body
  Value,  \* what a step or a decision can be
  None    \* not recorded

Pins == {"token", "at"}

VARIABLES
  inputs,     \* inputs[r]: what the body was given
  steps,      \* steps[r][k]: the outcome of step k
  pins,       \* pins[r][k][d]: what step k decided
  overrides,  \* overrides[r]: what a Resume asked for
  result      \* result[r]: the outcome of every step, once the run has completed

hvars == <<inputs, steps, pins, overrides, result>>

HistoryInit ==
  /\ inputs = [r \in Runs |-> None]
  /\ steps = [r \in Runs |-> [k \in 1..N |-> None]]
  /\ pins = [r \in Runs |-> [k \in 1..N |-> [d \in Pins |-> None]]]
  /\ overrides = [r \in Runs |-> None]
  /\ result = [r \in Runs |-> None]

\* Step k is the one to come: the inputs and every step before it are recorded.
Frontier(r, k) ==
  /\ inputs[r] # None
  /\ \A j \in 1..(k - 1) : steps[r][j] # None
  /\ steps[r][k] = None

Begin(r) ==
  /\ inputs[r] = None
  /\ \E v \in Value : inputs' = [inputs EXCEPT ![r] = v]
  /\ UNCHANGED <<steps, pins, overrides, result>>

Decide(r, k, d) ==
  /\ pins[r][k][d] = None
  /\ Frontier(r, k)
  /\ \E v \in Value : pins' = [pins EXCEPT ![r][k][d] = v]
  /\ UNCHANGED <<inputs, steps, overrides, result>>

Record(r, k) ==
  /\ Frontier(r, k)
  /\ \E v \in Value : steps' = [steps EXCEPT ![r][k] = v]
  /\ UNCHANGED <<inputs, pins, overrides, result>>

Override(r) ==
  /\ overrides[r] = None
  /\ \E v \in Value : overrides' = [overrides EXCEPT ![r] = v]
  /\ UNCHANGED <<inputs, steps, pins, result>>

\* The run completes with its history for a result ...
Conclude(r) ==
  /\ \A k \in 1..N : steps[r][k] # None
  /\ result' = [result EXCEPT ![r] = steps[r]]
  /\ UNCHANGED <<inputs, steps, pins, overrides>>

\* ... or ends without one: it failed or was cancelled.
Withdraw(r) ==
  /\ result' = [result EXCEPT ![r] = None]
  /\ UNCHANGED <<inputs, steps, pins, overrides>>

HistoryNext ==
  \E r \in Runs :
    \/ Begin(r) \/ Override(r) \/ Conclude(r) \/ Withdraw(r)
    \/ \E k \in 1..N : Record(r, k) \/ \E d \in Pins : Decide(r, k, d)

HistorySpec == HistoryInit /\ [][HistoryNext]_hvars
=============================================================================
