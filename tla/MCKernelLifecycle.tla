-------------------------- MODULE MCKernelLifecycle --------------------------
(***************************************************************************)
(* The effects of one resource and the resources of one context, each in a *)
(* small instance.  They share no state: a behaviour picks one at the      *)
(* start and only that one moves.                                          *)
(***************************************************************************)
EXTENDS EffectScope, ContextLifecycle

CONSTANTS i1, i2, r1, o1, o2, td, none, a, b, c, s

VARIABLE component   \* the one that moves

\* The attempts at init() differ in nothing but their names.
InitSymmetry == Permutations(Inits)

\* c holds b, b holds a; c looks s up by name, and b is created once s is there.
Holds == [r \in Resources |-> CASE r = b -> {a} [] r = c -> {b} [] OTHER -> {}]
LooksUp == [r \in Resources |-> IF r = c THEN {s} ELSE {}]
CreatedAfter == [r \in Resources |-> IF r = b THEN {s} ELSE {}]

KernelInit ==
  /\ component \in {"effects", "resources"}
  /\ Init /\ LifeInit

EffectsMove ==
  /\ component = "effects" /\ Next
  /\ UNCHANGED <<component, lifeVars>>
ResourcesMove ==
  /\ component = "resources" /\ LifeNext
  /\ UNCHANGED <<component, vars>>

KernelSpec ==
  KernelInit /\ [][EffectsMove \/ ResourcesMove]_<<component, vars, lifeVars>>
==============================================================================
