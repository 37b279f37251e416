---------------------------- MODULE MCEffectScope ----------------------------
(* Small instances of EffectScope: attempts at init() i1 and i2, one call of *)
(* run(), two operations, and the teardown td.                              *)
EXTENDS EffectScope, TLC

CONSTANTS i1, i2, r1, o1, o2, td, none

\* The attempts at init() differ in nothing but their names.
InitSymmetry == Permutations(Inits)
=============================================================================
