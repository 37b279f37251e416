--------------------------- MODULE MCDurableLocal ---------------------------
(***************************************************************************)
(* Instances of DurableLocal for TLC: the deployments and the bodies that  *)
(* the configurations choose from.                                         *)
(***************************************************************************)
EXTENDS DurableLocal, TLC

CONSTANTS s1, s2, w1, w2, c1, c2, hA, hB, kA, kB, kC

\* One start and one or two resumers, each in a process of its own.
Apart2      == (s1 :> hA) @@ (w1 :> hB)
Holders2    == (s1 :> kA) @@ (w1 :> kB)
Apart3      == (s1 :> hA) @@ (w1 :> hB) @@ (w2 :> hB)
Holders3    == (s1 :> kA) @@ (w1 :> kB) @@ (w2 :> kC)

\* Two workflow instances in one process and a resumer in another.
Starts2     == (s1 :> hA) @@ (s2 :> hA) @@ (w1 :> hB)
StartKeys2  == (s1 :> kA) @@ (s2 :> kC) @@ (w1 :> kB)

\* Starts alone: of two workflow instances, or of one, which share its holder.
StartsOnly  == (s1 :> hA) @@ (s2 :> hA)
OwnKeys     == (s1 :> kA) @@ (s2 :> kC)
SharedKey   == (s1 :> kA) @@ (s2 :> kA)

\* The bodies.
OneEffect   == <<"effect">>
OneTimed    == <<"awaitTimeout">>
OneSleep    == <<"sleep">>
EffectTimed == <<"effect", "awaitTimeout">>
SleepEffect == <<"sleep", "effect">>
AwaitEffect == <<"await", "effect">>
SleepAwait  == <<"sleep", "await">>
=============================================================================
