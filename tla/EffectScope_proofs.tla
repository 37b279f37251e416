------------------------- MODULE EffectScope_proofs -------------------------
(***************************************************************************)
(* Theorems about EffectScope, for any number of attempts, runs and        *)
(* operations: an inverse runs at most once; and, when no run() overlaps   *)
(* the teardown, a closed scope holds nothing, recoveries and the teardown *)
(* undo in reverse order, and what init() built stays while it is needed.  *)
(***************************************************************************)
EXTENDS EffectScope, TLAPS

\* A step under way is one of the chain's steps.
BodyOK == \A c \in Chains : /\ chain[c].pc = "body" => chain[c].at < Steps
                            /\ chain[c].pc \in {"idle", "called"} => chain[c].at = 0

\* What a chain has not reached yet was never recorded.
FreshOK ==
    \A c \in Chains, k \in 1..Steps : k > chain[c].at =>
        eff[<<c, k>>].st \in {"none", "lost"} /\ eff[<<c, k>>].runs = 0

\* An inverse has run only if it left the state in which it is waiting.
OnceOK ==
    \A e \in Effects : /\ eff[e].runs \in {0, 1}
                       /\ eff[e].st = "held" => eff[e].runs = 0

\* Whoever awaits an inverse is the only one to, and it is that inverse.
NowOK ==
    \A u \in Unwinders : un[u].st = "inverse" =>
        /\ un[u].now \in Effects
        /\ eff[un[u].now].st = "running"
        /\ \A v \in Unwinders : un[v].st = "inverse" /\ un[v].now = un[u].now => u = v

Steady == BodyOK /\ FreshOK /\ OnceOK /\ NowOK

OnceInv == TypeOK /\ Steady

\* Who is unwinding frames.
Active(u) == un[u].st \in {"inverse", "between"}

\* An attempt at init() is under way.
Busy(i) == chain[i].pc \in {"called", "body", "ok"} \/ (chain[i].pc = "failed" /\ un[i].st # "ended")

\* One attempt at a time, one run at a time, and each in its phase of the life.
LifeOK ==
    /\ \A i \in Inits : /\ Active(i) => chain[i].pc = "failed"
                        /\ Busy(i) => life = "initing"
                        /\ \A j \in Inits : Busy(i) /\ Busy(j) => i = j
    /\ \A r \in Runs : /\ Active(r) => chain[r].pc = "failed" /\ ~un[r].all
                       /\ InFlight(r) => life = "live"
                       /\ \A q \in Runs : InFlight(r) /\ InFlight(q) => r = q
    /\ \A o \in Ops : Active(o) => ~un[o].all
    /\ Active(Teardown) => life = "tearing"

\* What is waiting is on an open frame, or on the list of whoever popped it.
HeldOK ==
    \A e \in Effects : eff[e].st = "held" =>
        \/ \E i \in 1..Len(frames) : e \in frames[i]
        \/ \E u \in Unwinders \ Ops : un[u].st = "inverse" /\ e \in un[u].todo

CleanInv == OnceInv /\ LifeOK /\ HeldOK /\ ClosedIsClean
-----------------------------------------------------------------------------
(* What RunInverses does, whoever calls it. *)

EffType == [Effects -> [st: EffectStates, depth: Nat, order: Nat, runs: Nat]]
UnRecord == [st: {"off", "inverse", "between", "ended"}, was: BOOLEAN, all: BOOLEAN,
             refused: BOOLEAN, now: Effects \cup {None}, todo: SUBSET Effects]

\* The effects as the caller hands them over: at most the inverse it awaited
\* has settled.
Agrees(u, state) ==
    /\ state \in EffType
    /\ \A e \in Effects :
          /\ state[e].runs = eff[e].runs
          /\ state[e].st # eff[e].st => eff[e].st = "running" /\ state[e].st \in {"undone", "refused"}
    /\ \A v \in Unwinders \ {u} : un[v].st = "inverse" => state[un[v].now].st = "running"

\* What a step that runs inverses changes of the state, and its types.
RunShape(u, all) ==
    /\ frames' \in Seq(SUBSET Effects) /\ unwinding' \in BOOLEAN
    /\ eff' \in EffType /\ un' \in [Unwinders -> UnRecord]
    /\ un' = [un EXCEPT ![u] = un'[u]]
    /\ un'[u].st \in {"inverse", "between"} /\ un'[u].all = all

\* RunInverses keeps the types.
LEMMA RunInversesType ==
    ASSUME TypeOK, NEW u \in Unwinders, NEW list \in SUBSET Effects,
           NEW flag \in BOOLEAN, NEW was \in BOOLEAN, NEW all \in BOOLEAN, NEW refused \in BOOLEAN,
           NEW stack \in Seq(SUBSET Effects), NEW state \in EffType,
           RunInverses(u, list, flag, was, all, refused, stack, state)
    PROVE  RunShape(u, all)
<1> DEFINE left == Undisposed(list, state)
<1>0. left \subseteq Effects /\ un \in [Unwinders -> UnRecord]
  BY DEF Undisposed, TypeOK, UnRecord
<1>1. ASSUME NEW e \in left,
             eff' = [state EXCEPT ![e] = [st |-> "running", depth |-> @.depth,
                                              order |-> @.order, runs |-> @.runs + 1]],
             frames' = [i \in 1..Len(stack) |-> stack[i] \ {e}],
             unwinding' = flag,
             un' = [un EXCEPT ![u] = [st |-> "inverse", was |-> was, all |-> all,
                                      refused |-> refused, now |-> e, todo |-> left \ {e}]]
      PROVE  /\ frames' \in Seq(SUBSET Effects) /\ unwinding' \in BOOLEAN
             /\ eff' \in EffType /\ un' \in [Unwinders -> UnRecord]
             /\ un' = [un EXCEPT ![u] = un'[u]]
             /\ un'[u].st \in {"inverse", "between"} /\ un'[u].all = all
  <2>1. frames' \in Seq(SUBSET Effects)
    <3>1. Len(stack) \in Nat /\ \A i \in 1..Len(stack) : stack[i] \ {e} \in SUBSET Effects
      OBVIOUS
    <3> QED BY <3>1, <1>1
  <2>2. eff' \in EffType
    BY <1>0, <1>1 DEF EffType, EffectStates
  <2>3. [st |-> "inverse", was |-> was, all |-> all,
         refused |-> refused, now |-> e, todo |-> left \ {e}] \in UnRecord
    BY <1>0, <1>1 DEF UnRecord
  <2> QED BY <1>0, <1>1, <2>1, <2>2, <2>3
<1>2. ASSUME eff' = state, frames' = stack, unwinding' = was,
             un' = [un EXCEPT ![u] = [st |-> "between", was |-> was, all |-> all,
                                      refused |-> refused, now |-> None, todo |-> {}]]
      PROVE  /\ frames' \in Seq(SUBSET Effects) /\ unwinding' \in BOOLEAN
             /\ eff' \in EffType /\ un' \in [Unwinders -> UnRecord]
             /\ un' = [un EXCEPT ![u] = un'[u]]
             /\ un'[u].st \in {"inverse", "between"} /\ un'[u].all = all
  <2>1. [st |-> "between", was |-> was, all |-> all,
         refused |-> refused, now |-> None, todo |-> {}] \in UnRecord
    BY DEF UnRecord
  <2> QED BY <1>0, <1>2, <2>1
<1> QED BY <1>1, <1>2 DEF RunInverses, RunShape

\* RunInverses keeps that an inverse runs once.
LEMMA RunInversesOnce ==
    ASSUME OnceInv, NEW u \in Unwinders, NEW list \in SUBSET Effects,
           NEW flag \in BOOLEAN, NEW was \in BOOLEAN, NEW all \in BOOLEAN, NEW refused \in BOOLEAN,
           NEW stack \in Seq(SUBSET Effects), NEW state, Agrees(u, state),
           RunInverses(u, list, flag, was, all, refused, stack, state), chain' = chain
    PROVE  Steady'
<1> DEFINE left == Undisposed(list, state)
<1> USE DEF OnceInv, Steady, Steady
<1>0. un \in [Unwinders -> UnRecord] /\ eff \in EffType /\ state \in EffType
  BY DEF TypeOK, UnRecord, EffType, Agrees
<1>b. BodyOK'
  BY DEF BodyOK
<1>1. ASSUME NEW e \in left,
             eff' = [state EXCEPT ![e] = [st |-> "running", depth |-> @.depth,
                                          order |-> @.order, runs |-> @.runs + 1]],
             un' = [un EXCEPT ![u] = [st |-> "inverse", was |-> was, all |-> all,
                                      refused |-> refused, now |-> e, todo |-> left \ {e}]]
      PROVE  FreshOK' /\ OnceOK' /\ NowOK'
  <2>1. e \in Effects /\ state[e].st = "held" /\ eff[e].st = "held" /\ eff[e].runs = 0 /\ state[e].runs = 0
    BY <1>0, <1>1 DEF Undisposed, Agrees, OnceOK
  <2>2. eff'[e].st = "running" /\ eff'[e].runs = 1
    BY <1>0, <1>1, <2>1 DEF EffType
  <2>3. \A f \in Effects \ {e} : eff'[f] = state[f]
    BY <1>0, <1>1, <2>1 DEF EffType
  <2>4. FreshOK'
    <3>1. SUFFICES ASSUME NEW c \in Chains, NEW k \in 1..Steps, k > chain[c].at
                   PROVE  eff'[<<c, k>>].st \in {"none", "lost"} /\ eff'[<<c, k>>].runs = 0
      BY DEF FreshOK
    <3>2. <<c, k>> \in Effects /\ eff[<<c, k>>].st \in {"none", "lost"} /\ eff[<<c, k>>].runs = 0
      BY <3>1 DEF FreshOK, Effects
    <3>3. <<c, k>> # e
      BY <3>2, <2>1
    <3>4. eff'[<<c, k>>] = state[<<c, k>>]
      BY <3>2, <3>3, <2>3
    <3> QED BY <3>2, <3>4 DEF Agrees
  <2>5. OnceOK'
    <3>1. SUFFICES ASSUME NEW f \in Effects
                   PROVE  eff'[f].runs \in {0, 1} /\ (eff'[f].st = "held" => eff'[f].runs = 0)
      BY DEF OnceOK
    <3>2. CASE f = e
      BY <3>2, <2>2
    <3>3. CASE f # e
      <4>1. eff'[f] = state[f]
        BY <3>3, <2>3
      <4>2. state[f].runs = eff[f].runs /\ (state[f].st = "held" => eff[f].st = "held")
        BY DEF Agrees
      <4> QED BY <4>1, <4>2 DEF OnceOK
    <3> QED BY <3>2, <3>3
  <2>6. NowOK'
    <3>1. un'[u].st = "inverse" /\ un'[u].now = e /\ \A v \in Unwinders \ {u} : un'[v] = un[v]
      BY <1>0, <1>1
    <3>2. ASSUME NEW v \in Unwinders \ {u}, un[v].st = "inverse"
          PROVE  un[v].now \in Effects /\ un[v].now # e /\ eff'[un[v].now].st = "running"
      <4>1. un[v].now \in Effects /\ state[un[v].now].st = "running"
        BY <3>2 DEF NowOK, Agrees
      <4> QED BY <4>1, <2>1, <2>3
    <3>3. ASSUME NEW v \in Unwinders, un'[v].st = "inverse"
          PROVE  /\ un'[v].now \in Effects /\ eff'[un'[v].now].st = "running"
                 /\ \A w \in Unwinders : un'[w].st = "inverse" /\ un'[w].now = un'[v].now => v = w
      <4>1. CASE v = u
        BY <4>1, <3>1, <3>2, <2>1, <2>2
      <4>2. CASE v # u
        <5>1. v \in Unwinders \ {u} /\ un'[v] = un[v] /\ un[v].st = "inverse"
          BY <4>2, <3>1, <3>3
        <5>2. un[v].now \in Effects /\ un[v].now # e /\ eff'[un[v].now].st = "running"
          BY <5>1, <3>2
        <5>3. \A w \in Unwinders : un[w].st = "inverse" /\ un[w].now = un[v].now => v = w
          BY <5>1 DEF NowOK
        <5> QED BY <5>1, <5>2, <5>3, <3>1
      <4> QED BY <4>1, <4>2
    <3> QED BY <3>3 DEF NowOK
  <2> QED BY <2>4, <2>5, <2>6
<1>2. ASSUME eff' = state,
             un' = [un EXCEPT ![u] = [st |-> "between", was |-> was, all |-> all,
                                      refused |-> refused, now |-> None, todo |-> {}]]
      PROVE  FreshOK' /\ OnceOK' /\ NowOK'
  <2>1. FreshOK'
    <3>1. SUFFICES ASSUME NEW c \in Chains, NEW k \in 1..Steps, k > chain[c].at
                   PROVE  state[<<c, k>>].st \in {"none", "lost"} /\ state[<<c, k>>].runs = 0
      BY <1>2 DEF FreshOK
    <3>2. <<c, k>> \in Effects /\ eff[<<c, k>>].st \in {"none", "lost"} /\ eff[<<c, k>>].runs = 0
      BY <3>1 DEF FreshOK, Effects
    <3> QED BY <3>2 DEF Agrees
  <2>2. OnceOK'
    BY <1>2 DEF OnceOK, Agrees
  <2>3. NowOK'
    <3>1. un'[u].st = "between" /\ \A v \in Unwinders \ {u} : un'[v] = un[v]
      BY <1>0, <1>2
    <3>2. ASSUME NEW v \in Unwinders, un'[v].st = "inverse"
          PROVE  /\ un'[v].now \in Effects /\ eff'[un'[v].now].st = "running"
                 /\ \A w \in Unwinders : un'[w].st = "inverse" /\ un'[w].now = un'[v].now => v = w
      <4>1. v \in Unwinders \ {u} /\ un'[v] = un[v] /\ un[v].st = "inverse"
        BY <3>1, <3>2
      <4>2. un[v].now \in Effects /\ state[un[v].now].st = "running"
        BY <4>1 DEF NowOK, Agrees
      <4>3. \A w \in Unwinders : un[w].st = "inverse" /\ un[w].now = un[v].now => v = w
        BY <4>1 DEF NowOK
      <4> QED BY <4>1, <4>2, <4>3, <3>1, <1>2
    <3> QED BY <3>2 DEF NowOK
  <2> QED BY <2>1, <2>2, <2>3
<1> QED BY <1>b, <1>1, <1>2 DEF RunInverses

\* The innermost frame is popped and its inverses run.
LEMMA UnwindFrameOnce ==
    ASSUME OnceInv, NEW u \in Unwinders, NEW all \in BOOLEAN, NEW refused \in BOOLEAN,
           UnwindFrame(u, all, refused), chain' = chain
    PROVE  RunShape(u, all) /\ Steady'
<1>1. Agrees(u, eff)
  BY DEF OnceInv, Steady, TypeOK, EffType, Agrees, NowOK
<1>2. unwinding \in BOOLEAN /\ eff \in EffType /\ frames \in Seq(SUBSET Effects) /\ TypeOK
  BY DEF OnceInv, Steady, TypeOK, EffType
<1>3. CASE /\ frames # <<>>
           /\ RunInverses(u, frames[Len(frames)], TRUE, unwinding, all, refused,
                          SubSeq(frames, 1, Len(frames) - 1), eff)
  <2>1. frames[Len(frames)] \in SUBSET Effects /\ SubSeq(frames, 1, Len(frames) - 1) \in Seq(SUBSET Effects)
    BY <1>2, <1>3
  <2> QED BY <1>1, <1>2, <1>3, <2>1, RunInversesType, RunInversesOnce, ZenonT(60)
<1>4. CASE RunInverses(u, {}, TRUE, unwinding, all, refused, <<>>, eff)
  <2>1. <<>> \in Seq(SUBSET Effects) /\ {} \in SUBSET Effects
    OBVIOUS
  <2> QED BY <1>1, <1>2, <1>4, <2>1, RunInversesType, RunInversesOnce, ZenonT(60)
<1> QED BY <1>3, <1>4 DEF UnwindFrame

\* An inverse settled: that is all that changed of the effects.
LEMMA InverseSettlesAgrees ==
    ASSUME OnceInv, NEW u \in Unwinders, NEW ok \in BOOLEAN, InverseSettles(u, ok)
    PROVE  Agrees(u, [eff EXCEPT ![un[u].now].st = IF ok THEN "undone" ELSE "refused"])
<1> DEFINE state == [eff EXCEPT ![un[u].now].st = IF ok THEN "undone" ELSE "refused"]
<1>0. eff \in EffType /\ un \in [Unwinders -> UnRecord] /\ un[u] \in UnRecord
  BY DEF OnceInv, TypeOK, EffType, UnRecord
<1>1. un[u].st = "inverse" /\ un[u].now \in Effects /\ eff[un[u].now].st = "running" /\ eff \in EffType
  BY <1>0 DEF InverseSettles, OnceInv, Steady, NowOK
<1>2. state \in EffType /\ state[un[u].now].runs = eff[un[u].now].runs
      /\ state[un[u].now].st \in {"undone", "refused"}
      /\ \A f \in Effects \ {un[u].now} : state[f] = eff[f]
  BY <1>1 DEF EffType, EffectStates
<1>3. \A v \in Unwinders \ {u} : un[v].st = "inverse" => state[un[v].now].st = "running"
  <2>1. SUFFICES ASSUME NEW v \in Unwinders \ {u}, un[v].st = "inverse"
                 PROVE  state[un[v].now].st = "running"
    OBVIOUS
  <2>2. un[v].now \in Effects /\ eff[un[v].now].st = "running" /\ un[v].now # un[u].now
    BY <1>1, <2>1 DEF OnceInv, Steady, NowOK
  <2> QED BY <1>2, <2>2
<1> QED
  <2>1. ASSUME NEW e \in Effects
        PROVE  /\ state[e].runs = eff[e].runs
               /\ state[e].st # eff[e].st => eff[e].st = "running" /\ state[e].st \in {"undone", "refused"}
    <3>1. CASE e = un[u].now
      BY <3>1, <1>1, <1>2
    <3>2. CASE e # un[u].now
      BY <3>2, <1>2
    <3> QED BY <3>1, <3>2
  <2> QED BY <1>2, <1>3, <2>1 DEF Agrees

\* An inverse settles and the next is started.
LEMMA InverseSettlesOnce ==
    ASSUME OnceInv, NEW u \in Unwinders, NEW ok \in BOOLEAN, InverseSettles(u, ok)
    PROVE  RunShape(u, un[u].all) /\ Steady'
<1> DEFINE state == [eff EXCEPT ![un[u].now].st = IF ok THEN "undone" ELSE "refused"]
<1>0. un \in [Unwinders -> UnRecord] /\ un[u] \in UnRecord
  BY DEF OnceInv, TypeOK, UnRecord
<1>4. Agrees(u, state)
  BY InverseSettlesAgrees
<1>5. /\ un[u].todo \in SUBSET Effects /\ unwinding \in BOOLEAN /\ un[u].was \in BOOLEAN
      /\ un[u].all \in BOOLEAN /\ (un[u].refused \/ ~ok) \in BOOLEAN
      /\ frames \in Seq(SUBSET Effects) /\ TypeOK
  BY <1>0 DEF OnceInv, TypeOK, UnRecord
<1>6. RunInverses(u, un[u].todo, unwinding, un[u].was, un[u].all, un[u].refused \/ ~ok, frames, state)
      /\ chain' = chain
  BY DEF InverseSettles
<1> DEFINE refused == un[u].refused \/ ~ok
<1>s. state \in EffType
  BY <1>4 DEF Agrees
<1> HIDE DEF state, refused
<1>7. RunInverses(u, un[u].todo, unwinding, un[u].was, un[u].all, refused, frames, state)
      /\ refused \in BOOLEAN
  BY <1>5, <1>6 DEF refused
<1>8. RunShape(u, un[u].all)
  BY <1>s, <1>5, <1>7, RunInversesType, SMTT(30)
<1>9. Steady'
  BY <1>4, <1>5, <1>6, <1>7, RunInversesOnce, ZenonT(60)
<1> QED BY <1>8, <1>9

\* A disposal begins.
LEMMA DisposeOnce ==
    ASSUME OnceInv, NEW o \in Ops, Dispose(o)
    PROVE  RunShape(o, FALSE) /\ Steady'
<1>1. Agrees(o, eff) /\ o \in Unwinders /\ o \in Chains
  BY DEF OnceInv, Steady, TypeOK, EffType, Agrees, NowOK, Unwinders, Chains
<1>2. unwinding \in BOOLEAN /\ eff \in EffType /\ frames \in Seq(SUBSET Effects) /\ TypeOK
      /\ chain[o].at \in 0..Steps
  BY <1>1 DEF OnceInv, Steady, TypeOK, EffType
<1>3. {<<o, k>> : k \in 1..chain[o].at} \in SUBSET Effects
  BY <1>1, <1>2, ScopeConstants DEF Effects
<1>4. RunInverses(o, {<<o, k>> : k \in 1..chain[o].at}, TRUE, unwinding, FALSE, FALSE, frames, eff)
      /\ chain' = chain
  BY DEF Dispose
<1> QED BY <1>1, <1>2, <1>3, <1>4, RunInversesType, RunInversesOnce, ZenonT(60)

-----------------------------------------------------------------------------
(* The steps of a chain. *)

ChainRecord == [pc: {"idle", "called", "body", "ok", "failed", "settled"}, at: 0..Steps, why: Reasons]

\* A step that moves chain c on, to a step that is one of its own.
Moves(c, at) ==
    /\ chain' \in [Chains -> ChainRecord]
    /\ \A d \in Chains \ {c} : chain'[d] = chain[d]
    /\ chain'[c].at = at /\ (chain'[c].pc = "body" => at < Steps)
    /\ chain'[c].pc \in {"ok", "failed", "body"}

\* A chain that ends, one way or the other, moves.
LEMMA PcMoves ==
    ASSUME TypeOK, NEW c \in Chains, NEW at \in 0..Steps, NEW why \in Reasons,
           NEW pc \in {"ok", "failed", "body"}, pc = "body" => at < Steps, chain' = Pc(c, pc, at, why)
    PROVE  Moves(c, at)
<1>1. chain \in [Chains -> ChainRecord]
  BY DEF TypeOK, ChainRecord
<1>2. [pc |-> pc, at |-> at, why |-> why] \in ChainRecord
  BY DEF ChainRecord
<1> QED BY <1>1, <1>2 DEF Pc, Moves

\* So does one that reaches a boundary.
LEMMA BoundaryMoves ==
    ASSUME TypeOK, NEW c \in Chains, NEW at \in 0..Steps, chain' = Boundary(c, at)
    PROVE  Moves(c, at)
<1>0. {"none", "threw", "closing", "closed", "no_frame"} = Reasons
  BY DEF Reasons
<1>1. CASE at = Steps /\ (c \notin Generators \/ ~unwinding)
  <2>1. chain' = Pc(c, "ok", at, "none")
    BY <1>1 DEF Boundary
  <2> QED BY <2>1, <1>0, PcMoves
<1>2. CASE ~(at = Steps /\ (c \notin Generators \/ ~unwinding)) /\ Refusal(c, at) # "none"
  <2>1. chain' = Pc(c, "failed", at, Refusal(c, at))
    BY <1>2 DEF Boundary
  <2>2. Refusal(c, at) \in Reasons
    BY <1>0 DEF Refusal
  <2> QED BY <2>1, <2>2, PcMoves
<1>3. CASE ~(at = Steps /\ (c \notin Generators \/ ~unwinding)) /\ Refusal(c, at) = "none"
  <2>1. chain' = Pc(c, "body", at, "none")
    BY <1>3 DEF Boundary
  <2>2. ~unwinding
    BY <1>3 DEF Refusal
  <2>3. at < Steps
    BY <1>3, <2>2, ScopeConstants
  <2> QED BY <2>1, <2>3, <1>0, PcMoves
<1> QED BY <1>1, <1>2, <1>3

\* A chain moves without allocating.
LEMMA MovesOnce ==
    ASSUME OnceInv, NEW c \in Chains, NEW at \in 0..Steps, Moves(c, at), at >= chain[c].at,
           \A k \in 1..Steps : k > at => eff'[<<c, k>>].st \in {"none", "lost"} /\ eff'[<<c, k>>].runs = 0,
           \A d \in Chains \ {c}, k \in 1..Steps : eff'[<<d, k>>] = eff[<<d, k>>],
           OnceOK', NowOK'
    PROVE  Steady'
<1>1. BodyOK'
  BY DEF BodyOK, OnceInv, Steady, Moves
<1>2. FreshOK'
  <2>1. SUFFICES ASSUME NEW d \in Chains, NEW k \in 1..Steps, k > chain'[d].at
                 PROVE  eff'[<<d, k>>].st \in {"none", "lost"} /\ eff'[<<d, k>>].runs = 0
    BY DEF FreshOK
  <2>2. CASE d = c
    BY <2>1, <2>2 DEF Moves
  <2>3. CASE d # c
    BY <2>1, <2>3 DEF Moves, OnceInv, Steady, FreshOK
  <2> QED BY <2>2, <2>3
<1> QED BY <1>1, <1>2 DEF Steady

\* Nothing is recorded and no inverse settles.
LEMMA EffectsKept ==
    ASSUME OnceInv, UNCHANGED <<eff, un>>
    PROVE  OnceOK' /\ NowOK'
BY DEF OnceInv, Steady, OnceOK, NowOK

\* record puts an effect nobody has recorded on the innermost frame.
LEMMA RecordOnce ==
    ASSUME OnceInv, NEW c \in Chains, NEW k \in 1..Steps, k > chain[c].at, frames # <<>>,
           Record(<<c, k>>), un' = un
    PROVE  /\ frames' \in Seq(SUBSET Effects) /\ eff' \in EffType /\ count' \in Nat
           /\ \A f \in Effects \ {<<c, k>>} : eff'[f] = eff[f]
           /\ eff'[<<c, k>>].st = "held"
           /\ OnceOK' /\ NowOK'
<1> DEFINE e == <<c, k>>
<1>1. e \in Effects /\ eff[e].st \in {"none", "lost"} /\ eff[e].runs = 0
  BY DEF OnceInv, Steady, FreshOK, Effects
<1>2. eff \in EffType /\ frames \in Seq(SUBSET Effects) /\ count \in Nat
  BY DEF OnceInv, TypeOK, EffType
<1>3. Len(frames) \in 1..Len(frames) /\ frames[Len(frames)] \cup {e} \in SUBSET Effects
  BY <1>1, <1>2
<1>4. frames' \in Seq(SUBSET Effects) /\ count' \in Nat
  BY <1>2, <1>3 DEF Record
<1>5. eff' \in EffType /\ (\A f \in Effects \ {e} : eff'[f] = eff[f])
      /\ eff'[e].st = "held" /\ eff'[e].runs = 0
  BY <1>1, <1>2, <1>3 DEF Record, EffType, EffectStates
<1>6. OnceOK'
  <2>1. SUFFICES ASSUME NEW f \in Effects
                 PROVE  eff'[f].runs \in {0, 1} /\ (eff'[f].st = "held" => eff'[f].runs = 0)
    BY DEF OnceOK
  <2>2. CASE f = e
    BY <2>2, <1>5
  <2>3. CASE f # e
    BY <2>3, <1>5 DEF OnceInv, Steady, OnceOK
  <2> QED BY <2>2, <2>3
<1>7. NowOK'
  <2>1. ASSUME NEW v \in Unwinders, un[v].st = "inverse"
        PROVE  un[v].now \in Effects /\ eff'[un[v].now].st = "running"
    <3>1. un[v].now \in Effects /\ eff[un[v].now].st = "running"
      BY <2>1 DEF OnceInv, Steady, NowOK
    <3>2. un[v].now # e
      BY <3>1, <1>1
    <3> QED BY <3>1, <3>2, <1>5
  <2> QED BY <2>1 DEF OnceInv, Steady, NowOK
<1> QED BY <1>4, <1>5, <1>6, <1>7

\* Nothing is recorded where no frame is open.
LEMMA LostOnce ==
    ASSUME OnceInv, NEW c \in Chains, NEW k \in 1..Steps, k > chain[c].at,
           eff' = [eff EXCEPT ![<<c, k>>].st = "lost"], un' = un
    PROVE  /\ eff' \in EffType
           /\ \A f \in Effects \ {<<c, k>>} : eff'[f] = eff[f]
           /\ eff'[<<c, k>>].st = "lost" /\ eff'[<<c, k>>].runs = 0
           /\ OnceOK' /\ NowOK'
<1> DEFINE e == <<c, k>>
<1>1. e \in Effects /\ eff[e].st \in {"none", "lost"} /\ eff[e].runs = 0
  BY DEF OnceInv, Steady, FreshOK, Effects
<1>2. eff \in EffType
  BY DEF OnceInv, TypeOK, EffType
<1>3. eff' \in EffType /\ (\A f \in Effects \ {e} : eff'[f] = eff[f])
      /\ eff'[e].st = "lost" /\ eff'[e].runs = 0
  BY <1>1, <1>2 DEF EffType, EffectStates
<1>4. OnceOK'
  <2>1. SUFFICES ASSUME NEW f \in Effects
                 PROVE  eff'[f].runs \in {0, 1} /\ (eff'[f].st = "held" => eff'[f].runs = 0)
    BY DEF OnceOK
  <2>2. CASE f = e
    BY <2>2, <1>3
  <2>3. CASE f # e
    BY <2>3, <1>3 DEF OnceInv, Steady, OnceOK
  <2> QED BY <2>2, <2>3
<1>5. NowOK'
  <2>1. ASSUME NEW v \in Unwinders, un[v].st = "inverse"
        PROVE  un[v].now \in Effects /\ eff'[un[v].now].st = "running"
    <3>1. un[v].now \in Effects /\ eff[un[v].now].st = "running"
      BY <2>1 DEF OnceInv, Steady, NowOK
    <3>2. un[v].now # e
      BY <3>1, <1>1
    <3> QED BY <3>1, <3>2, <1>3
  <2> QED BY <2>1 DEF OnceInv, Steady, NowOK
<1> QED BY <1>3, <1>4, <1>5

\* A chain moves on and nothing is recorded.
LEMMA QuietOnce ==
    ASSUME OnceInv, NEW c \in Chains, NEW at \in 0..Steps, Moves(c, at), at >= chain[c].at,
           UNCHANGED <<eff, un>>
    PROVE  Steady'
<1>1. \A k \in 1..Steps : k > at => eff'[<<c, k>>].st \in {"none", "lost"} /\ eff'[<<c, k>>].runs = 0
  <2>1. chain[c].at \in 0..Steps
    BY DEF OnceInv, TypeOK
  <2> QED BY <2>1, ScopeConstants DEF OnceInv, Steady, FreshOK
<1>2. OnceOK' /\ NowOK'
  BY EffectsKept
<1> QED BY <1>1, <1>2, MovesOnce

\* A chain is called, or is over for good, at the step it was at.
LEMMA SameStepOnce ==
    ASSUME OnceInv, NEW c \in Chains, chain' = [chain EXCEPT ![c] = chain'[c]],
           chain'[c] \in ChainRecord, chain'[c].at = chain[c].at,
           chain'[c].pc \in {"called", "idle"} => chain[c].at = 0, chain'[c].pc # "body",
           UNCHANGED <<eff, un>>
    PROVE  chain' \in [Chains -> ChainRecord] /\ Steady'
<1>1. chain \in [Chains -> ChainRecord]
  BY DEF OnceInv, TypeOK, ChainRecord
<1>2. chain' \in [Chains -> ChainRecord] /\ \A d \in Chains \ {c} : chain'[d] = chain[d]
  BY <1>1
<1>3. BodyOK'
  BY <1>1, <1>2 DEF OnceInv, Steady, BodyOK
<1>4. FreshOK'
  <2>1. \A d \in Chains : chain'[d].at = chain[d].at
    BY <1>2
  <2> QED BY <2>1 DEF OnceInv, Steady, FreshOK
<1>5. OnceOK' /\ NowOK'
  BY EffectsKept
<1> QED BY <1>2, <1>3, <1>4, <1>5 DEF Steady

\* Whoever ran inverses is done.
LEMMA EndedOnce ==
    ASSUME OnceInv, NEW u \in Unwinders, un' = [un EXCEPT ![u] = Ended], UNCHANGED <<eff, chain>>
    PROVE  un' \in [Unwinders -> UnRecord] /\ Steady'
<1>1. un \in [Unwinders -> UnRecord]
  BY DEF OnceInv, TypeOK, UnRecord
<1>2. Ended \in UnRecord /\ Ended.st = "ended"
  BY DEF Ended, Off, UnRecord
<1>3. un' \in [Unwinders -> UnRecord] /\ un'[u].st = "ended" /\ \A v \in Unwinders \ {u} : un'[v] = un[v]
  BY <1>1, <1>2
<1>4. BodyOK' /\ FreshOK' /\ OnceOK'
  BY DEF OnceInv, Steady, BodyOK, FreshOK, OnceOK
<1>5. NowOK'
  <2>1. ASSUME NEW v \in Unwinders, un'[v].st = "inverse"
        PROVE  /\ un'[v].now \in Effects /\ eff'[un'[v].now].st = "running"
               /\ \A w \in Unwinders : un'[w].st = "inverse" /\ un'[w].now = un'[v].now => v = w
    <3>1. v # u /\ un'[v] = un[v]
      BY <2>1, <1>3
    <3>2. /\ un[v].now \in Effects /\ eff[un[v].now].st = "running"
          /\ \A w \in Unwinders : un[w].st = "inverse" /\ un[w].now = un[v].now => v = w
      BY <2>1, <3>1 DEF OnceInv, Steady, NowOK
    <3> QED BY <3>1, <3>2, <1>3
  <2> QED BY <2>1 DEF NowOK
<1> QED BY <1>3, <1>4, <1>5 DEF Steady

\* The types after a step, from what it changed.
LEMMA TypesOf ==
    ASSUME frames' \in Seq(SUBSET Effects), unwinding' \in BOOLEAN, closed' \in BOOLEAN,
           eff' \in EffType, chain' \in [Chains -> ChainRecord], un' \in [Unwinders -> UnRecord],
           life' \in {"created", "initing", "live", "tearing", "down", "discarded", "withheld"},
           count' \in Nat
    PROVE  TypeOK'
BY DEF TypeOK, EffType, ChainRecord, UnRecord

\* A caller that runs inverses, and changes at most the life besides.
LEMMA RunKeepsInv ==
    ASSUME OnceInv, NEW u \in Unwinders, NEW all, RunShape(u, all), Steady',
           UNCHANGED <<closed, chain, count>>,
           life' \in {"created", "initing", "live", "tearing", "down", "discarded", "withheld"}
    PROVE  OnceInv'
<1>1. chain \in [Chains -> ChainRecord] /\ closed \in BOOLEAN /\ count \in Nat
  BY DEF OnceInv, TypeOK, ChainRecord
<1>2. TypeOK'
  BY <1>1, TypesOf DEF RunShape
<1> QED BY <1>2 DEF OnceInv
-----------------------------------------------------------------------------
(* Every step keeps OnceInv. *)

\* The steps that run inverses.
LEMMA UnwindsKeep ==
    ASSUME OnceInv, NEW u \in Unwinders,
           \/ \E ok \in BOOLEAN : InverseSettles(u, ok)
           \/ NextFrame(u) \/ ScopeCloses(u) \/ FrameUnwound(u)
    PROVE  OnceInv'
<1>0. /\ un[u] \in UnRecord /\ life \in {"created", "initing", "live", "tearing", "down", "discarded", "withheld"}
      /\ eff \in EffType /\ chain \in [Chains -> ChainRecord] /\ frames \in Seq(SUBSET Effects)
      /\ unwinding \in BOOLEAN /\ closed \in BOOLEAN /\ count \in Nat
  BY DEF OnceInv, TypeOK, UnRecord, EffType, ChainRecord
<1>1. ASSUME NEW ok \in BOOLEAN, InverseSettles(u, ok)
      PROVE  OnceInv'
  <2>1. RunShape(u, un[u].all) /\ Steady'
    BY <1>1, InverseSettlesOnce
  <2>2. UNCHANGED <<closed, chain, life, count>>
    BY <1>1 DEF InverseSettles
  <2> QED BY <1>0, <2>1, <2>2, RunKeepsInv
<1>2. CASE NextFrame(u)
  <2>1. UnwindFrame(u, TRUE, un[u].refused) /\ UNCHANGED <<closed, chain, life, count>>
    BY <1>2 DEF NextFrame
  <2>2. TRUE \in BOOLEAN /\ un[u].refused \in BOOLEAN
    BY <1>0 DEF UnRecord
  <2>3. RunShape(u, TRUE) /\ Steady'
    BY <2>1, <2>2, UnwindFrameOnce, ZenonT(60)
  <2> QED BY <1>0, <2>1, <2>3, RunKeepsInv
<1>3. CASE ScopeCloses(u)
  <2>1. un' \in [Unwinders -> UnRecord] /\ Steady'
    BY <1>3, EndedOnce DEF ScopeCloses
  <2>2. /\ UNCHANGED <<frames, unwinding, eff, chain, count>> /\ closed' \in BOOLEAN
        /\ life' \in {"created", "initing", "live", "tearing", "down", "discarded", "withheld"}
    BY <1>3 DEF ScopeCloses
  <2>3. TypeOK'
    BY <1>0, <2>1, <2>2, TypesOf
  <2> QED BY <2>1, <2>3 DEF OnceInv
<1>4. CASE FrameUnwound(u)
  <2>1. un' \in [Unwinders -> UnRecord] /\ Steady'
    BY <1>4, EndedOnce DEF FrameUnwound
  <2>2. /\ UNCHANGED <<frames, unwinding, closed, eff, chain, count>>
        /\ life' \in {"created", "initing", "live", "tearing", "down", "discarded", "withheld"}
    BY <1>0, <1>4 DEF FrameUnwound
  <2>3. TypeOK'
    BY <1>0, <2>1, <2>2, TypesOf
  <2> QED BY <2>1, <2>3 DEF OnceInv
<1> QED BY <1>1, <1>2, <1>3, <1>4

\* The steps of a chain.
LEMMA ChainsKeep ==
    ASSUME OnceInv, NEW c \in Chains, StepDone(c) \/ StepThrows(c) \/ MethodSettles(c)
    PROVE  OnceInv'
<1>0. /\ un \in [Unwinders -> UnRecord] /\ life \in {"created", "initing", "live", "tearing", "down", "discarded", "withheld"}
      /\ eff \in EffType /\ chain \in [Chains -> ChainRecord] /\ frames \in Seq(SUBSET Effects)
      /\ unwinding \in BOOLEAN /\ closed \in BOOLEAN /\ count \in Nat /\ TypeOK
  BY DEF OnceInv, TypeOK, UnRecord, EffType, ChainRecord
<1>1. chain[c].at \in 0..Steps /\ Steps \in Nat
      /\ (chain[c].pc = "body" => chain[c].at < Steps) /\ (chain[c].pc = "called" => chain[c].at = 0)
  BY <1>0, ScopeConstants DEF ChainRecord, OnceInv, Steady, BodyOK
<1>2. ASSUME NEW at \in 0..Steps, Moves(c, at), at >= chain[c].at,
             UNCHANGED <<frames, unwinding, closed, eff, un, life, count>>
      PROVE  OnceInv'
  <2>1. Steady'
    BY <1>2, QuietOnce
  <2>2. TypeOK'
    BY <1>0, <1>2, TypesOf DEF Moves
  <2> QED BY <2>1, <2>2 DEF OnceInv
<1>3. CASE StepDone(c)
  <2> DEFINE k == chain[c].at + 1
  <2>1. k \in 1..Steps /\ k \in 0..Steps /\ k > chain[c].at /\ k >= chain[c].at /\ <<c, k>> \in Effects
    BY <1>1, <1>3 DEF StepDone, Effects
  <2>2. UNCHANGED <<unwinding, closed, un, life>>
    BY <1>3 DEF StepDone
  <2> HIDE DEF k
  <2>3. CASE ~closed /\ frames # <<>> /\ Record(<<c, k>>) /\ chain' = Boundary(c, k)
    <3>1. Moves(c, k)
      BY <1>0, <2>1, <2>3, BoundaryMoves
    <3>2. /\ frames' \in Seq(SUBSET Effects) /\ eff' \in EffType /\ count' \in Nat
          /\ \A f \in Effects \ {<<c, k>>} : eff'[f] = eff[f]
          /\ OnceOK' /\ NowOK'
      BY <2>1, <2>2, <2>3, RecordOnce
    <3>3. \A j \in 1..Steps : j > k => eff'[<<c, j>>].st \in {"none", "lost"} /\ eff'[<<c, j>>].runs = 0
      <4>1. SUFFICES ASSUME NEW j \in 1..Steps, j > k
                     PROVE  eff'[<<c, j>>].st \in {"none", "lost"} /\ eff'[<<c, j>>].runs = 0
        OBVIOUS
      <4>2. <<c, j>> \in Effects \ {<<c, k>>} /\ j > chain[c].at
        BY <1>1, <2>1, <4>1 DEF Effects
      <4>3. eff'[<<c, j>>] = eff[<<c, j>>]
        BY <3>2, <4>2
      <4> QED BY <4>2, <4>3 DEF OnceInv, Steady, FreshOK
    <3>4. \A d \in Chains \ {c}, j \in 1..Steps : eff'[<<d, j>>] = eff[<<d, j>>]
      BY <3>2 DEF Effects
    <3>5. Steady'
      BY <2>1, <3>1, <3>2, <3>3, <3>4, MovesOnce
    <3>6. TypeOK'
      BY <1>0, <2>2, <3>1, <3>2, TypesOf DEF Moves
    <3> QED BY <3>5, <3>6 DEF OnceInv
  <2>4. CASE /\ eff' = [eff EXCEPT ![<<c, k>>].st = "lost"]
             /\ chain' = Pc(c, "failed", chain[c].at, IF closed THEN "closed" ELSE "no_frame")
             /\ UNCHANGED <<frames, count>>
    <3>0. (IF closed THEN "closed" ELSE "no_frame") \in Reasons
      BY DEF Reasons
    <3>1. Moves(c, chain[c].at)
      BY <1>0, <1>1, <2>4, <3>0, PcMoves
    <3>2. /\ eff' \in EffType
          /\ \A f \in Effects \ {<<c, k>>} : eff'[f] = eff[f]
          /\ eff'[<<c, k>>].st = "lost" /\ eff'[<<c, k>>].runs = 0
          /\ OnceOK' /\ NowOK'
      BY <2>1, <2>2, <2>4, LostOnce
    <3>3. \A j \in 1..Steps : j > chain[c].at => eff'[<<c, j>>].st \in {"none", "lost"} /\ eff'[<<c, j>>].runs = 0
      <4>1. SUFFICES ASSUME NEW j \in 1..Steps, j > chain[c].at
                     PROVE  eff'[<<c, j>>].st \in {"none", "lost"} /\ eff'[<<c, j>>].runs = 0
        OBVIOUS
      <4>2. CASE j = k
        BY <4>2, <3>2
      <4>3. CASE j # k
        <5>1. <<c, j>> \in Effects \ {<<c, k>>}
          BY <4>1, <4>3 DEF Effects
        <5>2. eff'[<<c, j>>] = eff[<<c, j>>]
          BY <3>2, <5>1
        <5> QED BY <4>1, <5>2 DEF OnceInv, Steady, FreshOK
      <4> QED BY <4>2, <4>3
    <3>4. \A d \in Chains \ {c}, j \in 1..Steps : eff'[<<d, j>>] = eff[<<d, j>>]
      BY <3>2 DEF Effects
    <3>5. Steady'
      BY <1>1, <3>1, <3>2, <3>3, <3>4, MovesOnce
    <3>6. TypeOK'
      BY <1>0, <2>2, <2>4, <3>1, <3>2, TypesOf DEF Moves
    <3> QED BY <3>5, <3>6 DEF OnceInv
  <2>5. CASE chain' = Boundary(c, k) /\ UNCHANGED <<frames, eff, count>>
    <3>1. Moves(c, k)
      BY <1>0, <2>1, <2>5, BoundaryMoves
    <3> QED BY <1>2, <2>1, <2>2, <2>5, <3>1
  <2> QED BY <1>3, <2>3, <2>4, <2>5 DEF StepDone, k
<1>4. CASE StepThrows(c)
  <2>1. Moves(c, chain[c].at)
    BY <1>0, <1>1, <1>4, PcMoves DEF StepThrows, Reasons
  <2> QED BY <1>1, <1>2, <1>4, <2>1 DEF StepThrows
<1>5. CASE MethodSettles(c)
  <2>1. 0 \in 0..Steps /\ chain[c].at = 0
    BY <1>1, <1>5 DEF MethodSettles
  <2>2. Moves(c, 0)
    <3>1. CASE chain' = Pc(c, "failed", 0, "threw")
      BY <1>0, <2>1, <3>1, PcMoves DEF Reasons
    <3>2. CASE chain' = Pc(c, "ok", 0, "none")
      BY <1>0, <2>1, <3>2, PcMoves DEF Reasons
    <3>3. CASE chain' = Boundary(c, 0)
      BY <1>0, <2>1, <3>3, BoundaryMoves
    <3> QED BY <1>5, <3>1, <3>2, <3>3 DEF MethodSettles
  <2> QED BY <1>2, <1>5, <2>1, <2>2 DEF MethodSettles
<1> QED BY <1>3, <1>4, <1>5

\* The steps of the lifecycle and of operations.
LEMMA LifecycleKeeps ==
    ASSUME OnceInv,
           \/ \E i \in Inits : InitBegins(i) \/ InitPublished(i) \/ InitUnpublished(i)
           \/ \E r \in Runs : RunBegins(r) \/ \E p \in BOOLEAN : RunSettles(r, p)
           \/ \E o \in Ops : Perform(o) \/ Register(o)
    PROVE  OnceInv'
<1>0. /\ un \in [Unwinders -> UnRecord] /\ life \in {"created", "initing", "live", "tearing", "down", "discarded", "withheld"}
      /\ eff \in EffType /\ chain \in [Chains -> ChainRecord] /\ frames \in Seq(SUBSET Effects)
      /\ unwinding \in BOOLEAN /\ closed \in BOOLEAN /\ count \in Nat /\ TypeOK
  BY DEF OnceInv, TypeOK, UnRecord, EffType, ChainRecord
<1>1. Append(frames, {}) \in Seq(SUBSET Effects) /\ Steps \in Nat /\ Steps # 0 /\ 0 \in 0..Steps
  BY <1>0, ScopeConstants
<1>2. ASSUME NEW c \in Chains, chain' = [chain EXCEPT ![c] = chain'[c]],
             chain'[c] \in ChainRecord, chain'[c].at = chain[c].at,
             chain'[c].pc \in {"called", "idle"} => chain[c].at = 0, chain'[c].pc # "body",
             frames' \in Seq(SUBSET Effects), UNCHANGED <<unwinding, closed, eff, un, count>>,
             life' \in {"created", "initing", "live", "tearing", "down", "discarded", "withheld"}
      PROVE  OnceInv'
  <2>1. chain' \in [Chains -> ChainRecord] /\ Steady'
    BY <1>2, SameStepOnce
  <2>2. TypeOK'
    BY <1>0, <1>2, <2>1, TypesOf
  <2> QED BY <2>1, <2>2 DEF OnceInv
<1>3. ASSUME NEW c \in Chains, chain[c] = Idle, chain' = Pc(c, "called", 0, "none")
      PROVE  /\ chain' = [chain EXCEPT ![c] = chain'[c]] /\ chain'[c] \in ChainRecord
             /\ chain'[c].at = chain[c].at /\ chain[c].at = 0 /\ chain'[c].pc # "body"
  BY <1>0, <1>1, <1>3 DEF Pc, Idle, ChainRecord, Reasons
<1>4. ASSUME NEW c \in Chains, chain[c].pc = "ok", chain' = [chain EXCEPT ![c].pc = "settled"]
      PROVE  /\ chain' = [chain EXCEPT ![c] = chain'[c]] /\ chain'[c] \in ChainRecord
             /\ chain'[c].at = chain[c].at /\ chain'[c].pc = "settled"
  <2>1. [chain[c] EXCEPT !.pc = "settled"] \in ChainRecord /\ [chain[c] EXCEPT !.pc = "settled"].at = chain[c].at
        /\ [chain[c] EXCEPT !.pc = "settled"].pc = "settled"
    BY <1>0 DEF ChainRecord
  <2>2. chain'[c] = [chain[c] EXCEPT !.pc = "settled"] /\ chain' = [chain EXCEPT ![c] = chain'[c]]
    BY <1>0, <1>4
  <2> QED BY <2>1, <2>2
<1>5. ASSUME NEW i \in Inits, InitBegins(i)
      PROVE  OnceInv'
  <2>1. i \in Chains /\ chain[i] = Idle /\ chain' = Pc(i, "called", 0, "none")
    BY <1>5 DEF InitBegins, Chains
  <2> QED BY <1>1, <1>2, <1>3, <1>5, <2>1 DEF InitBegins, OpenFrame
<1>6. ASSUME NEW i \in Inits, InitPublished(i) \/ InitUnpublished(i)
      PROVE  OnceInv'
  <2>1. i \in Chains /\ chain[i].pc = "ok" /\ chain' = [chain EXCEPT ![i].pc = "settled"]
    BY <1>6 DEF InitPublished, InitUnpublished, Chains
  <2>2. UNCHANGED <<frames, unwinding, closed, eff, un, count>> /\ life' \in {"live", "created"}
    BY <1>6 DEF InitPublished, InitUnpublished
  <2> QED BY <1>0, <1>2, <1>4, <2>1, <2>2
<1>7. ASSUME NEW r \in Runs, RunBegins(r)
      PROVE  OnceInv'
  <2>1. r \in Chains /\ chain[r] = Idle /\ chain' = Pc(r, "called", 0, "none")
    BY <1>7 DEF RunBegins, Chains
  <2> QED BY <1>0, <1>1, <1>2, <1>3, <1>7, <2>1 DEF RunBegins, OpenFrame
<1>8. ASSUME NEW r \in Runs, NEW p \in BOOLEAN, RunSettles(r, p)
      PROVE  OnceInv'
  <2>1. r \in Chains /\ chain[r].pc = "ok" /\ UNCHANGED <<frames, unwinding, closed, eff, un, life, count>>
    BY <1>8 DEF RunSettles, Chains
  <2>2. CASE chain' = [chain EXCEPT ![r].pc = "settled"]
    BY <1>0, <1>2, <1>4, <2>1, <2>2
  <2>3. CASE chain' = Pc(r, "failed", chain[r].at, "threw")
    <3>1. /\ chain' = [chain EXCEPT ![r] = chain'[r]] /\ chain'[r] \in ChainRecord
          /\ chain'[r].at = chain[r].at /\ chain'[r].pc = "failed"
      <4>1. [pc |-> "failed", at |-> chain[r].at, why |-> "threw"] \in ChainRecord
        BY <1>0, <2>1 DEF ChainRecord, Reasons
      <4> QED BY <1>0, <2>1, <2>3, <4>1 DEF Pc
    <3> QED BY <1>0, <1>2, <2>1, <3>1
  <2> QED BY <1>8, <2>2, <2>3 DEF RunSettles
<1>9. ASSUME NEW c \in Chains, NEW at \in 0..Steps, Moves(c, at), at >= chain[c].at,
             UNCHANGED <<frames, unwinding, closed, eff, un, life, count>>
      PROVE  OnceInv'
  <2>1. Steady'
    BY <1>9, QuietOnce
  <2>2. TypeOK'
    BY <1>0, <1>9, TypesOf DEF Moves
  <2> QED BY <2>1, <2>2 DEF OnceInv
<1>10. ASSUME NEW o \in Ops, Perform(o)
       PROVE  OnceInv'
  <2>1. o \in Chains /\ chain[o].at = 0 /\ chain' = Boundary(o, 0)
    BY <1>10 DEF Perform, Chains, Idle
  <2>2. Moves(o, 0)
    BY <1>0, <1>1, <2>1, BoundaryMoves
  <2> QED BY <1>1, <1>9, <1>10, <2>1, <2>2 DEF Perform
<1>11. ASSUME NEW o \in Ops, Register(o)
       PROVE  OnceInv'
  <2>1. o \in Chains /\ chain[o].at = 0 /\ UNCHANGED <<unwinding, closed, un, life>>
    BY <1>11 DEF Register, Chains, Idle
  <2>2. CASE closed \/ frames = <<>>
    <3>0. (IF closed THEN "closed" ELSE "no_frame") \in Reasons
      BY DEF Reasons
    <3>1. chain' = Pc(o, "failed", 0, IF closed THEN "closed" ELSE "no_frame")
          /\ UNCHANGED <<frames, eff, count>>
      BY <1>11, <2>2 DEF Register
    <3>2. Moves(o, 0)
      BY <1>0, <1>1, <2>1, <3>0, <3>1, PcMoves
    <3> QED BY <1>1, <1>9, <2>1, <3>1, <3>2
  <2>3. CASE ~(closed \/ frames = <<>>)
    <3>0. 1 \in 1..Steps /\ 1 \in 0..Steps /\ 1 > chain[o].at /\ 1 >= chain[o].at
      BY <1>1, <2>1
    <3>1. chain' = Pc(o, "ok", 1, "none") /\ Record(<<o, 1>>) /\ frames # <<>> /\ un' = un
      BY <1>11, <2>1, <2>3 DEF Register
    <3>2. Moves(o, 1)
      BY <1>0, <2>1, <3>0, <3>1, PcMoves DEF Reasons
    <3>3. /\ frames' \in Seq(SUBSET Effects) /\ eff' \in EffType /\ count' \in Nat
          /\ \A f \in Effects \ {<<o, 1>>} : eff'[f] = eff[f]
          /\ OnceOK' /\ NowOK'
      BY <2>1, <3>0, <3>1, RecordOnce
    <3>4. \A j \in 1..Steps : j > 1 => eff'[<<o, j>>].st \in {"none", "lost"} /\ eff'[<<o, j>>].runs = 0
      <4>1. SUFFICES ASSUME NEW j \in 1..Steps, j > 1
                     PROVE  eff'[<<o, j>>].st \in {"none", "lost"} /\ eff'[<<o, j>>].runs = 0
        OBVIOUS
      <4>2. <<o, j>> \in Effects \ {<<o, 1>>} /\ j > chain[o].at
        BY <2>1, <4>1 DEF Effects
      <4>3. eff'[<<o, j>>] = eff[<<o, j>>]
        BY <3>3, <4>2
      <4> QED BY <2>1, <4>2, <4>3 DEF OnceInv, Steady, FreshOK
    <3>5. \A d \in Chains \ {o}, j \in 1..Steps : eff'[<<d, j>>] = eff[<<d, j>>]
      BY <3>3 DEF Effects
    <3>6. Steady'
      BY <2>1, <3>0, <3>2, <3>3, <3>4, <3>5, MovesOnce
    <3>7. TypeOK'
      BY <1>0, <2>1, <3>2, <3>3, TypesOf DEF Moves
    <3> QED BY <3>6, <3>7 DEF OnceInv
  <2> QED BY <2>2, <2>3
<1> QED BY <1>5, <1>6, <1>7, <1>8, <1>10, <1>11

\* The steps that start unwinding a frame.
LEMMA RecoveriesKeep ==
    ASSUME OnceInv,
           \/ \E i \in Inits, d \in BOOLEAN : InitRecovers(i, d)
           \/ \E r \in Runs : RunRecovers(r)
           \/ \E o \in Ops : Dispose(o)
           \/ TeardownBegins
    PROVE  OnceInv'
<1>0. life \in {"created", "initing", "live", "tearing", "down", "discarded", "withheld"}
      /\ TRUE \in BOOLEAN /\ FALSE \in BOOLEAN
  BY DEF OnceInv, TypeOK
<1>1. ASSUME NEW i \in Inits, NEW d \in BOOLEAN, InitRecovers(i, d)
      PROVE  OnceInv'
  <2>1. i \in Unwinders /\ UnwindFrame(i, ~d, FALSE) /\ UNCHANGED <<closed, chain, life, count>>
    BY <1>1 DEF InitRecovers, Unwinders, Chains
  <2> DEFINE all == ~d
  <2>2. all \in BOOLEAN
    OBVIOUS
  <2> HIDE DEF all
  <2>3. UnwindFrame(i, all, FALSE)
    BY <2>1 DEF all
  <2>4. RunShape(i, all) /\ Steady'
    BY <1>0, <2>1, <2>2, <2>3, UnwindFrameOnce, ZenonT(60)
  <2> QED BY <1>0, <2>1, <2>4, RunKeepsInv
<1>2. ASSUME NEW r \in Runs, RunRecovers(r)
      PROVE  OnceInv'
  <2>1. r \in Unwinders /\ UnwindFrame(r, FALSE, FALSE) /\ UNCHANGED <<closed, chain, life, count>>
    BY <1>2 DEF RunRecovers, Unwinders, Chains
  <2>2. RunShape(r, FALSE) /\ Steady'
    BY <1>0, <2>1, UnwindFrameOnce, ZenonT(60)
  <2> QED BY <1>0, <2>1, <2>2, RunKeepsInv
<1>3. ASSUME NEW o \in Ops, Dispose(o)
      PROVE  OnceInv'
  <2>1. o \in Unwinders /\ UNCHANGED <<closed, chain, life, count>>
    BY <1>3 DEF Dispose, Unwinders, Chains
  <2>2. RunShape(o, FALSE) /\ Steady'
    BY <1>3, DisposeOnce
  <2> QED BY <1>0, <2>1, <2>2, RunKeepsInv
<1>4. CASE TeardownBegins
  <2>1. /\ Teardown \in Unwinders /\ UnwindFrame(Teardown, TRUE, FALSE)
        /\ UNCHANGED <<closed, chain, count>> /\ life' = "tearing"
    BY <1>4 DEF TeardownBegins, Unwinders
  <2>2. RunShape(Teardown, TRUE) /\ Steady'
    BY <1>0, <2>1, UnwindFrameOnce, ZenonT(60)
  <2> QED BY <2>1, <2>2, RunKeepsInv
<1> QED BY <1>1, <1>2, <1>3, <1>4

\* OnceInv holds at the start.
LEMMA OnceInit == Init => OnceInv
<1> SUFFICES ASSUME Init PROVE OnceInv
  OBVIOUS
<1>1. TypeOK
  <2>1. << {} >> \in Seq(SUBSET Effects)
    OBVIOUS
  <2>2. [pc |-> "idle", at |-> 0, why |-> "none"]
          \in [pc: {"idle", "called", "body", "ok", "failed", "settled"}, at: 0..Steps, why: Reasons]
    BY ScopeConstants DEF Reasons
  <2> QED BY <2>1, <2>2 DEF TypeOK, Init, Idle, Off, EffectStates
<1>2. Steady
  BY ScopeConstants DEF Init, Steady, BodyOK, FreshOK, OnceOK, NowOK, Idle, Off, Effects
<1> QED BY <1>1, <1>2 DEF OnceInv

\* Every step keeps OnceInv.
LEMMA OnceStep == OnceInv /\ [Next]_vars => OnceInv'
<1> SUFFICES ASSUME OnceInv, [Next]_vars PROVE OnceInv'
  OBVIOUS
<1>1. CASE UNCHANGED vars
  BY <1>1 DEF vars, OnceInv, TypeOK, Steady, BodyOK, FreshOK, OnceOK, NowOK
<1>2. CASE Settles
  BY <1>2, UnwindsKeep, ChainsKeep, LifecycleKeeps, RecoveriesKeep DEF Settles
<1>3. CASE Next /\ ~Settles
  BY <1>3, LifecycleKeeps, RecoveriesKeep DEF Next
<1> QED BY <1>1, <1>2, <1>3

\* OnceInv holds in every state of the scope.
THEOREM Invariant == Spec => []OnceInv
BY OnceInit, OnceStep, PTL DEF Spec

\* Every reachable state is well typed.
THEOREM TypeCorrect == Spec => []TypeOK
<1>1. OnceInv => TypeOK
  BY DEF OnceInv
<1> QED BY <1>1, Invariant, PTL

\* However disposals, recoveries and the teardown meet at a registration
\* (the disposed flag of RegisteredEffect), its inverse is run at most once.
THEOREM RunsOnce == Spec => []InverseOnce
<1>1. OnceInv => InverseOnce
  BY DEF OnceInv, Steady, OnceOK, InverseOnce
<1> QED BY <1>1, Invariant, PTL
-----------------------------------------------------------------------------
(* A closed scope holds nothing. *)

\* Two unwinders of frames never meet.
LEMMA OneUnwinds ==
    ASSUME LifeOK, NEW u \in Unwinders \ Ops, NEW v \in Unwinders \ Ops,
           Active(u), un[u].all, Active(v)
    PROVE  u = v
<1>1. /\ u \in Inits => Busy(u) /\ life = "initing"
      /\ u \notin Runs
      /\ u = Teardown => life = "tearing"
  BY DEF LifeOK, Active, Busy
<1>2. /\ v \in Inits => Busy(v) /\ life = "initing"
      /\ v \in Runs => life = "live"
      /\ v = Teardown => life = "tearing"
  BY DEF LifeOK, Active, Busy, InFlight
<1>3. u \in Inits \/ u = Teardown
  BY <1>1 DEF Unwinders, Chains
<1>4. v \in Inits \/ v \in Runs \/ v = Teardown
  BY DEF Unwinders, Chains
<1> QED BY <1>1, <1>2, <1>3, <1>4 DEF LifeOK

\* Running inverses keeps the lifecycle, if its caller may be active.
LEMMA LifeRun ==
    ASSUME OnceInv, LifeOK, NEW u \in Unwinders, NEW all \in BOOLEAN, RunShape(u, all),
           chain' = chain, u # Teardown => un[u].st # "ended",
           u \in Inits => chain[u].pc = "failed",
           u \in Runs => chain[u].pc = "failed" /\ ~all,
           u \in Ops => ~all,
           \/ life' = life /\ (u = Teardown => life = "tearing")
           \/ u = Teardown /\ life = "live" /\ life' = "tearing" /\ \A r \in Runs : ~InFlight(r)
    PROVE  LifeOK'
<1>0. un \in [Unwinders -> UnRecord] /\ un' \in [Unwinders -> UnRecord]
  BY DEF OnceInv, TypeOK, UnRecord, RunShape
<1>1. un'[u].st \in {"inverse", "between"} /\ un'[u].all = all
      /\ \A v \in Unwinders \ {u} : un'[v] = un[v]
  BY <1>0 DEF RunShape
<1>2. Inits \subseteq Unwinders /\ Runs \subseteq Unwinders /\ Ops \subseteq Unwinders
      /\ Teardown \in Unwinders /\ Teardown \notin Inits /\ Teardown \notin Runs /\ Teardown \notin Ops
  BY ScopeConstants DEF Unwinders, Chains
<1>3. \A i \in Inits : (Busy(i))' = Busy(i)
  BY <1>1, <1>2 DEF Busy
<1>4. \A r \in Runs : (InFlight(r))' = InFlight(r)
  BY <1>1, <1>2 DEF InFlight
<1>5. ASSUME NEW i \in Inits
      PROVE  /\ (Active(i))' => chain'[i].pc = "failed"
             /\ (Busy(i))' => life' = "initing"
             /\ \A j \in Inits : (Busy(i))' /\ (Busy(j))' => i = j
  <2>1. (Active(i))' => chain'[i].pc = "failed"
    BY <1>1, <1>2 DEF Active, LifeOK
  <2>2. Busy(i) => life = "initing"
    BY DEF LifeOK
  <2>3. \A j \in Inits : Busy(i) /\ Busy(j) => i = j
    BY DEF LifeOK
  <2> QED BY <1>3, <2>1, <2>2, <2>3
<1>6. ASSUME NEW r \in Runs
      PROVE  /\ (Active(r))' => chain'[r].pc = "failed" /\ ~un'[r].all
             /\ (InFlight(r))' => life' = "live"
             /\ \A q \in Runs : (InFlight(r))' /\ (InFlight(q))' => r = q
  <2>1. (Active(r))' => chain'[r].pc = "failed" /\ ~un'[r].all
    BY <1>1, <1>2 DEF Active, LifeOK
  <2>2. (InFlight(r) => life = "live") /\ \A q \in Runs : InFlight(r) /\ InFlight(q) => r = q
    BY DEF LifeOK
  <2> QED BY <1>4, <2>1, <2>2
<1>7. \A o \in Ops : (Active(o))' => ~un'[o].all
  BY <1>1, <1>2 DEF Active, LifeOK
<1>8. (Active(Teardown))' => life' = "tearing"
  BY <1>1, <1>2 DEF Active, LifeOK
<1> QED BY <1>5, <1>6, <1>7, <1>8 DEF LifeOK

\* So does its end, which leaves the phase of an attempt or of the teardown.
LEMMA LifeEnds ==
    ASSUME OnceInv, LifeOK, NEW u \in Unwinders, un[u].st = "between",
           un' = [un EXCEPT ![u] = Ended], chain' = chain,
           life' # life => u \in Inits \/ (u = Teardown /\ life = "tearing"),
           u \in Inits => life' \notin {"live", "tearing"}
    PROVE  LifeOK'
<1>0. un \in [Unwinders -> UnRecord] /\ Ended.st = "ended"
  BY DEF OnceInv, TypeOK, UnRecord, Ended, Off
<1>1. un'[u].st = "ended" /\ \A v \in Unwinders \ {u} : un'[v] = un[v]
  BY <1>0
<1>2. Inits \subseteq Unwinders /\ Runs \subseteq Unwinders /\ Ops \subseteq Unwinders
      /\ Teardown \in Unwinders /\ Teardown \notin Inits /\ Teardown \notin Runs /\ Teardown \notin Ops
      /\ Inits \cap Runs = {}
  BY ScopeConstants DEF Unwinders, Chains
<1>3. \A v \in Unwinders : (Active(v))' => Active(v) /\ v # u /\ un'[v] = un[v]
  BY <1>1 DEF Active
<1>4. \A i \in Inits : (Busy(i))' => Busy(i)
  BY <1>1, <1>2 DEF Busy
<1>5. \A r \in Runs : (InFlight(r))' => InFlight(r)
  BY <1>1, <1>2 DEF InFlight
<1>6. u \in Inits => Busy(u) /\ life = "initing" /\ ~(Busy(u))'
  BY <1>1 DEF LifeOK, Active, Busy
<1>7. ASSUME NEW i \in Inits
      PROVE  /\ (Active(i))' => chain'[i].pc = "failed"
             /\ (Busy(i))' => life' = "initing"
             /\ \A j \in Inits : (Busy(i))' /\ (Busy(j))' => i = j
  <2>1. (Active(i))' => chain'[i].pc = "failed"
    BY <1>2, <1>3 DEF LifeOK
  <2>2. (Busy(i) => life = "initing") /\ \A j \in Inits : Busy(i) /\ Busy(j) => i = j
    BY DEF LifeOK
  <2> QED BY <1>4, <1>6, <2>1, <2>2
<1>8. ASSUME NEW r \in Runs
      PROVE  /\ (Active(r))' => chain'[r].pc = "failed" /\ ~un'[r].all
             /\ (InFlight(r))' => life' = "live"
             /\ \A q \in Runs : (InFlight(r))' /\ (InFlight(q))' => r = q
  <2>1. (Active(r))' => chain'[r].pc = "failed" /\ ~un'[r].all
    BY <1>2, <1>3 DEF LifeOK
  <2>2. (InFlight(r) => life = "live") /\ \A q \in Runs : InFlight(r) /\ InFlight(q) => r = q
    BY DEF LifeOK
  <2> QED BY <1>5, <1>6, <2>1, <2>2
<1>9. \A o \in Ops : (Active(o))' => ~un'[o].all
  BY <1>2, <1>3 DEF LifeOK
<1>10. (Active(Teardown))' => life' = "tearing"
  BY <1>2, <1>3, <1>6 DEF LifeOK
<1> QED BY <1>7, <1>8, <1>9, <1>10 DEF LifeOK

\* A chain that moves on within its phase keeps the lifecycle.
LEMMA LifeMoves ==
    ASSUME OnceInv, LifeOK, NEW c \in Chains, UNCHANGED <<un, life>>,
           \A d \in Chains \ {c} : chain'[d] = chain[d],
           c \in Inits => chain[c].pc \in {"called", "body", "ok"},
           c \in Runs => chain[c].pc \in {"called", "body", "ok"}
    PROVE  LifeOK'
<1>0. Inits \subseteq Chains /\ Runs \subseteq Chains /\ Ops \subseteq Chains
  BY DEF Chains
<1>1. \A v \in Unwinders : (Active(v))' = Active(v)
  BY DEF Active
<1>2. \A i \in Inits : (Busy(i))' => Busy(i)
  BY <1>0 DEF Busy
<1>3. \A r \in Runs : (InFlight(r))' => InFlight(r)
  BY <1>0 DEF InFlight
<1>4. ASSUME NEW i \in Inits
      PROVE  /\ (Active(i))' => chain'[i].pc = "failed"
             /\ (Busy(i))' => life' = "initing"
             /\ \A j \in Inits : (Busy(i))' /\ (Busy(j))' => i = j
  <2>1. (Active(i))' => chain'[i].pc = "failed"
    BY <1>0, <1>1 DEF LifeOK, Active
  <2> QED BY <1>2, <2>1 DEF LifeOK
<1>5. ASSUME NEW r \in Runs
      PROVE  /\ (Active(r))' => chain'[r].pc = "failed" /\ ~un'[r].all
             /\ (InFlight(r))' => life' = "live"
             /\ \A q \in Runs : (InFlight(r))' /\ (InFlight(q))' => r = q
  <2>1. (Active(r))' => chain'[r].pc = "failed" /\ ~un'[r].all
    BY <1>0, <1>1 DEF LifeOK, Active
  <2> QED BY <1>3, <2>1 DEF LifeOK
<1> QED BY <1>4, <1>5 DEF LifeOK, Active

\* What running inverses does to what is waiting: nothing starts to wait, and
\* what waits on the list or on the stack afterwards was there.
LEMMA RunInversesHeld ==
    ASSUME OnceInv, NEW u \in Unwinders, NEW list \in SUBSET Effects, NEW flag, NEW was, NEW all, NEW refused,
           NEW stack \in Seq(SUBSET Effects), NEW state, Agrees(u, state),
           RunInverses(u, list, flag, was, all, refused, stack, state)
    PROVE  \A e \in Effects : eff'[e].st = "held" =>
               /\ eff[e].st = "held"
               /\ e \in list => un'[u].st = "inverse" /\ e \in un'[u].todo
               /\ \A i \in 1..Len(stack) : e \in stack[i] => Len(frames') = Len(stack) /\ e \in frames'[i]
<1> DEFINE left == Undisposed(list, state)
<1>0. un \in [Unwinders -> UnRecord] /\ state \in EffType /\ Len(stack) \in Nat
  BY DEF OnceInv, TypeOK, UnRecord, Agrees
<1>1. SUFFICES ASSUME NEW e \in Effects, eff'[e].st = "held"
               PROVE  /\ eff[e].st = "held"
                      /\ e \in list => un'[u].st = "inverse" /\ e \in un'[u].todo
                      /\ \A i \in 1..Len(stack) :
                            e \in stack[i] => Len(frames') = Len(stack) /\ e \in frames'[i]
  OBVIOUS
<1>2. ASSUME NEW f \in left,
             eff' = [state EXCEPT ![f] = [st |-> "running", depth |-> @.depth,
                                          order |-> @.order, runs |-> @.runs + 1]],
             frames' = [i \in 1..Len(stack) |-> stack[i] \ {f}],
             un' = [un EXCEPT ![u] = [st |-> "inverse", was |-> was, all |-> all,
                                      refused |-> refused, now |-> f, todo |-> left \ {f}]]
      PROVE  /\ eff[e].st = "held"
             /\ e \in list => un'[u].st = "inverse" /\ e \in un'[u].todo
             /\ \A i \in 1..Len(stack) : e \in stack[i] => Len(frames') = Len(stack) /\ e \in frames'[i]
  <2>1. f \in Effects /\ eff'[f].st = "running" /\ \A g \in Effects \ {f} : eff'[g] = state[g]
    BY <1>0, <1>2 DEF EffType, Undisposed
  <2>2. e # f /\ state[e].st = "held"
    BY <1>1, <2>1
  <2>3. eff[e].st = "held"
    BY <2>2 DEF Agrees
  <2>4. e \in list => e \in left
    BY <2>2 DEF Undisposed
  <2>5. un'[u].st = "inverse" /\ un'[u].todo = left \ {f}
    BY <1>0, <1>2
  <2>6. Len(frames') = Len(stack)
    BY <1>0, <1>2
  <2> QED BY <1>2, <2>2, <2>3, <2>4, <2>5, <2>6
<1>3. ASSUME left = {}, eff' = state, frames' = stack
      PROVE  /\ eff[e].st = "held"
             /\ e \in list => un'[u].st = "inverse" /\ e \in un'[u].todo
             /\ \A i \in 1..Len(stack) : e \in stack[i] => Len(frames') = Len(stack) /\ e \in frames'[i]
  <2>1. state[e].st = "held" /\ e \notin list
    BY <1>1, <1>3 DEF Undisposed
  <2> QED BY <1>3, <2>1 DEF Agrees
<1> QED BY <1>2, <1>3 DEF RunInverses

\* What is left when the innermost frame is popped.
LEMMA SubSeqKeeps ==
    ASSUME NEW S, NEW s \in Seq(S), NEW n \in Nat, n <= Len(s)
    PROVE  /\ SubSeq(s, 1, n) \in Seq(S) /\ Len(SubSeq(s, 1, n)) = n
           /\ \A i \in 1..n : SubSeq(s, 1, n)[i] = s[i]
<1>1. SubSeq(s, 1, n) \in Seq(S)
  OBVIOUS
<1>2. Len(SubSeq(s, 1, n)) = n
  OBVIOUS
<1>3. \A i \in 1..n : SubSeq(s, 1, n)[i] = s[i]
  OBVIOUS
<1> QED BY <1>1, <1>2, <1>3

\* A frame that is popped hands its entries to whoever pops it.
LEMMA UnwindFrameHeld ==
    ASSUME OnceInv, HeldOK, NEW u \in Unwinders \ Ops, un[u].st # "inverse",
           NEW all \in BOOLEAN, NEW refused \in BOOLEAN, UnwindFrame(u, all, refused), chain' = chain
    PROVE  HeldOK' /\ \A e \in Effects : eff'[e].st = "held" => eff[e].st = "held"
<1>0. frames \in Seq(SUBSET Effects) /\ un \in [Unwinders -> UnRecord] /\ Len(frames) \in Nat
  BY DEF OnceInv, TypeOK, UnRecord
<1>s. RunShape(u, all)
  BY UnwindFrameOnce, ZenonT(60)
<1>1. \A v \in Unwinders \ {u} : un'[v] = un[v]
  BY <1>0, <1>s DEF RunShape
<1>2. Agrees(u, eff)
  BY DEF OnceInv, Steady, TypeOK, EffType, Agrees, NowOK
<1> DEFINE top == frames[Len(frames)]
           rest == SubSeq(frames, 1, Len(frames) - 1)
<1>3. CASE frames # <<>> /\ RunInverses(u, top, TRUE, unwinding, all, refused, rest, eff)
  <2>1. /\ top \in SUBSET Effects /\ rest \in Seq(SUBSET Effects) /\ Len(rest) = Len(frames) - 1
        /\ \A i \in 1..Len(rest) : rest[i] = frames[i]
    <3>1. frames # <<>> /\ Len(frames) \in 1..Len(frames) /\ Len(frames) - 1 \in Nat
      BY <1>0, <1>3
    <3>2. top \in SUBSET Effects
      BY <1>0, <3>1
    <3>3. \A n \in Nat : n = Len(frames) - 1 =>
              /\ SubSeq(frames, 1, n) \in Seq(SUBSET Effects) /\ Len(SubSeq(frames, 1, n)) = n
              /\ \A i \in 1..n : SubSeq(frames, 1, n)[i] = frames[i]
      BY <1>0, SubSeqKeeps
    <3> QED BY <3>1, <3>2, <3>3
  <2> HIDE DEF top, rest
  <2>2. \A e \in Effects : eff'[e].st = "held" =>
               /\ eff[e].st = "held"
               /\ e \in top => un'[u].st = "inverse" /\ e \in un'[u].todo
               /\ \A i \in 1..Len(rest) : e \in rest[i] => Len(frames') = Len(rest) /\ e \in frames'[i]
    BY <1>2, <1>3, <2>1, RunInversesHeld
  <2>3. ASSUME NEW e \in Effects, eff'[e].st = "held"
        PROVE  \/ \E i \in 1..Len(frames') : e \in frames'[i]
               \/ \E v \in Unwinders \ Ops : un'[v].st = "inverse" /\ e \in un'[v].todo
    <3>1. CASE \E i \in 1..Len(frames) : e \in frames[i]
      <4>1. PICK i \in 1..Len(frames) : e \in frames[i]
        BY <3>1
      <4>2. CASE i = Len(frames)
        BY <2>2, <2>3, <4>1, <4>2 DEF top
      <4>3. CASE i # Len(frames)
        <5>1. i \in 1..Len(rest) /\ e \in rest[i]
          BY <1>0, <2>1, <4>1, <4>3
        <5> QED BY <2>2, <2>3, <5>1
      <4> QED BY <4>2, <4>3
    <3>2. CASE \E v \in Unwinders \ Ops : un[v].st = "inverse" /\ e \in un[v].todo
      BY <1>1, <3>2
    <3> QED BY <2>2, <2>3, <3>1, <3>2 DEF HeldOK
  <2> QED BY <2>2, <2>3 DEF HeldOK
<1>4. CASE frames = <<>> /\ RunInverses(u, {}, TRUE, unwinding, all, refused, <<>>, eff)
  <2>1. {} \in SUBSET Effects /\ <<>> \in Seq(SUBSET Effects)
    OBVIOUS
  <2>2. \A e \in Effects : eff'[e].st = "held" => eff[e].st = "held"
    BY <1>2, <1>4, <2>1, RunInversesHeld
  <2>3. ASSUME NEW e \in Effects, eff'[e].st = "held"
        PROVE  \E v \in Unwinders \ Ops : un'[v].st = "inverse" /\ e \in un'[v].todo
    <3>1. eff[e].st = "held" /\ ~\E i \in 1..Len(frames) : e \in frames[i]
      BY <1>4, <2>2, <2>3
    <3>2. PICK v \in Unwinders \ Ops : un[v].st = "inverse" /\ e \in un[v].todo
      BY <3>1 DEF HeldOK
    <3> QED BY <1>1, <3>2
  <2> QED BY <2>2, <2>3 DEF HeldOK
<1> QED BY <1>3, <1>4 DEF UnwindFrame

\* Running inverses off a list of one's own leaves the frames and the lists of
\* the others alone, but for what is started.
LEMMA RunInversesKeepsHeld ==
    ASSUME OnceInv, HeldOK, NEW u \in Unwinders, NEW list \in SUBSET Effects,
           NEW flag \in BOOLEAN, NEW was \in BOOLEAN, NEW all \in BOOLEAN, NEW refused \in BOOLEAN,
           NEW state, Agrees(u, state), RunInverses(u, list, flag, was, all, refused, frames, state),
           un[u].st = "inverse" => un[u].todo \subseteq list
    PROVE  HeldOK' /\ \A e \in Effects : eff'[e].st = "held" => eff[e].st = "held"
<1>0. frames \in Seq(SUBSET Effects) /\ un \in [Unwinders -> UnRecord] /\ TypeOK /\ state \in EffType
  BY DEF OnceInv, TypeOK, UnRecord, Agrees
<1>1. RunShape(u, all)
  BY <1>0, RunInversesType, ZenonT(60)
<1>2. \A v \in Unwinders \ {u} : un'[v] = un[v]
  BY <1>0, <1>1 DEF RunShape
<1>3. \A e \in Effects : eff'[e].st = "held" =>
               /\ eff[e].st = "held"
               /\ e \in list => un'[u].st = "inverse" /\ e \in un'[u].todo
               /\ \A i \in 1..Len(frames) : e \in frames[i] => Len(frames') = Len(frames) /\ e \in frames'[i]
  BY <1>0, RunInversesHeld
<1>4. ASSUME NEW e \in Effects, eff'[e].st = "held"
      PROVE  \/ \E i \in 1..Len(frames') : e \in frames'[i]
             \/ \E v \in Unwinders \ Ops : un'[v].st = "inverse" /\ e \in un'[v].todo
  <2>1. CASE \E i \in 1..Len(frames) : e \in frames[i]
    BY <1>3, <1>4, <2>1
  <2>2. CASE \E v \in Unwinders \ Ops : un[v].st = "inverse" /\ e \in un[v].todo
    <3>1. PICK v \in Unwinders \ Ops : un[v].st = "inverse" /\ e \in un[v].todo
      BY <2>2
    <3>2. CASE v = u
      BY <1>3, <1>4, <3>1, <3>2
    <3>3. CASE v # u
      BY <1>2, <3>1, <3>3
    <3> QED BY <3>2, <3>3
  <2> QED BY <1>3, <1>4, <2>1, <2>2 DEF HeldOK
<1> QED BY <1>3, <1>4 DEF HeldOK

\* The frames only grow and nobody drops its list.
LEMMA HeldStep ==
    ASSUME HeldOK,
           \A e \in Effects : eff'[e].st = "held" =>
               eff[e].st = "held" \/ \E i \in 1..Len(frames') : e \in frames'[i],
           \A i \in 1..Len(frames) : i \in 1..Len(frames') /\ frames[i] \subseteq frames'[i],
           \A v \in Unwinders : un[v].st = "inverse" => un'[v] = un[v]
    PROVE  HeldOK'
<1>1. ASSUME NEW e \in Effects, eff'[e].st = "held"
      PROVE  \/ \E i \in 1..Len(frames') : e \in frames'[i]
             \/ \E v \in Unwinders \ Ops : un'[v].st = "inverse" /\ e \in un'[v].todo
  <2>1. CASE \E i \in 1..Len(frames) : e \in frames[i]
    BY <2>1
  <2>2. CASE \E v \in Unwinders \ Ops : un[v].st = "inverse" /\ e \in un[v].todo
    <3>1. PICK v \in Unwinders \ Ops : un[v].st = "inverse" /\ e \in un[v].todo
      BY <2>2
    <3>2. un'[v] = un[v]
      BY <3>1
    <3> QED BY <3>1, <3>2
  <2> QED BY <1>1, <2>1, <2>2 DEF HeldOK
<1> QED BY <1>1 DEF HeldOK

\* A step that leaves frames, effects and unwinders alone, or opens a frame.
LEMMA FramesKept ==
    ASSUME OnceInv, HeldOK, UNCHANGED <<eff, un>>, frames' = frames \/ frames' = Append(frames, {})
    PROVE  HeldOK'
<1>1. frames \in Seq(SUBSET Effects)
  BY DEF OnceInv, TypeOK
<1>2. \A i \in 1..Len(frames) : i \in 1..Len(frames') /\ frames[i] \subseteq frames'[i]
  BY <1>1
<1> QED BY <1>2, HeldStep

\* What is recorded is on an open frame.
LEMMA RecordHeld ==
    ASSUME OnceInv, HeldOK, NEW e \in Effects, Record(e), frames # <<>>, un' = un
    PROVE  HeldOK'
<1>1. frames \in Seq(SUBSET Effects) /\ eff \in EffType
  BY DEF OnceInv, TypeOK, EffType
<1>2. \A f \in Effects \ {e} : eff'[f] = eff[f]
  BY <1>1 DEF Record, EffType
<1>3. Len(frames) \in 1..Len(frames) /\ Len(frames') = Len(frames)
  BY <1>1 DEF Record
<1>4. e \in frames'[Len(frames)]
  BY <1>1, <1>3 DEF Record
<1>5. \A i \in 1..Len(frames) : frames[i] \subseteq frames'[i]
  BY <1>1, <1>3 DEF Record
<1> QED BY <1>2, <1>3, <1>4, <1>5, HeldStep

\* An inverse that settles leaves alone what waits.
LEMMA InverseSettlesHeld ==
    ASSUME OnceInv, HeldOK, NEW u \in Unwinders, NEW ok \in BOOLEAN, InverseSettles(u, ok)
    PROVE  HeldOK' /\ \A e \in Effects : eff'[e].st = "held" => eff[e].st = "held"
<1> DEFINE state == [eff EXCEPT ![un[u].now].st = IF ok THEN "undone" ELSE "refused"]
           refused == un[u].refused \/ ~ok
<1>1. Agrees(u, state)
  BY InverseSettlesAgrees
<1>2. /\ un[u].todo \in SUBSET Effects /\ unwinding \in BOOLEAN /\ un[u].was \in BOOLEAN
      /\ un[u].all \in BOOLEAN /\ refused \in BOOLEAN
  BY DEF OnceInv, TypeOK
<1>3. RunInverses(u, un[u].todo, unwinding, un[u].was, un[u].all, refused, frames, state)
  BY DEF InverseSettles
<1>4. un[u].st = "inverse" => un[u].todo \subseteq un[u].todo
  OBVIOUS
<1> HIDE DEF state, refused
<1> QED BY <1>1, <1>2, <1>3, <1>4, RunInversesKeepsHeld, ZenonT(60)

\* So does a disposal that begins.
LEMMA DisposeHeld ==
    ASSUME OnceInv, HeldOK, NEW o \in Ops, Dispose(o)
    PROVE  HeldOK' /\ \A e \in Effects : eff'[e].st = "held" => eff[e].st = "held"
<1>1. Agrees(o, eff) /\ o \in Unwinders /\ o \in Chains
  BY DEF OnceInv, Steady, TypeOK, EffType, Agrees, NowOK, Unwinders, Chains
<1>2. unwinding \in BOOLEAN /\ chain[o].at \in 0..Steps /\ TRUE \in BOOLEAN /\ FALSE \in BOOLEAN
  BY <1>1 DEF OnceInv, TypeOK
<1> DEFINE list == {<<o, k>> : k \in 1..chain[o].at}
<1>3. list \in SUBSET Effects
  BY <1>1, <1>2, ScopeConstants DEF Effects
<1>4. RunInverses(o, list, TRUE, unwinding, FALSE, FALSE, frames, eff)
  BY DEF Dispose
<1>5. un[o].st = "inverse" => un[o].todo \subseteq list
  BY DEF Dispose
<1> HIDE DEF list
<1> QED BY <1>1, <1>2, <1>3, <1>4, <1>5, RunInversesKeepsHeld, ZenonT(60)

\* The steps of whoever unwinds.
LEMMA UnwindsClean ==
    ASSUME CleanInv, NEW u \in Unwinders,
           \/ \E ok \in BOOLEAN : InverseSettles(u, ok)
           \/ NextFrame(u) \/ ScopeCloses(u) \/ FrameUnwound(u)
    PROVE  LifeOK' /\ HeldOK' /\ ClosedIsClean'
<1>0. /\ OnceInv /\ LifeOK /\ HeldOK /\ ClosedIsClean
      /\ un \in [Unwinders -> UnRecord] /\ un[u] \in UnRecord /\ frames \in Seq(SUBSET Effects)
      /\ TRUE \in BOOLEAN
  BY DEF CleanInv, OnceInv, TypeOK, UnRecord
<1>1. Teardown \notin Inits /\ Teardown \notin Runs /\ Teardown \notin Ops
      /\ Inits \cap Runs = {} /\ Inits \cap Ops = {} /\ Runs \cap Ops = {}
  BY ScopeConstants DEF Chains
<1>2. Active(u) => /\ u \in Inits => chain[u].pc = "failed"
                   /\ u \in Runs => chain[u].pc = "failed" /\ ~un[u].all
                   /\ u \in Ops => ~un[u].all
                   /\ u = Teardown => life = "tearing"
  BY <1>0 DEF LifeOK
<1>3. ASSUME NEW ok \in BOOLEAN, InverseSettles(u, ok)
      PROVE  LifeOK' /\ HeldOK' /\ ClosedIsClean'
  <2>1. un[u].st = "inverse" /\ UNCHANGED <<closed, chain, life, count>> /\ Active(u) /\ un[u].all \in BOOLEAN
    BY <1>0, <1>3 DEF InverseSettles, Active, UnRecord
  <2>2. RunShape(u, un[u].all)
    BY <1>0, <1>3, InverseSettlesOnce
  <2>3. LifeOK'
    BY <1>0, <1>2, <2>1, <2>2, LifeRun
  <2>4. HeldOK' /\ \A e \in Effects : eff'[e].st = "held" => eff[e].st = "held"
    BY <1>0, <1>3, InverseSettlesHeld
  <2> QED BY <1>0, <2>1, <2>3, <2>4 DEF ClosedIsClean
<1>4. CASE NextFrame(u)
  <2>1. /\ un[u].st = "between" /\ un[u].all = TRUE /\ Active(u) /\ un[u].refused \in BOOLEAN
        /\ UnwindFrame(u, TRUE, un[u].refused) /\ UNCHANGED <<closed, chain, life, count>>
    BY <1>0, <1>4 DEF NextFrame, Active, UnRecord
  <2>2. RunShape(u, TRUE)
    BY <1>0, <2>1, UnwindFrameOnce, ZenonT(60)
  <2>3. LifeOK'
    BY <1>0, <1>2, <2>1, <2>2, LifeRun
  <2>4. u \in Unwinders \ Ops /\ un[u].st # "inverse"
    BY <1>2, <2>1
  <2>5. HeldOK' /\ \A e \in Effects : eff'[e].st = "held" => eff[e].st = "held"
    BY <1>0, <2>1, <2>4, UnwindFrameHeld, ZenonT(60)
  <2> QED BY <1>0, <2>1, <2>3, <2>5 DEF ClosedIsClean
<1>5. CASE ScopeCloses(u)
  <2>1. /\ un[u].st = "between" /\ un[u].all = TRUE /\ Active(u) /\ frames = <<>>
        /\ un' = [un EXCEPT ![u] = Ended] /\ UNCHANGED <<frames, eff, chain>>
        /\ life' = IF u = Teardown THEN "down" ELSE IF un[u].refused THEN "withheld" ELSE "discarded"
    BY <1>0, <1>5 DEF ScopeCloses, Active, UnRecord
  <2>2. u \in Inits \/ u = Teardown
    BY <1>2, <2>1 DEF Unwinders, Chains
  <2>3. LifeOK'
    BY <1>0, <1>1, <1>2, <2>1, <2>2, LifeEnds
  <2>4. ~\E e \in Effects : eff[e].st = "held"
    <3>1. SUFFICES ASSUME NEW e \in Effects, eff[e].st = "held"
                   PROVE  FALSE
      OBVIOUS
    <3>2. PICK v \in Unwinders \ Ops : un[v].st = "inverse" /\ e \in un[v].todo
      BY <1>0, <2>1, <3>1 DEF HeldOK
    <3>3. Active(v) /\ u \in Unwinders \ Ops
      BY <1>1, <2>2, <3>2 DEF Active
    <3>4. u = v
      BY <1>0, <2>1, <3>3, OneUnwinds
    <3> QED BY <2>1, <3>2, <3>4
  <2> QED BY <2>1, <2>3, <2>4 DEF HeldOK, ClosedIsClean
<1>6. CASE FrameUnwound(u)
  <2>1. /\ un[u].st = "between" /\ un' = [un EXCEPT ![u] = Ended]
        /\ UNCHANGED <<frames, closed, eff, chain>>
        /\ life' = IF u \in Inits THEN IF un[u].refused THEN "withheld" ELSE "created" ELSE life
    BY <1>6 DEF FrameUnwound
  <2>2. LifeOK'
    BY <1>0, <2>1, LifeEnds
  <2>3. \A v \in Unwinders : un[v].st = "inverse" => un'[v] = un[v]
    BY <1>0, <2>1
  <2>4. HeldOK'
    BY <1>0, <2>1, <2>3, HeldStep
  <2> QED BY <1>0, <2>1, <2>2, <2>4 DEF ClosedIsClean
<1> QED BY <1>3, <1>4, <1>5, <1>6

\* The steps of a chain.
LEMMA ChainsClean ==
    ASSUME CleanInv, NEW c \in Chains, StepDone(c) \/ StepThrows(c) \/ MethodSettles(c)
    PROVE  LifeOK' /\ HeldOK' /\ ClosedIsClean'
<1>0. /\ OnceInv /\ LifeOK /\ HeldOK /\ ClosedIsClean /\ TypeOK
      /\ chain \in [Chains -> ChainRecord] /\ chain[c].at \in 0..Steps /\ eff \in EffType
  BY DEF CleanInv, OnceInv, TypeOK, ChainRecord, EffType
<1>1. UNCHANGED <<closed, un, life>> /\ chain[c].pc \in {"called", "body"}
  BY DEF StepDone, StepThrows, MethodSettles
<1>2. \A d \in Chains \ {c} : chain'[d] = chain[d]
  BY <1>0 DEF StepDone, StepThrows, MethodSettles, Boundary, Pc
<1>3. LifeOK'
  BY <1>0, <1>1, <1>2, LifeMoves
<1>4. CASE UNCHANGED <<frames, eff>>
  BY <1>0, <1>1, <1>3, <1>4, FramesKept DEF ClosedIsClean
<1>5. CASE ~closed /\ frames # <<>> /\ Record(<<c, chain[c].at + 1>>) /\ chain[c].pc = "body"
  <2>1. chain[c].at < Steps
    BY <1>0, <1>5 DEF OnceInv, Steady, BodyOK
  <2>2. <<c, chain[c].at + 1>> \in Effects
    BY <1>0, <2>1, ScopeConstants DEF Effects
  <2>3. HeldOK'
    BY <1>0, <1>1, <1>5, <2>2, RecordHeld
  <2> QED BY <1>1, <1>3, <1>5, <2>3 DEF ClosedIsClean
<1>6. CASE eff' = [eff EXCEPT ![<<c, chain[c].at + 1>>].st = "lost"] /\ UNCHANGED frames
  <2>1. \A e \in Effects : eff'[e].st = "held" => eff[e].st = "held"
    BY <1>0, <1>6 DEF EffType
  <2>2. HeldOK'
    BY <1>0, <1>1, <1>6, <2>1, HeldStep
  <2> QED BY <1>0, <1>1, <1>3, <2>1, <2>2 DEF ClosedIsClean
<1> QED BY <1>4, <1>5, <1>6 DEF StepDone, StepThrows, MethodSettles

\* The steps of the lifecycle that unwind nothing, and those of operations.
LEMMA LifecycleClean ==
    ASSUME ~Overlapping, CleanInv,
           \/ \E i \in Inits : InitBegins(i) \/ InitPublished(i) \/ InitUnpublished(i)
           \/ \E r \in Runs : RunBegins(r) \/ \E p \in BOOLEAN : RunSettles(r, p)
           \/ \E o \in Ops : Perform(o) \/ Register(o)
    PROVE  LifeOK' /\ HeldOK' /\ ClosedIsClean'
<1>0. /\ OnceInv /\ LifeOK /\ HeldOK /\ ClosedIsClean /\ TypeOK
      /\ chain \in [Chains -> ChainRecord] /\ eff \in EffType
  BY DEF CleanInv, OnceInv, TypeOK, ChainRecord, EffType
<1>1. /\ Inits \subseteq Chains /\ Runs \subseteq Chains /\ Ops \subseteq Chains
      /\ Inits \cap Runs = {} /\ Inits \cap Ops = {} /\ Runs \cap Ops = {}
  BY ScopeConstants DEF Chains
<1>2. ASSUME UNCHANGED <<eff, un, closed>>, frames' = frames \/ frames' = Append(frames, {})
      PROVE  HeldOK' /\ ClosedIsClean'
  BY <1>0, <1>2, FramesKept DEF ClosedIsClean
<1>3. ASSUME NEW i \in Inits, InitBegins(i)
      PROVE  LifeOK' /\ HeldOK' /\ ClosedIsClean'
  <2>1. /\ chain[i].pc = "idle" /\ life = "created" /\ life' = "initing" /\ un' = un
        /\ \A d \in Chains \ {i} : chain'[d] = chain[d]
    BY <1>0, <1>1, <1>3 DEF InitBegins, Idle, Pc
  <2>2. (\A j \in Inits : ~Busy(j)) /\ (\A r \in Runs : ~InFlight(r)) /\ ~Active(Teardown) /\ ~Active(i)
    BY <1>0, <2>1 DEF LifeOK
  <2>3. (\A j \in Inits : (Busy(j))' => j = i) /\ (\A r \in Runs : ~(InFlight(r))')
        /\ \A v \in Unwinders : (Active(v))' = Active(v)
    BY <1>1, <2>1, <2>2 DEF Busy, InFlight, Active
  <2>4. \A j \in Inits : (Active(j))' => chain'[j].pc = "failed"
    BY <1>0, <1>1, <2>1, <2>2 DEF LifeOK, Active
  <2>5. \A r \in Runs : (Active(r))' => chain'[r].pc = "failed" /\ ~un'[r].all
    BY <1>0, <1>1, <2>1 DEF LifeOK, Active
  <2>6. (\A o \in Ops : (Active(o))' => ~un'[o].all) /\ ~(Active(Teardown))'
    BY <1>0, <2>1, <2>2 DEF LifeOK, Active
  <2>7. LifeOK'
    BY <2>1, <2>3, <2>4, <2>5, <2>6 DEF LifeOK
  <2> QED BY <1>2, <1>3, <2>7 DEF InitBegins, OpenFrame
<1>4. ASSUME NEW i \in Inits, InitPublished(i) \/ InitUnpublished(i)
      PROVE  LifeOK' /\ HeldOK' /\ ClosedIsClean'
  <2>1. /\ chain[i].pc = "ok" /\ chain'[i].pc = "settled" /\ life' \in {"live", "created"}
        /\ \A d \in Chains \ {i} : chain'[d] = chain[d]
        /\ UNCHANGED <<frames, closed, eff, un>>
    BY <1>0, <1>1, <1>4 DEF InitPublished, InitUnpublished, ChainRecord
  <2>2. life = "initing" /\ (\A j \in Inits : Busy(j) => j = i) /\ (\A r \in Runs : ~InFlight(r))
        /\ ~Active(Teardown) /\ ~Active(i)
    <3>1. Busy(i) /\ ~Active(i)
      BY <1>0, <2>1 DEF Busy, LifeOK
    <3> QED BY <1>0, <3>1 DEF LifeOK
  <2>3. (\A j \in Inits : ~(Busy(j))') /\ (\A r \in Runs : ~(InFlight(r))')
    BY <1>1, <2>1, <2>2 DEF Busy, InFlight
  <2>4. \A j \in Inits : (Active(j))' => chain'[j].pc = "failed"
    BY <1>0, <1>1, <2>1, <2>2 DEF LifeOK, Active
  <2>5. \A r \in Runs : (Active(r))' => chain'[r].pc = "failed" /\ ~un'[r].all
    BY <1>0, <1>1, <2>1 DEF LifeOK, Active
  <2>6. (\A o \in Ops : (Active(o))' => ~un'[o].all) /\ ~(Active(Teardown))'
    BY <1>0, <2>1, <2>2 DEF LifeOK, Active
  <2>7. LifeOK'
    BY <2>3, <2>4, <2>5, <2>6 DEF LifeOK
  <2> QED BY <1>2, <2>1, <2>7
<1>5. ASSUME NEW r \in Runs, RunBegins(r)
      PROVE  LifeOK' /\ HeldOK' /\ ClosedIsClean'
  <2>1. /\ chain[r].pc = "idle" /\ life = "live" /\ life' = life /\ un' = un
        /\ (\A q \in Runs : ~InFlight(q))
        /\ \A d \in Chains \ {r} : chain'[d] = chain[d]
    BY <1>0, <1>1, <1>5 DEF RunBegins, Idle, Pc
  <2>2. (\A j \in Inits : ~Busy(j)) /\ ~Active(Teardown) /\ ~Active(r)
    BY <1>0, <2>1 DEF LifeOK
  <2>3. (\A j \in Inits : ~(Busy(j))') /\ (\A q \in Runs : (InFlight(q))' => q = r)
    BY <1>1, <2>1, <2>2 DEF Busy, InFlight
  <2>4. \A j \in Inits : (Active(j))' => chain'[j].pc = "failed"
    BY <1>0, <1>1, <2>1 DEF LifeOK, Active
  <2>5. \A q \in Runs : (Active(q))' => chain'[q].pc = "failed" /\ ~un'[q].all
    BY <1>0, <1>1, <2>1, <2>2 DEF LifeOK, Active
  <2>6. (\A o \in Ops : (Active(o))' => ~un'[o].all) /\ ~(Active(Teardown))'
    BY <1>0, <2>1, <2>2 DEF LifeOK, Active
  <2>7. LifeOK'
    BY <2>1, <2>3, <2>4, <2>5, <2>6 DEF LifeOK
  <2> QED BY <1>2, <1>5, <2>7 DEF RunBegins, OpenFrame
<1>6. ASSUME NEW r \in Runs, NEW p \in BOOLEAN, RunSettles(r, p)
      PROVE  LifeOK' /\ HeldOK' /\ ClosedIsClean'
  <2>1. /\ r \in Chains /\ r \notin Inits /\ chain[r].pc = "ok"
        /\ UNCHANGED <<frames, closed, eff, un, life>>
        /\ \A d \in Chains \ {r} : chain'[d] = chain[d]
    BY <1>0, <1>1, <1>6 DEF RunSettles, Pc
  <2>2. LifeOK'
    BY <1>0, <2>1, LifeMoves
  <2> QED BY <1>2, <2>1, <2>2
<1>7. ASSUME NEW o \in Ops, Perform(o) \/ Register(o)
      PROVE  LifeOK' /\ HeldOK' /\ ClosedIsClean'
  <2>1. /\ o \in Chains /\ o \notin Inits /\ o \notin Runs /\ UNCHANGED <<closed, un, life>>
        /\ \A d \in Chains \ {o} : chain'[d] = chain[d]
    BY <1>0, <1>1, <1>7 DEF Perform, Register, Boundary, Pc
  <2>2. LifeOK'
    BY <1>0, <2>1, LifeMoves
  <2>3. CASE UNCHANGED <<frames, eff>>
    BY <1>2, <2>1, <2>2, <2>3
  <2>4. CASE ~closed /\ frames # <<>> /\ Record(<<o, 1>>)
    <3>1. <<o, 1>> \in Effects
      BY <2>1, ScopeConstants DEF Effects
    <3>2. HeldOK'
      BY <1>0, <2>1, <2>4, <3>1, RecordHeld
    <3> QED BY <2>1, <2>2, <2>4, <3>2 DEF ClosedIsClean
  <2> QED BY <1>7, <2>3, <2>4 DEF Perform, Register
<1> QED BY <1>3, <1>4, <1>5, <1>6, <1>7

\* The steps that start unwinding.
LEMMA RecoveriesClean ==
    ASSUME ~Overlapping, CleanInv,
           \/ \E i \in Inits, d \in BOOLEAN : InitRecovers(i, d)
           \/ \E r \in Runs : RunRecovers(r)
           \/ \E o \in Ops : Dispose(o)
           \/ TeardownBegins
    PROVE  LifeOK' /\ HeldOK' /\ ClosedIsClean'
<1>0. OnceInv /\ LifeOK /\ HeldOK /\ ClosedIsClean /\ TRUE \in BOOLEAN /\ FALSE \in BOOLEAN
  BY DEF CleanInv
<1>1. /\ Inits \subseteq Unwinders \ Ops /\ Runs \subseteq Unwinders \ Ops /\ Ops \subseteq Unwinders
      /\ Inits \cap Runs = {} /\ Inits \cap Ops = {} /\ Runs \cap Ops = {}
      /\ Teardown \in Unwinders \ Ops /\ Teardown \notin Inits /\ Teardown \notin Runs
  BY ScopeConstants DEF Chains, Unwinders
<1>2. ASSUME NEW u \in Unwinders \ Ops, NEW all \in BOOLEAN, UnwindFrame(u, all, FALSE),
             un[u].st = "off" \/ ~Active(u), UNCHANGED <<closed, chain>>
      PROVE  RunShape(u, all) /\ HeldOK' /\ ClosedIsClean'
  <2>1. un[u].st # "inverse"
    BY <1>2 DEF Active
  <2>2. RunShape(u, all)
    BY <1>0, <1>2, UnwindFrameOnce, ZenonT(60)
  <2>3. HeldOK' /\ \A e \in Effects : eff'[e].st = "held" => eff[e].st = "held"
    BY <1>0, <1>2, <2>1, UnwindFrameHeld, ZenonT(60)
  <2> QED BY <1>0, <1>2, <2>2, <2>3 DEF ClosedIsClean
<1>3. ASSUME NEW i \in Inits, NEW d \in BOOLEAN, InitRecovers(i, d)
      PROVE  LifeOK' /\ HeldOK' /\ ClosedIsClean'
  <2> DEFINE all == ~d
  <2>1. all \in BOOLEAN /\ UnwindFrame(i, all, FALSE)
    BY <1>3 DEF InitRecovers
  <2> HIDE DEF all
  <2>2. chain[i].pc = "failed" /\ un[i].st = "off" /\ UNCHANGED <<closed, chain, life>>
    BY <1>3 DEF InitRecovers
  <2>3. RunShape(i, all) /\ HeldOK' /\ ClosedIsClean'
    BY <1>1, <1>2, <2>1, <2>2, ZenonT(60)
  <2>4. LifeOK'
    BY <1>0, <1>1, <2>1, <2>2, <2>3, LifeRun
  <2> QED BY <2>3, <2>4
<1>4. ASSUME NEW r \in Runs, RunRecovers(r)
      PROVE  LifeOK' /\ HeldOK' /\ ClosedIsClean'
  <2>1. /\ UnwindFrame(r, FALSE, FALSE) /\ chain[r].pc = "failed" /\ un[r].st = "off"
        /\ UNCHANGED <<closed, chain, life>>
    BY <1>4 DEF RunRecovers
  <2>2. RunShape(r, FALSE) /\ HeldOK' /\ ClosedIsClean'
    BY <1>0, <1>1, <1>2, <2>1, ZenonT(60)
  <2>3. LifeOK'
    BY <1>0, <1>1, <2>1, <2>2, LifeRun
  <2> QED BY <2>2, <2>3
<1>5. ASSUME NEW o \in Ops, Dispose(o)
      PROVE  LifeOK' /\ HeldOK' /\ ClosedIsClean'
  <2>1. un[o].st = "off" /\ UNCHANGED <<closed, chain, life>>
    BY <1>5 DEF Dispose
  <2>2. RunShape(o, FALSE)
    BY <1>0, <1>5, DisposeOnce
  <2>3. HeldOK' /\ \A e \in Effects : eff'[e].st = "held" => eff[e].st = "held"
    BY <1>0, <1>5, DisposeHeld
  <2>4. LifeOK'
    BY <1>0, <1>1, <2>1, <2>2, LifeRun
  <2> QED BY <1>0, <2>1, <2>3, <2>4 DEF ClosedIsClean
<1>6. CASE TeardownBegins
  <2>1. /\ life = "live" /\ life' = "tearing" /\ UNCHANGED <<closed, chain>>
        /\ UnwindFrame(Teardown, TRUE, FALSE) /\ \A r \in Runs : ~InFlight(r)
    BY <1>6 DEF TeardownBegins
  <2>2. ~Active(Teardown)
    BY <1>0, <2>1 DEF LifeOK
  <2>3. RunShape(Teardown, TRUE) /\ HeldOK' /\ ClosedIsClean'
    BY <1>0, <1>1, <1>2, <2>1, <2>2, ZenonT(60)
  <2>4. LifeOK'
    BY <1>0, <1>1, <2>1, <2>3, LifeRun
  <2> QED BY <2>3, <2>4
<1> QED BY <1>3, <1>4, <1>5, <1>6

LEMMA CleanInit == Init => CleanInv
<1> SUFFICES ASSUME Init PROVE CleanInv
  OBVIOUS
<1>1. LifeOK
  BY ScopeConstants DEF Init, LifeOK, Active, Busy, InFlight, Idle, Off, Chains, Unwinders
<1>2. HeldOK /\ ClosedIsClean
  BY DEF Init, HeldOK, ClosedIsClean
<1> QED BY <1>1, <1>2, OnceInit DEF CleanInv

LEMMA CleanStep ==
    ASSUME ~Overlapping, CleanInv, [Next]_vars
    PROVE  CleanInv'
<1>0. OnceInv'
  BY OnceStep DEF CleanInv
<1>1. CASE UNCHANGED vars
  <2>1. LifeOK' /\ HeldOK' /\ ClosedIsClean'
    BY <1>1 DEF vars, CleanInv, LifeOK, HeldOK, ClosedIsClean, Active, Busy, InFlight
  <2> QED BY <1>0, <2>1 DEF CleanInv
<1>2. CASE Settles
  BY <1>0, <1>2, UnwindsClean, ChainsClean, LifecycleClean, RecoveriesClean DEF Settles, CleanInv
<1>3. CASE Next /\ ~Settles
  BY <1>0, <1>3, LifecycleClean, RecoveriesClean DEF Next, CleanInv
<1> QED BY <1>1, <1>2, <1>3

\* A scope that has closed holds nothing: unwindAll looks for an open frame
\* again after every await, so what was recorded meanwhile is undone too.  It
\* takes that no run() is under way when the resource is torn down.
THEOREM ClosedClean ==
    ASSUME ~Overlapping
    PROVE  Spec => []ClosedIsClean
<1>1. CleanInv /\ [Next]_vars => CleanInv'
  BY CleanStep
<1>2. CleanInv => ClosedIsClean
  BY DEF CleanInv
<1> QED BY <1>1, <1>2, CleanInit, PTL DEF Spec

-----------------------------------------------------------------------------
(* The order of unwinding, and what init() built. *)

\* A frame holds what waits, and what waits knows its frame.
FrameOK ==
    \A i \in 1..Len(frames) : \A e \in frames[i] : eff[e].st = "held" /\ eff[e].depth = i

\* Whoever unwinds frames has the entries of the frame on top of the open ones.
TodoOK ==
    \A u \in Unwinders \ Ops : un[u].st = "inverse" =>
        \A e \in un[u].todo : eff[e].st \notin {"none", "lost"} /\ eff[e].depth = Len(frames) + 1

\* Unless a disposal interferes, the flag is up while an inverse is awaited.
FlagOK ==
    (\A o \in Ops : un[o].st = "off") =>
        \A u \in Unwinders \ Ops : un[u].st = "inverse" => unwinding

OrderInv == CleanInv /\ FrameOK /\ TodoOK /\ FlagOK

\* An attempt before its recovery, and a recovery of its frame alone.
Trying(i) == Busy(i) /\ ~Active(i)
Deferring(i) == Active(i) /\ ~un[i].all

\* How many frames are open: the create frame, the one of init(), those of runs.
StackOK ==
    /\ life = "created" => Len(frames) = 1
    /\ \A i \in Inits : /\ Trying(i) => Len(frames) = 2
                        /\ Deferring(i) => Len(frames) = 1
    /\ life = "live" => Len(frames) >= 2
    /\ \A r \in Runs : InFlight(r) /\ un[r].st = "off" => Len(frames) >= 3

\* Where init() recorded, and what a disposal has to run.
PlaceOK ==
    /\ \A i \in Inits, k \in 1..Steps : eff[<<i, k>>].st \notin {"none", "lost"} => eff[<<i, k>>].depth = 2
    /\ \A o \in Ops : un[o].st = "inverse" =>
          /\ un[o].now \in {<<o, k>> : k \in 1..Steps}
          /\ un[o].todo \subseteq {<<o, k>> : k \in 1..Steps}

\* What the attempt that is under way, or that made the resource, has done stays.
MineOK ==
    \A i \in Inits : Trying(i) \/ (chain[i].pc = "settled" /\ life = "live") =>
        \A k \in 1..chain[i].at : eff[<<i, k>>].st \in {"held", "none"}

\* A deferred attempt is undone entry by entry.
RecoverOK ==
    \A i \in Inits : Deferring(i) => \A k \in 1..Steps :
        /\ eff[<<i, k>>].st = "held" => un[i].st = "inverse" /\ <<i, k>> \in un[i].todo
        /\ eff[<<i, k>>].st = "running" => un[i].st = "inverse" /\ <<i, k>> = un[i].now
        /\ eff[<<i, k>>].st = "refused" => un[i].refused

Gone(i) == \A k \in 1..Steps : eff[<<i, k>>].st \notin {"held", "running", "refused"}

\* Before the resource is live, no recovered attempt has left anything.
PastOK ==
    /\ life \in {"created", "initing"} => \A i \in Inits : un[i].st = "ended" => Gone(i)
    /\ \A i \in Inits : /\ chain[i].pc = "settled" => life \in {"live", "tearing", "down"}
                        /\ un[i].st # "off" => chain[i].pc = "failed"

\* The scope of an attempt under way is open, so that what it does is recorded.
OpenOK ==
    /\ closed => life \in {"down", "discarded", "withheld"}
    /\ \A i \in Inits, k \in 1..Steps : eff[<<i, k>>].st # "lost"

Whole == StackOK /\ PlaceOK /\ MineOK /\ RecoverOK /\ PastOK /\ OpenOK

WholeInv == OrderInv /\ Whole
-----------------------------------------------------------------------------
(* The kinds of steps there are. *)

\* RunInverses starts the newest entry of its list, or has nothing to start.
Starts(u, e, list, flag, stack, state) ==
    /\ e \in Undisposed(list, state) /\ IsNewest(e, Undisposed(list, state))
    /\ un'[u].st = "inverse" /\ un'[u].now = e /\ un'[u].todo = Undisposed(list, state) \ {e}
    /\ eff'[e].st = "running" /\ eff'[e].depth = state[e].depth
    /\ \A f \in Effects \ {e} : eff'[f] = state[f]
    /\ unwinding' = flag
    /\ Len(frames') = Len(stack) /\ \A i \in 1..Len(stack) : frames'[i] = stack[i] \ {e}

Finishes(u, list, was, stack, state) ==
    /\ Undisposed(list, state) = {}
    /\ un'[u].st = "between" /\ un'[u].todo = {}
    /\ eff' = state /\ frames' = stack /\ unwinding' = was

RunsOn(u, list, flag, was, all, refused, stack, state) ==
    /\ \A v \in Unwinders \ {u} : un'[v] = un[v]
    /\ un'[u].all = all /\ un'[u].refused = refused
    /\ \/ \E e \in Effects : Starts(u, e, list, flag, stack, state)
       \/ Finishes(u, list, was, stack, state)

LEMMA RunDoes ==
    ASSUME TypeOK, NEW u \in Unwinders, NEW list \in SUBSET Effects,
           NEW flag \in BOOLEAN, NEW was \in BOOLEAN, NEW all \in BOOLEAN, NEW refused \in BOOLEAN,
           NEW stack \in Seq(SUBSET Effects), NEW state \in EffType,
           RunInverses(u, list, flag, was, all, refused, stack, state)
    PROVE  RunsOn(u, list, flag, was, all, refused, stack, state)
<1> DEFINE left == Undisposed(list, state)
<1>0. left \subseteq Effects /\ un \in [Unwinders -> UnRecord] /\ Len(stack) \in Nat
  BY DEF Undisposed, TypeOK, UnRecord
<1>1. ASSUME NEW e \in left, IsNewest(e, left),
             eff' = [state EXCEPT ![e] = [st |-> "running", depth |-> @.depth,
                                              order |-> @.order, runs |-> @.runs + 1]],
             frames' = [i \in 1..Len(stack) |-> stack[i] \ {e}],
             unwinding' = flag,
             un' = [un EXCEPT ![u] = [st |-> "inverse", was |-> was, all |-> all,
                                      refused |-> refused, now |-> e, todo |-> left \ {e}]]
      PROVE  /\ \A v \in Unwinders \ {u} : un'[v] = un[v]
             /\ un'[u].all = all /\ un'[u].refused = refused
             /\ Starts(u, e, list, flag, stack, state)
  <2>1. /\ un'[u].st = "inverse" /\ un'[u].now = e /\ un'[u].todo = left \ {e}
        /\ un'[u].all = all /\ un'[u].refused = refused
        /\ \A v \in Unwinders \ {u} : un'[v] = un[v]
    BY <1>0, <1>1
  <2>2. eff'[e].st = "running" /\ eff'[e].depth = state[e].depth
        /\ \A f \in Effects \ {e} : eff'[f] = state[f]
    BY <1>0, <1>1 DEF EffType
  <2>3. Len(frames') = Len(stack) /\ \A i \in 1..Len(stack) : frames'[i] = stack[i] \ {e}
    BY <1>0, <1>1
  <2> QED BY <1>1, <2>1, <2>2, <2>3 DEF Starts
<1>2. ASSUME left = {}, eff' = state, frames' = stack, unwinding' = was,
             un' = [un EXCEPT ![u] = [st |-> "between", was |-> was, all |-> all,
                                      refused |-> refused, now |-> None, todo |-> {}]]
      PROVE  /\ \A v \in Unwinders \ {u} : un'[v] = un[v]
             /\ un'[u].all = all /\ un'[u].refused = refused
             /\ Finishes(u, list, was, stack, state)
  <2>1. /\ un'[u].st = "between" /\ un'[u].todo = {} /\ un'[u].all = all /\ un'[u].refused = refused
        /\ \A v \in Unwinders \ {u} : un'[v] = un[v]
    BY <1>0, <1>2
  <2> QED BY <1>2, <2>1 DEF Finishes
<1> QED BY <1>0, <1>1, <1>2 DEF RunInverses, RunsOn

\* An awaited inverse has settled, and nothing else.
Settling(u, state) ==
    /\ state \in EffType
    /\ \A e \in Effects \ {un[u].now} : state[e] = eff[e]
    /\ un[u].now \in Effects /\ eff[un[u].now].st = "running"
    /\ state[un[u].now].depth = eff[un[u].now].depth
    /\ state[un[u].now].order = eff[un[u].now].order

\* What the settling of an inverse does.
Awaited(u) ==
    /\ un[u].st = "inverse"
    /\ \A v \in Unwinders \ {u} : un'[v] = un[v]
    /\ un'[u].all = un[u].all /\ (un[u].refused => un'[u].refused)
    /\ \E state \in EffType :
         /\ Settling(u, state)
         /\ \/ state[un[u].now].st = "undone"
            \/ state[un[u].now].st = "refused" /\ un'[u].refused
         /\ \/ \E e \in Effects : Starts(u, e, un[u].todo, unwinding, frames, state)
            \/ Finishes(u, un[u].todo, un[u].was, frames, state)

LEMMA InverseSettlesIs ==
    ASSUME OnceInv, NEW u \in Unwinders, NEW ok \in BOOLEAN, InverseSettles(u, ok)
    PROVE  Awaited(u)
<1> DEFINE state == [eff EXCEPT ![un[u].now].st = IF ok THEN "undone" ELSE "refused"]
           refused == un[u].refused \/ ~ok
<1>0. eff \in EffType /\ un \in [Unwinders -> UnRecord] /\ un[u] \in UnRecord /\ TypeOK
  BY DEF OnceInv, TypeOK, EffType, UnRecord
<1>1. un[u].st = "inverse" /\ un[u].now \in Effects /\ eff[un[u].now].st = "running"
  BY <1>0 DEF InverseSettles, OnceInv, Steady, NowOK
<1>2. state \in EffType
  BY <1>0, <1>1 DEF EffType, EffectStates
<1>3. /\ \A e \in Effects \ {un[u].now} : state[e] = eff[e]
      /\ state[un[u].now].depth = eff[un[u].now].depth
      /\ state[un[u].now].order = eff[un[u].now].order
      /\ state[un[u].now].st = IF ok THEN "undone" ELSE "refused"
  BY <1>0, <1>1 DEF EffType
<1>4. /\ un[u].todo \in SUBSET Effects /\ unwinding \in BOOLEAN /\ un[u].was \in BOOLEAN
      /\ un[u].all \in BOOLEAN /\ refused \in BOOLEAN /\ frames \in Seq(SUBSET Effects)
      /\ TypeOK
  BY <1>0 DEF OnceInv, TypeOK, UnRecord
<1>5. RunInverses(u, un[u].todo, unwinding, un[u].was, un[u].all, refused, frames, state)
  BY DEF InverseSettles
<1>6. (un[u].refused => refused) /\ (~ok => refused)
  OBVIOUS
<1> HIDE DEF state, refused
<1>r. RunsOn(u, un[u].todo, unwinding, un[u].was, un[u].all, refused, frames, state)
  <2> DEFINE list == un[u].todo
             was == un[u].was
             all == un[u].all
  <2>1. /\ list \in SUBSET Effects /\ unwinding \in BOOLEAN /\ was \in BOOLEAN
        /\ all \in BOOLEAN /\ refused \in BOOLEAN /\ frames \in Seq(SUBSET Effects)
        /\ TypeOK /\ state \in EffType
        /\ RunInverses(u, list, unwinding, was, all, refused, frames, state)
    BY <1>2, <1>4, <1>5
  <2> HIDE DEF list, was, all
  <2>2. RunsOn(u, list, unwinding, was, all, refused, frames, state)
    BY <2>1, RunDoes
  <2> QED BY <2>2 DEF list, was, all
<1>7. /\ \A v \in Unwinders \ {u} : un'[v] = un[v]
      /\ un'[u].all = un[u].all /\ un'[u].refused = refused
      /\ \/ \E e \in Effects : Starts(u, e, un[u].todo, unwinding, frames, state)
         \/ Finishes(u, un[u].todo, un[u].was, frames, state)
  BY <1>r DEF RunsOn
<1>8. Settling(u, state)
  BY <1>1, <1>2, <1>3 DEF Settling
<1>9. state[un[u].now].st = "undone" \/ (state[un[u].now].st = "refused" /\ un'[u].refused)
  BY <1>3, <1>6, <1>7
<1> QED BY <1>1, <1>2, <1>6, <1>7, <1>8, <1>9 DEF Awaited

\* The innermost frame is popped, and its inverses are run.
Pops(u, all) ==
    /\ frames # <<>> /\ un[u].st # "inverse"
    /\ \A v \in Unwinders \ {u} : un'[v] = un[v]
    /\ un'[u].all = all
    /\ \E rest \in Seq(SUBSET Effects) :
         /\ Len(rest) = Len(frames) - 1 /\ \A i \in 1..Len(rest) : rest[i] = frames[i]
         /\ \/ \E e \in Effects : Starts(u, e, frames[Len(frames)], TRUE, rest, eff)
            \/ Finishes(u, frames[Len(frames)], unwinding, rest, eff)

\* Nothing is open, so nothing is run.
PopsNothing(u, all) ==
    /\ frames = <<>> /\ un[u].st # "inverse"
    /\ \A v \in Unwinders \ {u} : un'[v] = un[v]
    /\ un'[u].all = all /\ un'[u].st = "between" /\ un'[u].todo = {}
    /\ UNCHANGED <<frames, eff, unwinding>>

LEMMA UnwindFrameIs ==
    ASSUME OnceInv, NEW u \in Unwinders, un[u].st # "inverse",
           NEW all \in BOOLEAN, NEW refused \in BOOLEAN, UnwindFrame(u, all, refused)
    PROVE  Pops(u, all) \/ PopsNothing(u, all)
<1>0. /\ frames \in Seq(SUBSET Effects) /\ Len(frames) \in Nat /\ eff \in EffType
      /\ unwinding \in BOOLEAN /\ TRUE \in BOOLEAN /\ TypeOK
  BY DEF OnceInv, TypeOK, EffType
<1> DEFINE top == frames[Len(frames)]
           rest == SubSeq(frames, 1, Len(frames) - 1)
<1>1. CASE frames # <<>> /\ RunInverses(u, top, TRUE, unwinding, all, refused, rest, eff)
  <2>1. /\ top \in SUBSET Effects /\ rest \in Seq(SUBSET Effects) /\ Len(rest) = Len(frames) - 1
        /\ \A i \in 1..Len(rest) : rest[i] = frames[i]
    <3>1. frames # <<>> /\ Len(frames) \in 1..Len(frames) /\ Len(frames) - 1 \in Nat
      BY <1>0, <1>1
    <3>2. top \in SUBSET Effects
      BY <1>0, <3>1
    <3>3. \A n \in Nat : n = Len(frames) - 1 =>
              /\ SubSeq(frames, 1, n) \in Seq(SUBSET Effects) /\ Len(SubSeq(frames, 1, n)) = n
              /\ \A i \in 1..n : SubSeq(frames, 1, n)[i] = frames[i]
      BY <1>0, SubSeqKeeps
    <3> QED BY <3>1, <3>2, <3>3
  <2>2. top = frames[Len(frames)]
    OBVIOUS
  <2> HIDE DEF top, rest
  <2>r. RunsOn(u, top, TRUE, unwinding, all, refused, rest, eff)
    BY <1>0, <1>1, <2>1, RunDoes, ZenonT(60)
  <2>3. /\ \A v \in Unwinders \ {u} : un'[v] = un[v]
        /\ un'[u].all = all
        /\ \/ \E e \in Effects : Starts(u, e, top, TRUE, rest, eff)
           \/ Finishes(u, top, unwinding, rest, eff)
    BY <2>r DEF RunsOn
  <2> QED BY <1>1, <2>1, <2>2, <2>3 DEF Pops
<1>2. CASE frames = <<>> /\ RunInverses(u, {}, TRUE, unwinding, all, refused, <<>>, eff)
  <2>1. {} \in SUBSET Effects /\ <<>> \in Seq(SUBSET Effects)
    OBVIOUS
  <2>r. RunsOn(u, {}, TRUE, unwinding, all, refused, <<>>, eff)
    BY <1>0, <1>2, <2>1, RunDoes, ZenonT(60)
  <2>2. /\ \A v \in Unwinders \ {u} : un'[v] = un[v]
        /\ un'[u].all = all
        /\ \/ \E e \in Effects : Starts(u, e, {}, TRUE, <<>>, eff)
           \/ Finishes(u, {}, unwinding, <<>>, eff)
    BY <2>r DEF RunsOn
  <2>3. ~\E e \in Effects : Starts(u, e, {}, TRUE, <<>>, eff)
    BY DEF Starts, Undisposed
  <2> QED BY <1>2, <2>2, <2>3 DEF Finishes, PopsNothing
<1> QED BY <1>1, <1>2 DEF UnwindFrame

\* An operation starts to undo what it did.
Disposes(o) ==
    /\ un[o].st = "off" /\ un'[o].st # "off"
    /\ \A v \in Unwinders \ {o} : un'[v] = un[v]
    /\ \E list \in SUBSET {<<o, k>> : k \in 1..Steps} :
         \/ \E e \in Effects : Starts(o, e, list, TRUE, frames, eff)
         \/ Finishes(o, list, unwinding, frames, eff)

LEMMA DisposeIs ==
    ASSUME OnceInv, NEW o \in Ops, Dispose(o)
    PROVE  Disposes(o)
<1>1. o \in Unwinders /\ o \in Chains
  BY DEF Unwinders, Chains
<1>2. /\ unwinding \in BOOLEAN /\ chain[o].at \in 0..Steps /\ TRUE \in BOOLEAN /\ FALSE \in BOOLEAN
      /\ eff \in EffType /\ frames \in Seq(SUBSET Effects) /\ TypeOK
  BY <1>1 DEF OnceInv, TypeOK, EffType
<1> DEFINE list == {<<o, k>> : k \in 1..chain[o].at}
<1>3. list \in SUBSET Effects /\ list \in SUBSET {<<o, k>> : k \in 1..Steps}
  BY <1>1, <1>2, ScopeConstants DEF Effects
<1>4. un[o].st = "off" /\ RunInverses(o, list, TRUE, unwinding, FALSE, FALSE, frames, eff)
  BY DEF Dispose
<1> HIDE DEF list
<1>r. RunsOn(o, list, TRUE, unwinding, FALSE, FALSE, frames, eff)
  BY <1>1, <1>2, <1>3, <1>4, RunDoes, ZenonT(60)
<1>5. /\ \A v \in Unwinders \ {o} : un'[v] = un[v]
      /\ \/ \E e \in Effects : Starts(o, e, list, TRUE, frames, eff)
         \/ Finishes(o, list, unwinding, frames, eff)
  BY <1>r DEF RunsOn
<1>6. un'[o].st # "off"
  BY <1>5 DEF Starts, Finishes
<1> QED BY <1>3, <1>4, <1>5, <1>6 DEF Disposes

\* Whoever has the resource in hand is the only one to unwind its frames.
InHand(u) ==
    /\ u \in Inits => Busy(u)
    /\ u \in Runs => InFlight(u)
    /\ u = Teardown => life = "tearing" \/ (life = "live" /\ \A r \in Runs : ~InFlight(r))

LEMMA OnlyOne ==
    ASSUME LifeOK, NEW u \in Unwinders \ Ops, InHand(u), NEW v \in Unwinders \ Ops, Active(v)
    PROVE  v = u
<1>1. /\ v \in Inits => Busy(v) /\ life = "initing"
      /\ v \in Runs => InFlight(v) /\ life = "live"
      /\ v = Teardown => life = "tearing"
  BY DEF LifeOK, Active, Busy, InFlight
<1>2. /\ u \in Inits => Busy(u) /\ life = "initing"
      /\ u \in Runs => InFlight(u) /\ life = "live"
      /\ u = Teardown => life = "tearing" \/ (life = "live" /\ \A r \in Runs : ~InFlight(r))
  BY DEF LifeOK, InHand
<1>3. (u \in Inits \/ u \in Runs \/ u = Teardown) /\ (v \in Inits \/ v \in Runs \/ v = Teardown)
  BY DEF Unwinders, Chains
<1> QED BY <1>1, <1>2, <1>3 DEF LifeOK

\* Whoever unwinds has the resource in hand.
LEMMA ActiveInHand ==
    ASSUME LifeOK, NEW u \in Unwinders \ Ops, Active(u)
    PROVE  InHand(u)
BY DEF LifeOK, InHand, Active, Busy, InFlight

\* Nobody is awaiting an inverse of a frame.
NoneAwaits == \A v \in Unwinders \ Ops : un[v].st # "inverse"

Ends(u) ==
    /\ un[u].st = "between" /\ un'[u].st = "ended"
    /\ \A v \in Unwinders \ {u} : un'[v] = un[v]
    /\ UNCHANGED <<frames, eff, unwinding>>

Records(e) ==
    /\ eff[e].st \in {"none", "lost"} /\ frames # <<>> /\ Record(e)
    /\ UNCHANGED <<un, unwinding>>

Loses(e) ==
    /\ eff[e].st \in {"none", "lost"}
    /\ eff' = [eff EXCEPT ![e].st = "lost"]
    /\ UNCHANGED <<frames, un, unwinding>>

Opens ==
    /\ frames' = Append(frames, {}) /\ NoneAwaits
    /\ UNCHANGED <<eff, un, unwinding>>

Stays == UNCHANGED <<frames, eff, un, unwinding>>

Step ==
    \/ \E u \in Unwinders : Awaited(u) \/ Ends(u)
    \/ \E u \in Unwinders \ Ops, all \in BOOLEAN : NoneAwaits /\ (Pops(u, all) \/ PopsNothing(u, all))
    \/ \E o \in Ops : Disposes(o)
    \/ \E e \in Effects : Records(e) \/ Loses(e)
    \/ Opens
    \/ Stays

\* The steps of whoever unwinds.
LEMMA UnwindsAre ==
    ASSUME CleanInv, NEW u \in Unwinders,
           \/ \E ok \in BOOLEAN : InverseSettles(u, ok)
           \/ NextFrame(u) \/ ScopeCloses(u) \/ FrameUnwound(u)
    PROVE  Step
<1>0. OnceInv /\ LifeOK /\ un \in [Unwinders -> UnRecord] /\ un[u] \in UnRecord /\ Ended.st = "ended"
  BY DEF CleanInv, OnceInv, TypeOK, UnRecord, Ended, Off
<1>1. ASSUME NEW ok \in BOOLEAN, InverseSettles(u, ok) PROVE Step
  BY <1>0, <1>1, InverseSettlesIs DEF Step
<1>2. CASE ScopeCloses(u) \/ FrameUnwound(u)
  <2>1. /\ un[u].st = "between" /\ un' = [un EXCEPT ![u] = Ended]
        /\ UNCHANGED <<frames, eff, unwinding>>
    BY <1>2 DEF ScopeCloses, FrameUnwound
  <2>2. Ends(u)
    BY <1>0, <2>1 DEF Ends
  <2> QED BY <2>2 DEF Step
<1>3. CASE NextFrame(u)
  <2>1. /\ un[u].st = "between" /\ un[u].all /\ un[u].refused \in BOOLEAN /\ TRUE \in BOOLEAN
        /\ UnwindFrame(u, TRUE, un[u].refused)
    BY <1>0, <1>3 DEF NextFrame, UnRecord
  <2>2. u \in Unwinders \ Ops /\ Active(u)
    BY <1>0, <2>1 DEF LifeOK, Active
  <2>3. NoneAwaits
    BY <1>0, <2>1, <2>2, ActiveInHand, OnlyOne DEF NoneAwaits, Active
  <2>4. Pops(u, TRUE) \/ PopsNothing(u, TRUE)
    <3>1. un[u].st # "inverse"
      BY <2>1
    <3> QED BY <1>0, <2>1, <3>1, UnwindFrameIs, ZenonT(60)
  <2> QED BY <2>1, <2>2, <2>3, <2>4 DEF Step
<1> QED BY <1>1, <1>2, <1>3

\* A step of a chain.
LEMMA ChainsAre ==
    ASSUME CleanInv, NEW c \in Chains, StepDone(c) \/ StepThrows(c) \/ MethodSettles(c)
    PROVE  Step
<1>0. OnceInv /\ chain[c].at \in 0..Steps /\ BodyOK /\ FreshOK
  BY DEF CleanInv, OnceInv, Steady, TypeOK
<1> DEFINE e == <<c, chain[c].at + 1>>
<1>1. CASE UNCHANGED <<frames, eff, un, unwinding>>
  BY <1>1 DEF Step, Stays
<1>2. CASE chain[c].pc = "body"
  <2>1. chain[c].at < Steps
    BY <1>0, <1>2 DEF BodyOK
  <2>2. chain[c].at + 1 \in 1..Steps /\ chain[c].at + 1 > chain[c].at
    BY <1>0, <2>1, ScopeConstants
  <2>3. e \in Effects
    BY <2>2 DEF Effects
  <2>4. eff[e].st \in {"none", "lost"}
    BY <1>0, <2>2 DEF FreshOK
  <2>5. CASE StepDone(c)
    <3>1. UNCHANGED <<un, unwinding>>
      BY <2>5 DEF StepDone
    <3>2. \/ frames # <<>> /\ Record(e)
          \/ eff' = [eff EXCEPT ![e].st = "lost"] /\ frames' = frames
          \/ UNCHANGED <<frames, eff>>
      BY <2>5 DEF StepDone
    <3> HIDE DEF e
    <3>3. Records(e) \/ Loses(e) \/ Stays
      BY <2>4, <3>1, <3>2 DEF Records, Loses, Stays
    <3> QED BY <2>3, <3>3 DEF Step
  <2>6. CASE StepThrows(c) \/ MethodSettles(c)
    BY <1>1, <2>6 DEF StepThrows, MethodSettles
  <2> QED BY <2>5, <2>6
<1>3. CASE chain[c].pc # "body"
  BY <1>1, <1>3 DEF StepDone, StepThrows, MethodSettles
<1> QED BY <1>2, <1>3

\* The lifecycle and the operations.
LEMMA LifecycleIs ==
    ASSUME ~Overlapping, CleanInv,
           \/ \E i \in Inits : InitBegins(i) \/ InitPublished(i) \/ InitUnpublished(i)
           \/ \E r \in Runs : RunBegins(r) \/ \E p \in BOOLEAN : RunSettles(r, p)
           \/ \E o \in Ops : Perform(o) \/ Register(o)
    PROVE  Step
<1>0. OnceInv /\ LifeOK /\ FreshOK
  BY DEF CleanInv, OnceInv, Steady
<1>1. CASE UNCHANGED <<frames, eff, un, unwinding>>
  BY <1>1 DEF Step, Stays
<1>2. ASSUME NEW i \in Inits, InitBegins(i) PROVE Step
  <2>1. life = "created"
    BY <1>2 DEF InitBegins
  <2>2. NoneAwaits
    BY <1>0, <2>1 DEF NoneAwaits, LifeOK, Active, Busy, InFlight, Unwinders, Chains
  <2> QED BY <1>2, <2>2 DEF Step, Opens, InitBegins, OpenFrame
<1>3. ASSUME NEW r \in Runs, RunBegins(r) PROVE Step
  <2>1. life = "live" /\ \A q \in Runs : ~InFlight(q)
    BY <1>3 DEF RunBegins
  <2>2. NoneAwaits
    BY <1>0, <2>1 DEF NoneAwaits, LifeOK, Active, Busy, InFlight, Unwinders, Chains
  <2> QED BY <1>3, <2>2 DEF Step, Opens, RunBegins, OpenFrame
<1>4. ASSUME NEW o \in Ops, Register(o) PROVE Step
  <2>1. o \in Chains /\ 1 \in 1..Steps /\ chain[o].at = 0
    BY <1>4, ScopeConstants DEF Register, Chains, Idle
  <2>2. <<o, 1>> \in Effects /\ eff[<<o, 1>>].st \in {"none", "lost"}
    BY <1>0, <2>1 DEF FreshOK, Effects
  <2>3. Records(<<o, 1>>) \/ Stays
    BY <1>4, <2>2 DEF Register, Records, Stays
  <2> QED BY <2>2, <2>3 DEF Step
<1> QED BY <1>1, <1>2, <1>3, <1>4 DEF InitPublished, InitUnpublished, RunSettles, Perform

\* The steps that start unwinding.
LEMMA RecoveriesAre ==
    ASSUME ~Overlapping, CleanInv,
           \/ \E i \in Inits, d \in BOOLEAN : InitRecovers(i, d)
           \/ \E r \in Runs : RunRecovers(r)
           \/ \E o \in Ops : Dispose(o)
           \/ TeardownBegins
    PROVE  Step
<1>0. OnceInv /\ LifeOK /\ TRUE \in BOOLEAN /\ FALSE \in BOOLEAN
  BY DEF CleanInv
<1>1. /\ Inits \subseteq Unwinders \ Ops /\ Runs \subseteq Unwinders \ Ops /\ Ops \subseteq Unwinders
      /\ Inits \cap Runs = {} /\ Inits \cap Ops = {} /\ Runs \cap Ops = {}
      /\ Teardown \in Unwinders \ Ops /\ Teardown \notin Inits /\ Teardown \notin Runs
  BY ScopeConstants DEF Chains, Unwinders
<1>2. ASSUME NEW u \in Unwinders \ Ops, InHand(u), ~Active(u), NEW all \in BOOLEAN,
             UnwindFrame(u, all, FALSE)
      PROVE  Step
  <2>1. NoneAwaits
    BY <1>0, <1>2, OnlyOne DEF NoneAwaits, Active
  <2>2. un[u].st # "inverse"
    BY <1>2 DEF Active
  <2>3. Pops(u, all) \/ PopsNothing(u, all)
    BY <1>0, <1>2, <2>2, UnwindFrameIs, ZenonT(60)
  <2> QED BY <2>1, <2>3 DEF Step
<1>3. ASSUME NEW i \in Inits, NEW d \in BOOLEAN, InitRecovers(i, d) PROVE Step
  <2> DEFINE all == ~d
  <2>1. all \in BOOLEAN /\ UnwindFrame(i, all, FALSE)
    BY <1>3 DEF InitRecovers
  <2> HIDE DEF all
  <2>2. chain[i].pc = "failed" /\ un[i].st = "off"
    BY <1>3 DEF InitRecovers
  <2>3. InHand(i) /\ ~Active(i)
    BY <1>1, <2>2 DEF InHand, Busy, Active
  <2> QED BY <1>1, <1>2, <2>1, <2>3
<1>4. ASSUME NEW r \in Runs, RunRecovers(r) PROVE Step
  <2>1. UnwindFrame(r, FALSE, FALSE) /\ chain[r].pc = "failed" /\ un[r].st = "off"
    BY <1>4 DEF RunRecovers
  <2>2. InHand(r) /\ ~Active(r)
    BY <1>1, <2>1 DEF InHand, InFlight, Active
  <2> QED BY <1>0, <1>1, <1>2, <2>1, <2>2
<1>5. ASSUME NEW o \in Ops, Dispose(o) PROVE Step
  BY <1>0, <1>5, DisposeIs DEF Step
<1>6. CASE TeardownBegins
  <2>1. /\ life = "live" /\ UnwindFrame(Teardown, TRUE, FALSE) /\ \A r \in Runs : ~InFlight(r)
    BY <1>6 DEF TeardownBegins
  <2>2. InHand(Teardown) /\ ~Active(Teardown)
    BY <1>0, <1>1, <2>1 DEF InHand, LifeOK
  <2> QED BY <1>0, <1>1, <1>2, <2>1, <2>2
<1> QED BY <1>3, <1>4, <1>5, <1>6

LEMMA NextIs ==
    ASSUME ~Overlapping, CleanInv, [Next]_vars
    PROVE  Step
<1>1. CASE UNCHANGED vars
  BY <1>1 DEF vars, Step, Stays
<1>2. CASE Settles
  BY <1>2, UnwindsAre, ChainsAre, LifecycleIs, RecoveriesAre DEF Settles
<1>3. CASE Next /\ ~Settles
  BY <1>3, LifecycleIs, RecoveriesAre DEF Next
<1> QED BY <1>1, <1>2, <1>3
-----------------------------------------------------------------------------
(* Every kind of step keeps the frames, the lists and the flag. *)

\* What running inverses leaves of the effects and the frames, whoever runs them.
Leaves(n) ==
    /\ \A f \in Effects : /\ eff'[f].depth = eff[f].depth
                          /\ eff[f].st \notin {"none", "lost"} => eff'[f].st \notin {"none", "lost"}
    /\ Len(frames') = n
    /\ \A i \in 1..n : \A f \in frames'[i] : f \in frames[i] /\ eff'[f].st = "held"

Undoes(u, list, flag, was, stack, state) ==
    \/ \E e \in Effects : Starts(u, e, list, flag, stack, state)
    \/ Finishes(u, list, was, stack, state)

Since(u, state) == state = eff \/ (Settling(u, state) /\ state[un[u].now].st \in {"undone", "refused"})

Outer(stack) ==
    Len(stack) <= Len(frames) /\ \A i \in 1..Len(stack) : stack[i] = frames[i]

LEMMA RunLeaves ==
    ASSUME CleanInv, FrameOK, NEW u \in Unwinders, NEW list \in SUBSET Effects, NEW flag, NEW was,
           NEW stack \in Seq(SUBSET Effects), Outer(stack),
           NEW state \in EffType, Since(u, state), Undoes(u, list, flag, was, stack, state)
    PROVE  /\ Leaves(Len(stack))
           /\ \A f \in un'[u].todo : f \in list /\ eff'[f].st = "held"
<1>0. /\ Len(stack) \in Nat /\ frames \in Seq(SUBSET Effects) /\ Len(frames) \in Nat
      /\ Len(stack) <= Len(frames) /\ \A i \in 1..Len(stack) : stack[i] = frames[i]
  <2>1. frames \in Seq(SUBSET Effects)
    BY DEF CleanInv, OnceInv, TypeOK
  <2>2. Len(stack) \in Nat /\ Len(frames) \in Nat
    BY <2>1
  <2>3. Len(stack) <= Len(frames) /\ \A i \in 1..Len(stack) : stack[i] = frames[i]
    BY DEF Outer
  <2> QED BY <2>1, <2>2, <2>3
<1>1. \A f \in Effects : /\ state[f].depth = eff[f].depth
                         /\ eff[f].st \notin {"none", "lost"} => state[f].st \notin {"none", "lost"}
                         /\ eff[f].st = "held" => state[f] = eff[f]
  BY DEF Settling, Since
<1>2. \A i \in 1..Len(stack) : \A f \in stack[i] : f \in Effects /\ f \in frames[i] /\ state[f].st = "held"
  <2>1. SUFFICES ASSUME NEW i \in 1..Len(stack), NEW f \in stack[i]
                 PROVE  f \in Effects /\ f \in frames[i] /\ state[f].st = "held"
    OBVIOUS
  <2>2. i \in 1..Len(frames) /\ f \in frames[i]
    BY <1>0, <2>1
  <2>3. f \in Effects /\ eff[f].st = "held"
    BY <1>0, <2>2 DEF FrameOK
  <2> QED BY <1>1, <2>2, <2>3
<1>3. ASSUME NEW e \in Effects, Starts(u, e, list, flag, stack, state)
      PROVE  /\ Leaves(Len(stack))
             /\ \A f \in un'[u].todo : f \in list /\ eff'[f].st = "held"
  <2>1. /\ eff'[e].st = "running" /\ eff'[e].depth = state[e].depth
        /\ \A f \in Effects \ {e} : eff'[f] = state[f]
        /\ Len(frames') = Len(stack) /\ \A i \in 1..Len(stack) : frames'[i] = stack[i] \ {e}
        /\ un'[u].todo = Undisposed(list, state) \ {e}
    BY <1>3 DEF Starts
  <2>2. \A f \in un'[u].todo : f \in list /\ eff'[f].st = "held"
    BY <2>1 DEF Undisposed
  <2>3. \A f \in Effects : /\ eff'[f].depth = eff[f].depth
                           /\ eff[f].st \notin {"none", "lost"} => eff'[f].st \notin {"none", "lost"}
    <3>1. ASSUME NEW f \in Effects
          PROVE  /\ eff'[f].depth = eff[f].depth
                 /\ eff[f].st \notin {"none", "lost"} => eff'[f].st \notin {"none", "lost"}
      <4>1. CASE f = e
        BY <1>1, <2>1, <4>1
      <4>2. CASE f # e
        BY <1>1, <2>1, <4>2
      <4> QED BY <4>1, <4>2
    <3> QED BY <3>1
  <2>4. \A i \in 1..Len(stack) : \A f \in frames'[i] : f \in frames[i] /\ eff'[f].st = "held"
    BY <1>2, <2>1
  <2> QED BY <2>1, <2>2, <2>3, <2>4 DEF Leaves
<1>4. ASSUME Finishes(u, list, was, stack, state)
      PROVE  /\ Leaves(Len(stack))
             /\ \A f \in un'[u].todo : f \in list /\ eff'[f].st = "held"
  BY <1>1, <1>2, <1>4 DEF Finishes, Leaves
<1> QED BY <1>3, <1>4 DEF Undoes

\* The frames that are left are as they were, but for what was started.
LEMMA LeavesFrames ==
    ASSUME FrameOK, NEW n \in Nat, n <= Len(frames), frames \in Seq(SUBSET Effects), Leaves(n)
    PROVE  FrameOK'
<1>1. ASSUME NEW i \in 1..n, NEW f \in frames'[i] PROVE eff'[f].st = "held" /\ eff'[f].depth = i
  <2>1. f \in frames[i] /\ eff'[f].st = "held" /\ i \in 1..Len(frames)
    BY <1>1 DEF Leaves
  <2>2. f \in Effects /\ eff[f].depth = i
    BY <2>1 DEF FrameOK
  <2> QED BY <2>1, <2>2 DEF Leaves
<1> QED BY <1>1 DEF FrameOK, Leaves

\* An awaited inverse settles.
LEMMA AwaitedOrder ==
    ASSUME CleanInv, FrameOK, TodoOK, FlagOK, NEW u \in Unwinders, Awaited(u)
    PROVE  FrameOK' /\ TodoOK' /\ FlagOK'
<1>0. /\ OnceInv /\ LifeOK /\ frames \in Seq(SUBSET Effects) /\ Len(frames) \in Nat
      /\ un[u].todo \in SUBSET Effects /\ un \in [Unwinders -> UnRecord]
  BY DEF CleanInv, OnceInv, TypeOK, UnRecord
<1>1. PICK state \in EffType :
         /\ Settling(u, state)
         /\ state[un[u].now].st \in {"undone", "refused"}
         /\ \/ \E e \in Effects : Starts(u, e, un[u].todo, unwinding, frames, state)
            \/ Finishes(u, un[u].todo, un[u].was, frames, state)
  BY DEF Awaited
<1>2. /\ un[u].st = "inverse" /\ \A v \in Unwinders \ {u} : un'[v] = un[v]
  BY DEF Awaited
<1>3. /\ Leaves(Len(frames))
      /\ \A f \in un'[u].todo : f \in un[u].todo /\ eff'[f].st = "held"
  <2> DEFINE list == un[u].todo
             had == un[u].was
  <2>1. list \in SUBSET Effects /\ Outer(frames) /\ Since(u, state)
    BY <1>0, <1>1 DEF Outer, Since
  <2>2. Undoes(u, list, unwinding, had, frames, state)
    BY <1>1 DEF Undoes
  <2> HIDE DEF list, had
  <2>3. /\ Leaves(Len(frames))
        /\ \A f \in un'[u].todo : f \in list /\ eff'[f].st = "held"
    BY <1>0, <2>1, <2>2, RunLeaves, ZenonT(60)
  <2> QED BY <2>3 DEF list
<1>4. FrameOK'
  BY <1>0, <1>3, LeavesFrames
<1>5. TodoOK'
  <2>1. ASSUME NEW v \in Unwinders \ Ops, un'[v].st = "inverse", NEW f \in un'[v].todo
        PROVE  eff'[f].st \notin {"none", "lost"} /\ eff'[f].depth = Len(frames') + 1
    <3>1. f \in un[v].todo /\ un[v].st = "inverse" /\ f \in Effects
      BY <1>0, <1>2, <1>3, <2>1 DEF UnRecord
    <3>2. eff[f].st \notin {"none", "lost"} /\ eff[f].depth = Len(frames) + 1
      BY <2>1, <3>1 DEF TodoOK
    <3> QED BY <1>3, <3>1, <3>2 DEF Leaves
  <2> QED BY <2>1 DEF TodoOK
<1>6. un'[u].st # "off" /\ (un'[u].st = "inverse" => unwinding' = unwinding)
  BY <1>1 DEF Starts, Finishes
<1>7. FlagOK'
  <2>1. SUFFICES ASSUME \A o \in Ops : un'[o].st = "off", NEW v \in Unwinders \ Ops, un'[v].st = "inverse"
                 PROVE  unwinding'
    BY DEF FlagOK
  <2>2. u \notin Ops /\ \A o \in Ops : un[o].st = "off"
    BY <1>2, <1>6, <2>1 DEF Unwinders, Chains
  <2>3. Active(u) /\ Active(v)
    BY <1>2, <2>1 DEF Active
  <2>4. v = u
    BY <1>0, <2>2, <2>3, ActiveInHand, OnlyOne
  <2> QED BY <1>2, <1>6, <2>1, <2>2, <2>4 DEF FlagOK
<1> QED BY <1>4, <1>5, <1>7

\* A frame is popped.
LEMMA PopsOrder ==
    ASSUME CleanInv, FrameOK, NEW u \in Unwinders \ Ops, NEW all, NoneAwaits,
           Pops(u, all) \/ PopsNothing(u, all)
    PROVE  FrameOK' /\ TodoOK' /\ FlagOK'
<1>0. /\ frames \in Seq(SUBSET Effects) /\ Len(frames) \in Nat /\ eff \in EffType /\ Ops \subseteq Unwinders
  BY DEF CleanInv, OnceInv, TypeOK, EffType, Unwinders, Chains
<1>1. /\ \A v \in Unwinders \ {u} : un'[v] = un[v]
      /\ \A v \in Unwinders \ Ops : un'[v].st = "inverse" => v = u
  BY DEF Pops, PopsNothing, NoneAwaits
<1>2. CASE PopsNothing(u, all)
  BY <1>1, <1>2 DEF PopsNothing, FrameOK, TodoOK, FlagOK
<1>3. CASE Pops(u, all)
  <2>1. PICK rest \in Seq(SUBSET Effects) :
           /\ Len(rest) = Len(frames) - 1 /\ \A i \in 1..Len(rest) : rest[i] = frames[i]
           /\ \/ \E e \in Effects : Starts(u, e, frames[Len(frames)], TRUE, rest, eff)
              \/ Finishes(u, frames[Len(frames)], unwinding, rest, eff)
    BY <1>3 DEF Pops
  <2>2. frames # <<>> /\ Len(frames) \in 1..Len(frames)
    BY <1>0, <1>3 DEF Pops
  <2>3. frames[Len(frames)] \in SUBSET Effects
    BY <1>0, <2>2
  <2>4. /\ Leaves(Len(rest))
        /\ \A f \in un'[u].todo : f \in frames[Len(frames)] /\ eff'[f].st = "held"
    <3> DEFINE list == frames[Len(frames)]
    <3>1. list \in SUBSET Effects /\ Outer(rest) /\ Since(u, eff) /\ u \in Unwinders
      BY <1>0, <2>1, <2>3 DEF Outer, Since
    <3>2. Undoes(u, list, TRUE, unwinding, rest, eff)
      BY <2>1 DEF Undoes
    <3> HIDE DEF list
    <3>3. /\ Leaves(Len(rest))
          /\ \A f \in un'[u].todo : f \in list /\ eff'[f].st = "held"
      BY <1>0, <3>1, <3>2, RunLeaves, ZenonT(60)
    <3> QED BY <3>3 DEF list
  <2>5. FrameOK'
    BY <1>0, <2>1, <2>2, <2>4, LeavesFrames
  <2>6. TodoOK'
    <3>1. ASSUME NEW f \in un'[u].todo
          PROVE  eff'[f].st \notin {"none", "lost"} /\ eff'[f].depth = Len(frames') + 1
      <4>1. f \in frames[Len(frames)] /\ eff'[f].st = "held"
        BY <2>4
      <4>2. f \in Effects /\ eff[f].depth = Len(frames)
        BY <2>2, <2>3, <4>1 DEF FrameOK
      <4> QED BY <1>0, <2>1, <2>4, <4>1, <4>2 DEF Leaves
    <3> QED BY <1>1, <3>1 DEF TodoOK
  <2>7. un'[u].st = "inverse" => unwinding'
    BY <2>1 DEF Starts, Finishes
  <2> QED BY <1>1, <2>5, <2>6, <2>7 DEF FlagOK
<1> QED BY <1>2, <1>3

\* An operation starts to dispose.
LEMMA DisposesOrder ==
    ASSUME CleanInv, FrameOK, TodoOK, NEW o \in Ops, Disposes(o)
    PROVE  FrameOK' /\ TodoOK' /\ FlagOK'
<1>0. /\ frames \in Seq(SUBSET Effects) /\ Len(frames) \in Nat /\ eff \in EffType /\ o \in Unwinders
      /\ un \in [Unwinders -> UnRecord] /\ o \in Chains
  BY DEF CleanInv, OnceInv, TypeOK, EffType, UnRecord, Unwinders, Chains
<1>1. PICK list \in SUBSET {<<o, k>> : k \in 1..Steps} :
         \/ \E e \in Effects : Starts(o, e, list, TRUE, frames, eff)
         \/ Finishes(o, list, unwinding, frames, eff)
  BY DEF Disposes
<1>2. list \in SUBSET Effects
  BY <1>0 DEF Effects
<1>3. Leaves(Len(frames))
  <2>1. Outer(frames) /\ Since(o, eff)
    BY <1>0 DEF Outer, Since
  <2>2. Undoes(o, list, TRUE, unwinding, frames, eff)
    BY <1>1 DEF Undoes
  <2> QED BY <1>0, <1>2, <2>1, <2>2, RunLeaves, ZenonT(60)
<1>4. FrameOK'
  BY <1>0, <1>3, LeavesFrames
<1>5. TodoOK'
  <2>1. ASSUME NEW v \in Unwinders \ Ops, un'[v].st = "inverse", NEW f \in un'[v].todo
        PROVE  eff'[f].st \notin {"none", "lost"} /\ eff'[f].depth = Len(frames') + 1
    <3>1. f \in un[v].todo /\ un[v].st = "inverse" /\ f \in Effects
      BY <1>0, <2>1 DEF Disposes, UnRecord
    <3>2. eff[f].st \notin {"none", "lost"} /\ eff[f].depth = Len(frames) + 1
      BY <2>1, <3>1 DEF TodoOK
    <3> QED BY <1>3, <3>1, <3>2 DEF Leaves
  <2> QED BY <2>1 DEF TodoOK
<1>6. FlagOK'
  BY DEF FlagOK, Disposes
<1> QED BY <1>4, <1>5, <1>6

\* Something is recorded, or lost.
LEMMA RecordsOrder ==
    ASSUME CleanInv, FrameOK, TodoOK, FlagOK, NEW e \in Effects, Records(e) \/ Loses(e)
    PROVE  FrameOK' /\ TodoOK' /\ FlagOK'
<1>0. /\ frames \in Seq(SUBSET Effects) /\ Len(frames) \in Nat /\ eff \in EffType
      /\ un \in [Unwinders -> UnRecord]
  BY DEF CleanInv, OnceInv, TypeOK, EffType, UnRecord
<1>1. UNCHANGED <<un, unwinding>> /\ eff[e].st \in {"none", "lost"}
  BY DEF Records, Loses
<1>2. /\ \A f \in Effects \ {e} : eff'[f] = eff[f]
      /\ Len(frames') = Len(frames)
      /\ \A i \in 1..Len(frames) : \A f \in frames'[i] : f \in frames[i] \/ (f = e /\ i = Len(frames) /\ Records(e))
  <2>1. CASE Records(e)
    <3>1. frames # <<>> /\ Len(frames) \in 1..Len(frames)
      BY <1>0, <2>1 DEF Records
    <3>2. frames' = [frames EXCEPT ![Len(frames)] = @ \cup {e}] /\ \A f \in Effects \ {e} : eff'[f] = eff[f]
      BY <1>0, <2>1 DEF Records, Record, EffType
    <3> QED BY <1>0, <2>1, <3>1, <3>2
  <2>2. CASE Loses(e)
    BY <1>0, <2>2 DEF Loses, EffType
  <2> QED BY <2>1, <2>2
<1>3. Records(e) => eff'[e].st = "held" /\ eff'[e].depth = Len(frames)
  BY <1>0 DEF Records, Record, EffType
<1>4. FrameOK'
  <2>1. ASSUME NEW i \in 1..Len(frames), NEW f \in frames'[i] PROVE eff'[f].st = "held" /\ eff'[f].depth = i
    <3>1. CASE f \in frames[i]
      <4>1. f \in Effects /\ f # e /\ eff[f].st = "held" /\ eff[f].depth = i
        BY <1>0, <1>1, <3>1 DEF FrameOK
      <4> QED BY <1>2, <4>1
    <3>2. CASE f = e /\ i = Len(frames) /\ Records(e)
      BY <1>3, <3>2
    <3> QED BY <1>2, <2>1, <3>1, <3>2
  <2> QED BY <1>2, <2>1 DEF FrameOK
<1>5. TodoOK'
  <2>1. ASSUME NEW v \in Unwinders \ Ops, un[v].st = "inverse", NEW f \in un[v].todo
        PROVE  eff'[f].st \notin {"none", "lost"} /\ eff'[f].depth = Len(frames') + 1
    <3>1. f \in Effects /\ eff[f].st \notin {"none", "lost"} /\ eff[f].depth = Len(frames) + 1
      BY <1>0, <2>1 DEF TodoOK, UnRecord
    <3>2. f # e
      BY <1>1, <3>1
    <3> QED BY <1>2, <3>1, <3>2
  <2> QED BY <1>1, <2>1 DEF TodoOK
<1>6. FlagOK'
  BY <1>1 DEF FlagOK
<1> QED BY <1>4, <1>5, <1>6

LEMMA OrderStep ==
    ASSUME CleanInv, FrameOK, TodoOK, FlagOK, Step
    PROVE  FrameOK' /\ TodoOK' /\ FlagOK'
<1>0. frames \in Seq(SUBSET Effects) /\ Len(frames) \in Nat
  BY DEF CleanInv, OnceInv, TypeOK
<1>1. ASSUME NEW u \in Unwinders, Ends(u) PROVE FrameOK' /\ TodoOK' /\ FlagOK'
  <2>1. \A v \in Unwinders : /\ un'[v].st = "inverse" => un'[v] = un[v]
                             /\ un'[v].st = "off" => un[v].st = "off"
    BY <1>1 DEF Ends
  <2>2. Ops \subseteq Unwinders
    BY DEF Unwinders, Chains
  <2> QED BY <1>1, <2>1, <2>2 DEF Ends, FrameOK, TodoOK, FlagOK
<1>2. CASE Opens
  <2>1. /\ Len(frames') = Len(frames) + 1 /\ frames'[Len(frames) + 1] = {}
        /\ \A i \in 1..Len(frames) : frames'[i] = frames[i]
    BY <1>0, <1>2 DEF Opens
  <2>2. \A i \in 1..Len(frames') : i \in 1..Len(frames) \/ i = Len(frames) + 1
    BY <1>0, <2>1
  <2> QED BY <1>2, <2>1, <2>2 DEF Opens, NoneAwaits, FrameOK, TodoOK, FlagOK
<1>3. CASE Stays
  BY <1>3 DEF Stays, FrameOK, TodoOK, FlagOK
<1> QED BY <1>1, <1>2, <1>3, AwaitedOrder, PopsOrder, DisposesOrder, RecordsOrder DEF Step

\* At the start one empty frame is open and nobody unwinds.
LEMMA OrderInit == Init => OrderInv
<1> SUFFICES ASSUME Init PROVE OrderInv
  OBVIOUS
<1>1. FrameOK /\ TodoOK /\ FlagOK
  <2>1. \A i \in 1..Len(frames) : frames[i] = {}
    BY DEF Init
  <2> QED BY <2>1 DEF Init, FrameOK, TodoOK, FlagOK, Off
<1> QED BY <1>1, CleanInit DEF OrderInv

LEMMA OrderKept ==
    ASSUME ~Overlapping, OrderInv, [Next]_vars
    PROVE  OrderInv'
BY CleanStep, NextIs, OrderStep DEF OrderInv
-----------------------------------------------------------------------------
(* The order itself. *)

InOrder(e) ==
    \A f \in Effects : eff[f].st = "held" =>
        /\ eff[f].depth <= eff[e].depth
        /\ eff[f].depth = eff[e].depth => eff[f].order <= eff[e].order

\* The first of a frame that was just popped.
LEMMA PopsInOrder ==
    ASSUME OrderInv, NEW u \in Unwinders \ Ops, NEW e \in Effects, NEW rest, NoneAwaits, frames # <<>>,
           Starts(u, e, frames[Len(frames)], TRUE, rest, eff)
    PROVE  InOrder(e)
<1>0. /\ frames \in Seq(SUBSET Effects) /\ Len(frames) \in Nat /\ FrameOK /\ HeldOK
      /\ \A f \in Effects : eff[f].order \in Nat
  BY DEF OrderInv, CleanInv, OnceInv, TypeOK
<1>1. Len(frames) \in 1..Len(frames)
  BY <1>0
<1>2. /\ e \in frames[Len(frames)] /\ eff[e].depth = Len(frames)
      /\ \A f \in frames[Len(frames)] : eff[f].st = "held" => eff[f].order <= eff[e].order
  BY <1>0, <1>1 DEF Starts, Undisposed, IsNewest, FrameOK
<1>3. ASSUME NEW f \in Effects, eff[f].st = "held"
      PROVE  /\ eff[f].depth <= eff[e].depth
             /\ eff[f].depth = eff[e].depth => eff[f].order <= eff[e].order
  <2>1. PICK i \in 1..Len(frames) : f \in frames[i]
    BY <1>0, <1>3 DEF HeldOK, NoneAwaits
  <2>2. eff[f].depth = i
    BY <1>0, <2>1 DEF FrameOK
  <2> QED BY <1>0, <1>2, <1>3, <2>1, <2>2
<1> QED BY <1>3 DEF InOrder

\* The next of a frame that is being unwound.
LEMMA AwaitedInOrder ==
    ASSUME OrderInv, NEW u \in Unwinders \ Ops, NEW e \in Effects, NEW flag, NEW state \in EffType,
           un[u].st = "inverse", Settling(u, state), state[un[u].now].st \in {"undone", "refused"},
           Starts(u, e, un[u].todo, flag, frames, state)
    PROVE  InOrder(e)
<1>0. /\ frames \in Seq(SUBSET Effects) /\ Len(frames) \in Nat /\ FrameOK /\ HeldOK /\ TodoOK /\ LifeOK
      /\ un[u].todo \in SUBSET Effects /\ u \in Unwinders
  BY DEF OrderInv, CleanInv, OnceInv, TypeOK
<1>1. /\ e \in un[u].todo /\ state[e].st = "held"
      /\ \A f \in un[u].todo : state[f].st = "held" => eff[f].order <= eff[e].order
  BY DEF Starts, Undisposed, IsNewest
<1>2. eff[e].depth = Len(frames) + 1
  BY <1>0, <1>1 DEF TodoOK
<1>3. ASSUME NEW f \in Effects, eff[f].st = "held"
      PROVE  /\ eff[f].depth <= eff[e].depth
             /\ eff[f].depth = eff[e].depth => eff[f].order <= eff[e].order
  <2>1. CASE \E i \in 1..Len(frames) : f \in frames[i]
    <3>1. PICK i \in 1..Len(frames) : f \in frames[i]
      BY <2>1
    <3>2. eff[f].depth = i
      BY <1>0, <3>1 DEF FrameOK
    <3> QED BY <1>0, <1>2, <3>1, <3>2
  <2>2. CASE \E v \in Unwinders \ Ops : un[v].st = "inverse" /\ f \in un[v].todo
    <3>1. PICK v \in Unwinders \ Ops : un[v].st = "inverse" /\ f \in un[v].todo
      BY <2>2
    <3>2. Active(u) /\ Active(v)
      BY <3>1 DEF Active
    <3>3. v = u
      BY <1>0, <3>2, ActiveInHand, OnlyOne
    <3>4. eff[f].depth = Len(frames) + 1
      BY <1>0, <3>1, <3>3 DEF TodoOK
    <3>5. state[f].st = "held"
      BY <1>3 DEF Settling
    <3> QED BY <1>0, <1>1, <1>2, <3>1, <3>3, <3>4, <3>5
  <2> QED BY <1>0, <1>3, <2>1, <2>2 DEF HeldOK
<1> QED BY <1>3 DEF InOrder

\* Only whoever unwinds starts an inverse of its own.
LEMMA StartInOrder ==
    ASSUME OrderInv, Step, NEW u \in Unwinders \ Ops, NEW e \in Effects, StartsBy(u, e)
    PROVE  InOrder(e)
<1>0. u \in Unwinders /\ u \notin Ops /\ Ops \subseteq Unwinders
  BY DEF Unwinders, Chains
<1>1. un'[u] # un[u]
  <2>1. un[u].st = "inverse" => eff[un[u].now].st = "running"
    BY DEF OrderInv, CleanInv, OnceInv, Steady, NowOK
  <2> QED BY <2>1 DEF StartsBy
<1>2. un'[u].st = "inverse" /\ un'[u].now = e
  BY DEF StartsBy
<1>3. ASSUME NEW v \in Unwinders, Awaited(v) PROVE InOrder(e)
  <2>1. v = u
    BY <1>0, <1>1, <1>3 DEF Awaited
  <2>2. PICK state \in EffType :
           /\ Settling(u, state)
           /\ state[un[u].now].st \in {"undone", "refused"}
           /\ \/ \E d \in Effects : Starts(u, d, un[u].todo, unwinding, frames, state)
              \/ Finishes(u, un[u].todo, un[u].was, frames, state)
    BY <1>3, <2>1 DEF Awaited
  <2>3. Starts(u, e, un[u].todo, unwinding, frames, state)
    <3>1. ~Finishes(u, un[u].todo, un[u].was, frames, state)
      BY <1>2 DEF Finishes
    <3>2. PICK d \in Effects : Starts(u, d, un[u].todo, unwinding, frames, state)
      BY <2>2, <3>1
    <3>3. d = e
      BY <1>2, <3>2 DEF Starts
    <3> QED BY <3>2, <3>3
  <2>4. un[u].st = "inverse"
    BY <1>3, <2>1 DEF Awaited
  <2> QED BY <2>2, <2>3, <2>4, AwaitedInOrder
<1>4. ASSUME NEW v \in Unwinders \ Ops, NEW all \in BOOLEAN, NoneAwaits, Pops(v, all) \/ PopsNothing(v, all)
      PROVE  InOrder(e)
  <2>1. v = u
    BY <1>0, <1>1, <1>4 DEF Pops, PopsNothing
  <2>2. Pops(u, all)
    BY <1>2, <1>4, <2>1 DEF PopsNothing
  <2>3. frames # <<>>
    BY <2>2 DEF Pops
  <2>4. PICK rest \in Seq(SUBSET Effects) :
           \/ \E d \in Effects : Starts(u, d, frames[Len(frames)], TRUE, rest, eff)
           \/ Finishes(u, frames[Len(frames)], unwinding, rest, eff)
    BY <2>2 DEF Pops
  <2>5. Starts(u, e, frames[Len(frames)], TRUE, rest, eff)
    <3>1. ~Finishes(u, frames[Len(frames)], unwinding, rest, eff)
      BY <1>2 DEF Finishes
    <3>2. PICK d \in Effects : Starts(u, d, frames[Len(frames)], TRUE, rest, eff)
      BY <2>4, <3>1
    <3>3. d = e
      BY <1>2, <3>2 DEF Starts
    <3> QED BY <3>2, <3>3
  <2> QED BY <1>4, <2>3, <2>5, PopsInOrder
<1>5. ASSUME NEW v \in Unwinders, Ends(v) PROVE InOrder(e)
  BY <1>0, <1>1, <1>2, <1>5 DEF Ends
<1>6. ASSUME NEW o \in Ops, Disposes(o) PROVE InOrder(e)
  BY <1>0, <1>1, <1>6 DEF Disposes
<1>7. ASSUME NEW d \in Effects, Records(d) \/ Loses(d) PROVE InOrder(e)
  BY <1>1, <1>7 DEF Records, Loses
<1>8. CASE Opens \/ Stays
  BY <1>1, <1>8 DEF Opens, Stays
<1> QED BY <1>3, <1>4, <1>5, <1>6, <1>7, <1>8 DEF Step

\* A step of a chain is started only when the flag is down.
LEMMA StartsFlagDown ==
    ASSUME TypeOK, Next, NEW c \in Chains, chain'[c].pc = "body", chain'[c] # chain[c]
    PROVE  ~unwinding
<1>0. chain \in [Chains -> [pc: {"idle", "called", "body", "ok", "failed", "settled"},
                            at: 0..Steps, why: Reasons]]
  BY DEF TypeOK
<1>1. chain' # chain
  OBVIOUS
<1>2. ASSUME NEW d \in Chains, NEW at, chain' = Boundary(d, at) PROVE ~unwinding
  <2>1. CASE d = c
    <3>1. SUFFICES ASSUME unwinding PROVE FALSE
      OBVIOUS
    <3>2. Refusal(d, at) # "none"
      BY <3>1 DEF Refusal
    <3>3. chain'[d].pc \in {"ok", "failed"}
      BY <1>0, <1>2, <3>2 DEF Boundary, Pc
    <3> QED BY <2>1, <3>3
  <2>2. CASE d # c
    <3>1. chain'[c] = chain[c]
      BY <1>0, <1>2, <2>2 DEF Boundary, Pc
    <3> QED BY <3>1
  <2> QED BY <2>1, <2>2
<1>3. ASSUME NEW d \in Chains, NEW pc \in {"ok", "failed", "called", "settled"}, NEW at, NEW why,
             chain' = Pc(d, pc, at, why)
      PROVE  ~unwinding
  <2>1. chain'[c] = chain[c] \/ chain'[c].pc = pc
    BY <1>0, <1>3 DEF Pc
  <2> QED BY <2>1
<1>4. ASSUME NEW d \in Chains, chain' = [chain EXCEPT ![d].pc = "settled"] PROVE ~unwinding
  BY <1>0, <1>4
<1>5. ASSUME NEW d \in Chains, StepDone(d) \/ StepThrows(d) \/ MethodSettles(d) PROVE ~unwinding
  BY <1>2, <1>3, <1>5 DEF StepDone, StepThrows, MethodSettles
<1>6. ASSUME NEW i \in Inits, InitPublished(i) \/ InitBegins(i) \/ InitUnpublished(i) PROVE ~unwinding
  BY <1>3, <1>4, <1>6 DEF InitPublished, InitBegins, InitUnpublished, Chains
<1>7. ASSUME NEW r \in Runs, RunBegins(r) \/ \E p \in BOOLEAN : RunSettles(r, p) PROVE ~unwinding
  <2>1. r \in Chains
    BY DEF Chains
  <2>2. CASE RunBegins(r)
    BY <1>3, <2>1, <2>2 DEF RunBegins
  <2>3. ASSUME NEW p \in BOOLEAN, RunSettles(r, p) PROVE ~unwinding
    BY <1>3, <1>4, <2>1, <2>3 DEF RunSettles
  <2> QED BY <1>7, <2>2, <2>3
<1>8. ASSUME NEW o \in Ops, Perform(o) \/ Register(o) PROVE ~unwinding
  BY <1>2, <1>3, <1>8 DEF Perform, Register, Chains
<1>9. CASE UNCHANGED chain
  BY <1>1, <1>9
<1> QED BY <1>5, <1>6, <1>7, <1>8, <1>9 DEF Next, Settles, InverseSettles, NextFrame, ScopeCloses,
           FrameUnwound, InitRecovers, RunRecovers, Dispose, TeardownBegins

\* When a recovery or the teardown starts an inverse, nothing on an inner frame
\* and nothing newer on its frame is still waiting (unwindFrame and unwindAll of
\* effect-scope.ts, whatever is recorded or disposed of while an inverse is
\* awaited); and no chain starts a step while one is (assertNotUnwinding), unless
\* an operation disposed of its effect.  It takes that no run() is under way when
\* the resource is torn down.
THEOREM UnwindsInOrder ==
    ASSUME ~Overlapping
    PROVE  Spec => OrderedUnwind
<1>1. OrderInv /\ [Next]_vars => OrderInv'
  BY OrderKept
<1>2. OrderInv /\ [Next]_vars =>
        [\A u \in Unwinders \ Ops, e \in Effects : StartsBy(u, e) =>
           \A f \in Effects : eff[f].st = "held" =>
               /\ eff[f].depth <= eff[e].depth
               /\ eff[f].depth = eff[e].depth => eff[f].order <= eff[e].order]_vars
  BY NextIs, StartInOrder DEF OrderInv, InOrder
<1>3. OrderInv /\ [Next]_vars =>
        [\A c \in Chains :
           chain'[c].pc = "body" /\ chain'[c] # chain[c] /\ (\A o \in Ops : un[o].st = "off") =>
              \A u \in Unwinders \ Ops : un[u].st # "inverse"]_vars
  <2>1. SUFFICES ASSUME OrderInv, Next, NEW c \in Chains, chain'[c].pc = "body", chain'[c] # chain[c],
                        \A o \in Ops : un[o].st = "off", NEW u \in Unwinders \ Ops
                 PROVE  un[u].st # "inverse"
    OBVIOUS
  <2>2. ~unwinding
    BY <2>1, StartsFlagDown DEF OrderInv, CleanInv, OnceInv
  <2> QED BY <2>1, <2>2 DEF OrderInv, FlagOK
<1> QED BY <1>1, <1>2, <1>3, OrderInit, PTL DEF Spec, OrderedUnwind, InnermostFirst, StopsWhileUnwinding
-----------------------------------------------------------------------------
(* What init() built. *)

\* What the types, the lifecycle and the lists say of an attempt at init().
LEMMA AttemptIs ==
    ASSUME WholeInv, NEW i \in Inits
    PROVE  /\ i \in Chains /\ i \in Unwinders \ Ops /\ i \notin Runs
           /\ \A k \in 1..Steps : <<i, k>> \in Effects
           /\ chain[i].at \in 0..Steps
           /\ Active(i) => Busy(i)
           /\ Busy(i) => life = "initing" /\ InHand(i)
           /\ chain[i].pc \in {"called", "body", "ok"} => Trying(i) /\ un[i].st = "off"
           /\ chain[i].pc = "failed" /\ un[i].st = "off" => Trying(i)
           /\ \A j \in Inits : Busy(i) /\ Busy(j) => i = j
<1>1. /\ i \in Chains /\ i \in Unwinders \ Ops /\ i \notin Runs /\ i # Teardown
  BY ScopeConstants DEF Unwinders, Chains
<1>2. \A k \in 1..Steps : <<i, k>> \in Effects
  BY <1>1 DEF Effects
<1>3. chain[i].at \in 0..Steps
  BY <1>1 DEF WholeInv, OrderInv, CleanInv, OnceInv, TypeOK
<1>4. Active(i) => Busy(i)
  BY DEF WholeInv, OrderInv, CleanInv, LifeOK, Active, Busy
<1>5. /\ Busy(i) => life = "initing"
      /\ \A j \in Inits : Busy(i) /\ Busy(j) => i = j
  BY DEF WholeInv, OrderInv, CleanInv, LifeOK
<1>6. Busy(i) => InHand(i)
  BY <1>1 DEF InHand
<1>7. un[i].st # "off" => chain[i].pc = "failed"
  BY DEF WholeInv, Whole, PastOK
<1>8. /\ chain[i].pc \in {"called", "body", "ok"} => Trying(i) /\ un[i].st = "off"
      /\ chain[i].pc = "failed" /\ un[i].st = "off" => Trying(i)
  BY <1>7 DEF Trying, Busy, Active
<1> QED BY <1>1, <1>2, <1>3, <1>4, <1>5, <1>6, <1>8

Untouched(i) == \A k \in 1..Steps : eff'[<<i, k>>] = eff[<<i, k>>]

\* A step of an attempt, or none.
Advances(i) ==
    \/ chain'[i] = chain[i] /\ Untouched(i)
    \/ /\ chain[i].pc \in {"called", "body"} /\ chain'[i].pc \in {"body", "ok", "failed"}
       /\ \/ chain'[i].at = chain[i].at /\ Untouched(i)
          \/ /\ chain'[i].at = chain[i].at + 1
             /\ \A k \in 1..Steps : k # chain[i].at + 1 => eff'[<<i, k>>] = eff[<<i, k>>]
             /\ eff'[<<i, chain[i].at + 1>>].st \in {"held", "none"}
             /\ eff'[<<i, chain[i].at + 1>>].st = "held" => eff'[<<i, chain[i].at + 1>>].depth = 2

\* Nobody unwinds; chains go on.
LEMMA ChainsWhole ==
    ASSUME WholeInv, UNCHANGED <<un, life, closed>>, Len(frames') = Len(frames),
           \A r \in Runs : InFlight(r)' => InFlight(r),
           \A i \in Inits : Advances(i)
    PROVE  Whole'
<1>0. Whole /\ OnceInv /\ LifeOK
  BY DEF WholeInv, OrderInv, CleanInv
<1>1. ASSUME NEW i \in Inits
      PROVE  /\ Busy(i)' <=> Busy(i)
             /\ Active(i)' <=> Active(i)
             /\ Trying(i)' <=> Trying(i)
             /\ Deferring(i)' <=> Deferring(i)
             /\ chain'[i].pc = "settled" => chain'[i] = chain[i] /\ Untouched(i)
             /\ Deferring(i) => chain'[i] = chain[i] /\ Untouched(i)
             /\ un[i].st # "off" => chain'[i] = chain[i] /\ Untouched(i)
  <2>1. chain'[i] = chain[i] \/ (chain[i].pc \in {"called", "body"} /\ chain'[i].pc \in {"body", "ok", "failed"})
    BY DEF Advances
  <2>2. un'[i] = un[i] /\ (un[i].st # "off" => chain[i].pc = "failed")
    BY <1>0 DEF Whole, PastOK
  <2>3. Active(i)' <=> Active(i)
    BY <2>2 DEF Active
  <2>4. Busy(i)' <=> Busy(i)
    BY <2>1, <2>2 DEF Busy
  <2>5. un[i].st # "off" => chain'[i] = chain[i] /\ Untouched(i)
    BY <2>1, <2>2 DEF Advances
  <2>6. chain'[i].pc = "settled" => chain'[i] = chain[i] /\ Untouched(i)
    BY DEF Advances
  <2> QED BY <2>2, <2>3, <2>4, <2>5, <2>6 DEF Trying, Deferring, Active
<1>2. StackOK'
  <2>1. \A r \in Runs : InFlight(r)' /\ un'[r].st = "off" => InFlight(r) /\ un[r].st = "off"
    OBVIOUS
  <2> QED BY <1>0, <1>1, <2>1 DEF Whole, StackOK
<1>3. PlaceOK'
  <2>1. ASSUME NEW i \in Inits, NEW k \in 1..Steps, eff'[<<i, k>>].st \notin {"none", "lost"}
        PROVE  eff'[<<i, k>>].depth = 2
    <3>1. eff'[<<i, k>>] = eff[<<i, k>>] \/ (eff'[<<i, k>>].st = "held" /\ eff'[<<i, k>>].depth = 2)
      BY <2>1 DEF Advances, Untouched
    <3> QED BY <1>0, <2>1, <3>1 DEF Whole, PlaceOK
  <2> QED BY <1>0, <2>1 DEF Whole, PlaceOK
<1>4. MineOK'
  <2>1. ASSUME NEW i \in Inits, Trying(i)' \/ (chain'[i].pc = "settled" /\ life' = "live"),
               NEW k \in 1..chain'[i].at
        PROVE  eff'[<<i, k>>].st \in {"held", "none"}
    <3>0. chain[i].at \in 0..Steps
      BY AttemptIs
    <3>1. Trying(i) \/ (chain[i].pc = "settled" /\ life = "live")
      BY <1>1, <2>1
    <3>2. \A m \in 1..chain[i].at : eff[<<i, m>>].st \in {"held", "none"}
      BY <1>0, <3>1 DEF Whole, MineOK
    <3>3. CASE chain'[i].at = chain[i].at /\ Untouched(i)
      BY <3>0, <3>2, <3>3, ScopeConstants DEF Untouched
    <3>4. CASE /\ chain'[i].at = chain[i].at + 1
               /\ \A m \in 1..Steps : m # chain[i].at + 1 => eff'[<<i, m>>] = eff[<<i, m>>]
               /\ eff'[<<i, chain[i].at + 1>>].st \in {"held", "none"}
      <4>1. k = chain[i].at + 1 \/ (k \in 1..chain[i].at /\ k \in 1..Steps /\ k # chain[i].at + 1)
        BY <3>0, <3>4, ScopeConstants
      <4> QED BY <3>2, <3>4, <4>1
    <3> QED BY <3>3, <3>4 DEF Advances
  <2> QED BY <2>1 DEF MineOK
<1>5. RecoverOK'
  BY <1>0, <1>1 DEF Whole, RecoverOK, Untouched
<1>6. PastOK'
  <2>1. \A i \in Inits : un[i].st = "ended" /\ Gone(i) => Gone(i)'
    BY <1>1 DEF Gone, Untouched
  <2> QED BY <1>0, <1>1, <2>1 DEF Whole, PastOK
<1>7. OpenOK'
  <2>1. ASSUME NEW i \in Inits, NEW k \in 1..Steps PROVE eff'[<<i, k>>].st # "lost"
    <3>1. eff'[<<i, k>>] = eff[<<i, k>>] \/ eff'[<<i, k>>].st \in {"held", "none"}
      BY <2>1 DEF Advances, Untouched
    <3> QED BY <1>0, <3>1 DEF Whole, OpenOK
  <2> QED BY <1>0, <2>1 DEF Whole, OpenOK
<1> QED BY <1>2, <1>3, <1>4, <1>5, <1>6, <1>7 DEF Whole

\* What an unwinder that goes on after an inverse does to the effects.
GoesOn(u, list) ==
    /\ un'[u].st \in {"inverse", "between"} /\ un'[u].todo \subseteq list
    /\ un'[u].st = "inverse" => un'[u].now \in list
    /\ \A f \in list : eff'[f].st = "held" => un'[u].st = "inverse" /\ f \in un'[u].todo

Began(u, list, f) ==
    /\ f \in list /\ eff[f].st = "held" /\ eff'[f].st = "running" /\ eff'[f].depth = eff[f].depth
    /\ un'[u].st = "inverse" /\ f = un'[u].now

Settled(u, f) ==
    /\ f = un[u].now /\ eff[f].st = "running" /\ eff'[f].depth = eff[f].depth
    /\ eff'[f].st \in {"undone", "refused"} /\ (eff'[f].st = "refused" => un'[u].refused)

Changes(u, list, stack, state) ==
    /\ Len(frames') = Len(stack)
    /\ GoesOn(u, list)
    /\ \A f \in Effects : \/ eff'[f] = state[f]
                          \/ /\ f \in list /\ state[f].st = "held" /\ eff'[f].st = "running"
                             /\ eff'[f].depth = state[f].depth
                             /\ un'[u].st = "inverse" /\ f = un'[u].now

LEMMA UndoesIs ==
    ASSUME NEW u \in Unwinders, NEW list \in SUBSET Effects, NEW flag, NEW was,
           NEW stack, NEW state \in EffType, Undoes(u, list, flag, was, stack, state)
    PROVE  Changes(u, list, stack, state)
<1>1. ASSUME NEW e \in Effects, Starts(u, e, list, flag, stack, state)
      PROVE  Changes(u, list, stack, state)
  <2>1. /\ un'[u].st = "inverse" /\ un'[u].now = e /\ un'[u].todo = Undisposed(list, state) \ {e}
        /\ e \in list /\ state[e].st = "held" /\ eff'[e].st = "running" /\ eff'[e].depth = state[e].depth
        /\ \A f \in Effects \ {e} : eff'[f] = state[f]
        /\ Len(frames') = Len(stack)
    BY <1>1 DEF Starts, Undisposed
  <2>2. \A f \in list : eff'[f].st = "held" => f \in un'[u].todo
    BY <2>1 DEF Undisposed
  <2>3. GoesOn(u, list)
    BY <2>1, <2>2 DEF GoesOn, Undisposed
  <2> QED BY <2>1, <2>3 DEF Changes
<1>2. ASSUME Finishes(u, list, was, stack, state) PROVE Changes(u, list, stack, state)
  BY <1>2 DEF Finishes, GoesOn, Undisposed, Changes
<1> QED BY <1>1, <1>2 DEF Undoes

LEMMA AwaitedDoes ==
    ASSUME CleanInv, NEW u \in Unwinders, Awaited(u)
    PROVE  /\ Len(frames') = Len(frames)
           /\ GoesOn(u, un[u].todo)
           /\ \A f \in Effects : eff'[f] = eff[f] \/ Settled(u, f) \/ Began(u, un[u].todo, f)
           /\ eff'[un[u].now].st # "running"
<1>0. un[u].todo \in SUBSET Effects
  BY DEF CleanInv, OnceInv, TypeOK
<1>1. PICK state \in EffType :
         /\ Settling(u, state)
         /\ state[un[u].now].st = "undone" \/ (state[un[u].now].st = "refused" /\ un'[u].refused)
         /\ \/ \E e \in Effects : Starts(u, e, un[u].todo, unwinding, frames, state)
            \/ Finishes(u, un[u].todo, un[u].was, frames, state)
  BY DEF Awaited
<1> DEFINE list == un[u].todo
           had == un[u].was
<1>2. list \in SUBSET Effects /\ Undoes(u, list, unwinding, had, frames, state)
  BY <1>0, <1>1 DEF Undoes
<1> HIDE DEF list, had
<1>3. /\ Len(frames') = Len(frames)
      /\ GoesOn(u, list)
      /\ \A f \in Effects : \/ eff'[f] = state[f]
                            \/ /\ f \in list /\ state[f].st = "held" /\ eff'[f].st = "running"
                               /\ eff'[f].depth = state[f].depth
                               /\ un'[u].st = "inverse" /\ f = un'[u].now
  <2>1. Changes(u, list, frames, state)
    BY <1>2, UndoesIs, ZenonT(60)
  <2> QED BY <2>1 DEF Changes
<1>4. ASSUME NEW f \in Effects PROVE eff'[f] = eff[f] \/ Settled(u, f) \/ Began(u, list, f)
  <2>1. CASE f = un[u].now
    <3>1. state[f].st # "held" /\ eff'[f] = state[f]
      BY <1>1, <1>3, <2>1
    <3> QED BY <1>1, <2>1, <3>1 DEF Settled, Settling
  <2>2. CASE f # un[u].now
    <3>1. state[f] = eff[f]
      BY <1>1, <2>2 DEF Settling
    <3> QED BY <1>3, <3>1 DEF Began
  <2> QED BY <2>1, <2>2
<1>5. eff'[un[u].now].st # "running"
  <2>1. un[u].now \in Effects /\ state[un[u].now].st # "held"
    BY <1>1 DEF Settling
  <2>2. eff'[un[u].now] = state[un[u].now]
    BY <1>3, <2>1
  <2> QED BY <1>1, <2>2
<1> QED BY <1>3, <1>4, <1>5 DEF list

LEMMA PopsDoes ==
    ASSUME CleanInv, NEW u \in Unwinders, NEW all, Pops(u, all)
    PROVE  /\ Len(frames') = Len(frames) - 1 /\ Len(frames) \in 1..Len(frames)
           /\ GoesOn(u, frames[Len(frames)])
           /\ \A f \in Effects : eff'[f] = eff[f] \/ Began(u, frames[Len(frames)], f)
<1>0. frames \in Seq(SUBSET Effects) /\ Len(frames) \in 1..Len(frames) /\ eff \in EffType
  BY DEF CleanInv, OnceInv, TypeOK, EffType, Pops
<1>1. PICK rest \in Seq(SUBSET Effects) :
         /\ Len(rest) = Len(frames) - 1 /\ \A i \in 1..Len(rest) : rest[i] = frames[i]
         /\ \/ \E e \in Effects : Starts(u, e, frames[Len(frames)], TRUE, rest, eff)
            \/ Finishes(u, frames[Len(frames)], unwinding, rest, eff)
  BY DEF Pops
<1> DEFINE list == frames[Len(frames)]
<1>2. list \in SUBSET Effects /\ Undoes(u, list, TRUE, unwinding, rest, eff)
  <2>1. list \in SUBSET Effects
    BY <1>0
  <2>2. Undoes(u, list, TRUE, unwinding, rest, eff)
    BY <1>1 DEF Undoes
  <2> QED BY <2>1, <2>2
<1> HIDE DEF list
<1>3. /\ Len(frames') = Len(rest)
      /\ GoesOn(u, list)
      /\ \A f \in Effects : \/ eff'[f] = eff[f]
                            \/ /\ f \in list /\ eff[f].st = "held" /\ eff'[f].st = "running"
                               /\ eff'[f].depth = eff[f].depth
                               /\ un'[u].st = "inverse" /\ f = un'[u].now
  <2>1. Changes(u, list, rest, eff)
    BY <1>0, <1>2, UndoesIs, ZenonT(60)
  <2> QED BY <2>1 DEF Changes
<1> QED BY <1>0, <1>1, <1>3 DEF list, Began

\* An inverse settles, and its unwinder goes on.
LEMMA AwaitedWhole ==
    ASSUME WholeInv, NEW u \in Unwinders, Awaited(u), UNCHANGED <<closed, chain, life>>
    PROVE  Whole'
<1>0. /\ Whole /\ CleanInv /\ LifeOK /\ TodoOK /\ Len(frames) \in Nat /\ un[u].st = "inverse"
      /\ \A v \in Unwinders \ {u} : un'[v] = un[v]
      /\ un'[u].all = un[u].all /\ (un[u].refused => un'[u].refused)
  BY DEF WholeInv, OrderInv, CleanInv, OnceInv, TypeOK, Awaited
<1>1. /\ Len(frames') = Len(frames)
      /\ GoesOn(u, un[u].todo)
      /\ \A f \in Effects : eff'[f] = eff[f] \/ Settled(u, f) \/ Began(u, un[u].todo, f)
      /\ eff'[un[u].now].st # "running"
  BY <1>0, AwaitedDoes
<1>2. un'[u].st \in {"inverse", "between"}
  BY <1>1 DEF GoesOn
<1>3. /\ \A v \in Unwinders : /\ Active(v)' <=> Active(v)
                              /\ un'[v].st = "off" <=> un[v].st = "off"
                              /\ un'[v].st = "ended" <=> un[v].st = "ended"
                              /\ un'[v].all = un[v].all
      /\ Active(u)
  BY <1>0, <1>2 DEF Active
<1>4. ASSUME NEW i \in Inits
      PROVE  /\ Trying(i)' <=> Trying(i)
             /\ Deferring(i)' <=> Deferring(i)
  BY <1>3, AttemptIs DEF Trying, Deferring, Busy
<1>5. \A r \in Runs : InFlight(r)' <=> InFlight(r)
  BY <1>3 DEF InFlight, Unwinders, Chains
<1>6. StackOK'
  BY <1>0, <1>1, <1>3, <1>4, <1>5 DEF Whole, StackOK, Unwinders, Chains
<1>7. ASSUME NEW i \in Inits, NEW k \in 1..Steps
      PROVE  /\ eff'[<<i, k>>].st # eff[<<i, k>>].st => eff[<<i, k>>].st \in {"running", "held"}
             /\ eff'[<<i, k>>].depth = eff[<<i, k>>].depth
             /\ eff'[<<i, k>>].st \in {"none", "lost"} <=> eff[<<i, k>>].st \in {"none", "lost"}
             /\ eff'[<<i, k>>].st = "lost" => eff[<<i, k>>].st = "lost"
             /\ u \in Ops => eff'[<<i, k>>] = eff[<<i, k>>]
  <2>1. <<i, k>> \in Effects
    BY AttemptIs
  <2>2. u \in Ops => <<i, k>> # un[u].now /\ <<i, k>> \notin un[u].todo
    <3>1. SUFFICES ASSUME u \in Ops PROVE <<i, k>> # un[u].now /\ <<i, k>> \notin un[u].todo
      OBVIOUS
    <3>2. i # u
      BY <3>1, AttemptIs
    <3>3. un[u].now \in {<<u, m>> : m \in 1..Steps} /\ un[u].todo \subseteq {<<u, m>> : m \in 1..Steps}
      BY <1>0, <3>1 DEF Whole, PlaceOK
    <3> QED BY <3>2, <3>3
  <2>3. eff'[<<i, k>>] = eff[<<i, k>>] \/ Settled(u, <<i, k>>) \/ Began(u, un[u].todo, <<i, k>>)
    BY <1>1, <2>1
  <2> QED BY <2>2, <2>3 DEF Settled, Began
<1>8. PlaceOK'
  <2>1. ASSUME NEW o \in Ops, un'[o].st = "inverse"
        PROVE  /\ un'[o].now \in {<<o, k>> : k \in 1..Steps}
               /\ un'[o].todo \subseteq {<<o, k>> : k \in 1..Steps}
    <3>0. o \in Unwinders
      BY DEF Unwinders, Chains
    <3>1. CASE o = u
      <4>1. un[o].todo \subseteq {<<o, k>> : k \in 1..Steps}
        BY <1>0, <3>1 DEF Whole, PlaceOK
      <4> QED BY <1>1, <2>1, <3>1, <4>1 DEF GoesOn
    <3>2. CASE o # u
      <4>1. un'[o] = un[o]
        BY <1>0, <3>0, <3>2
      <4> QED BY <1>0, <2>1, <4>1 DEF Whole, PlaceOK
    <3> QED BY <3>1, <3>2
  <2>2. \A i \in Inits, k \in 1..Steps : eff'[<<i, k>>].st \notin {"none", "lost"} => eff'[<<i, k>>].depth = 2
    BY <1>0, <1>7 DEF Whole, PlaceOK
  <2> QED BY <2>1, <2>2 DEF PlaceOK
<1>9. MineOK'
  <2>1. ASSUME NEW i \in Inits, Trying(i) \/ (chain[i].pc = "settled" /\ life = "live"),
               NEW k \in 1..chain[i].at
        PROVE  eff'[<<i, k>>].st \in {"held", "none"}
    <3>0. /\ k \in 1..Steps /\ <<i, k>> \in Effects
      <4>1. chain[i].at \in 0..Steps /\ Steps \in Nat
        BY AttemptIs, ScopeConstants
      <4>2. k \in 1..Steps
        BY <4>1
      <4> QED BY <4>2, AttemptIs
    <3>1. eff[<<i, k>>].st \in {"held", "none"}
      BY <1>0, <2>1 DEF Whole, MineOK
    <3>2. ~Settled(u, <<i, k>>)
      BY <3>1 DEF Settled
    <3>3. ASSUME Began(u, un[u].todo, <<i, k>>) PROVE FALSE
      <4>1. u \in Unwinders \ Ops /\ <<i, k>> \in un[u].todo /\ eff'[<<i, k>>].st # eff[<<i, k>>].st
        BY <1>7, <3>0, <3>3 DEF Began
      <4>2. CASE Trying(i)
        <5>1. Busy(i) /\ ~Active(i)
          BY <4>2 DEF Trying
        <5>2. u = i
          BY <1>0, <1>3, <4>1, <5>1, AttemptIs, OnlyOne
        <5> QED BY <1>3, <5>1, <5>2
      <4>3. CASE life = "live"
        <5>1. eff[<<i, k>>].depth = Len(frames) + 1
          BY <1>0, <4>1 DEF TodoOK
        <5>2. Len(frames) >= 2
          BY <1>0, <4>3 DEF Whole, StackOK
        <5>3. eff[<<i, k>>].depth = 2
          BY <1>0, <3>0, <3>3 DEF Whole, PlaceOK, Began
        <5> QED BY <1>0, <5>1, <5>2, <5>3
      <4> QED BY <2>1, <4>2, <4>3
    <3> QED BY <1>1, <3>0, <3>1, <3>2, <3>3
  <2> QED BY <1>4, <2>1 DEF MineOK
<1>10. RecoverOK'
  <2>1. ASSUME NEW i \in Inits, Deferring(i), NEW k \in 1..Steps
        PROVE  /\ eff'[<<i, k>>].st = "held" => un'[i].st = "inverse" /\ <<i, k>> \in un'[i].todo
               /\ eff'[<<i, k>>].st = "running" => un'[i].st = "inverse" /\ <<i, k>> = un'[i].now
               /\ eff'[<<i, k>>].st = "refused" => un'[i].refused
    <3>0. /\ i \in Unwinders \ Ops /\ <<i, k>> \in Effects /\ Active(i)
      BY <2>1, AttemptIs DEF Deferring
    <3>1. /\ eff[<<i, k>>].st = "held" => un[i].st = "inverse" /\ <<i, k>> \in un[i].todo
          /\ eff[<<i, k>>].st = "running" => un[i].st = "inverse" /\ <<i, k>> = un[i].now
          /\ eff[<<i, k>>].st = "refused" => un[i].refused
      BY <1>0, <2>1 DEF Whole, RecoverOK
    <3>2. CASE u \in Ops
      <4>1. un'[i] = un[i] /\ eff'[<<i, k>>] = eff[<<i, k>>]
        BY <1>0, <1>7, <3>0, <3>2
      <4> QED BY <3>1, <4>1
    <3>3. CASE u \notin Ops
      <4>1. u = i
        BY <1>0, <1>3, <3>0, <3>3, ActiveInHand, OnlyOne
      <4>2. CASE eff'[<<i, k>>] = eff[<<i, k>>]
        <5>1. eff[<<i, k>>].st # "running"
          <6>1. SUFFICES ASSUME eff[<<i, k>>].st = "running" PROVE FALSE
            OBVIOUS
          <6>2. <<i, k>> = un[u].now
            BY <3>1, <4>1, <6>1
          <6> QED BY <1>1, <4>2, <6>1, <6>2
        <5> QED BY <1>0, <1>1, <3>1, <4>1, <4>2, <5>1 DEF GoesOn
      <4>3. CASE Settled(u, <<i, k>>)
        BY <4>1, <4>3 DEF Settled
      <4>4. CASE Began(u, un[u].todo, <<i, k>>)
        BY <4>1, <4>4 DEF Began
      <4> QED BY <1>1, <3>0, <4>2, <4>3, <4>4
    <3> QED BY <3>2, <3>3
  <2> QED BY <1>4, <2>1 DEF RecoverOK
<1>11. PastOK'
  <2>1. \A i \in Inits : Gone(i) => Gone(i)'
    BY <1>7 DEF Gone
  <2>2. Inits \subseteq Unwinders
    BY DEF Unwinders, Chains
  <2> QED BY <1>0, <1>3, <2>1, <2>2 DEF Whole, PastOK
<1>12. OpenOK'
  BY <1>0, <1>7 DEF Whole, OpenOK
<1> QED BY <1>6, <1>8, <1>9, <1>10, <1>11, <1>12 DEF Whole

\* What popping a frame does to what init() recorded.
LEMMA PopTouches ==
    ASSUME WholeInv, NEW u \in Unwinders \ Ops, NEW all, NoneAwaits, Pops(u, all) \/ PopsNothing(u, all)
    PROVE  /\ PlaceOK'
           /\ \A i \in Inits : Gone(i) => Gone(i)'
           /\ \A i \in Inits, k \in 1..Steps :
                /\ eff'[<<i, k>>].st # "lost"
                /\ Len(frames) # 2 => eff'[<<i, k>>] = eff[<<i, k>>]
           /\ un'[u].st \in {"inverse", "between"} /\ un'[u].all = all
           /\ \A v \in Unwinders \ {u} : un'[v] = un[v]
           /\ frames # <<>> => Pops(u, all) /\ Len(frames') = Len(frames) - 1
<1>0. /\ Whole /\ CleanInv /\ FrameOK /\ frames \in Seq(SUBSET Effects) /\ Len(frames) \in Nat
      /\ u \in Unwinders
  BY DEF WholeInv, OrderInv, CleanInv, OnceInv, TypeOK
<1>1. /\ \A v \in Unwinders \ {u} : un'[v] = un[v]
      /\ un'[u].all = all
      /\ frames # <<>> => Pops(u, all)
  BY DEF Pops, PopsNothing
<1>2. /\ un'[u].st \in {"inverse", "between"}
      /\ frames # <<>> => Len(frames') = Len(frames) - 1
      /\ \A f \in Effects : eff'[f] = eff[f] \/ (/\ frames # <<>> /\ f \in frames[Len(frames)]
                                                 /\ eff[f].st = "held" /\ eff'[f].st = "running"
                                                 /\ eff'[f].depth = eff[f].depth /\ eff[f].depth = Len(frames))
  <2>1. CASE Pops(u, all)
    <3>1. /\ Len(frames') = Len(frames) - 1 /\ Len(frames) \in 1..Len(frames)
          /\ GoesOn(u, frames[Len(frames)])
          /\ \A f \in Effects : eff'[f] = eff[f] \/ Began(u, frames[Len(frames)], f)
      BY <1>0, <2>1, PopsDoes
    <3>2. \A f \in frames[Len(frames)] : eff[f].depth = Len(frames)
      BY <1>0, <3>1 DEF FrameOK
    <3>3. frames # <<>>
      BY <2>1 DEF Pops
    <3> QED BY <3>1, <3>2, <3>3 DEF GoesOn, Began
  <2>2. CASE PopsNothing(u, all)
    BY <2>2 DEF PopsNothing
  <2> QED BY <2>1, <2>2
<1>3. ASSUME NEW i \in Inits, NEW k \in 1..Steps
      PROVE  /\ eff'[<<i, k>>].depth = eff[<<i, k>>].depth
             /\ eff'[<<i, k>>].st \in {"none", "lost"} <=> eff[<<i, k>>].st \in {"none", "lost"}
             /\ eff'[<<i, k>>].st # "lost"
             /\ eff[<<i, k>>].st # "held" => eff'[<<i, k>>] = eff[<<i, k>>]
             /\ Len(frames) # 2 => eff'[<<i, k>>] = eff[<<i, k>>]
  <2>1. <<i, k>> \in Effects
    BY AttemptIs
  <2>2. /\ eff[<<i, k>>].st # "lost"
        /\ eff[<<i, k>>].st = "held" => eff[<<i, k>>].depth = 2
    BY <1>0 DEF Whole, OpenOK, PlaceOK
  <2> QED BY <1>2, <2>1, <2>2
<1>4. PlaceOK'
  <2>1. \A o \in Ops : un'[o] = un[o]
    BY <1>1 DEF Unwinders, Chains
  <2> QED BY <1>0, <1>3, <2>1 DEF Whole, PlaceOK
<1>5. \A i \in Inits : Gone(i) => Gone(i)'
  BY <1>3 DEF Gone
<1> QED BY <1>1, <1>2, <1>3, <1>4, <1>5

\* A frame is popped by whoever takes the whole scope down.
LEMMA FullWhole ==
    ASSUME WholeInv, NEW u \in Unwinders \ Ops, NoneAwaits, Pops(u, TRUE) \/ PopsNothing(u, TRUE), InHand(u),
           u \in Inits => chain[u].pc = "failed", u \notin Runs,
           UNCHANGED <<closed, chain>>,
           life' = IF u = Teardown THEN "tearing" ELSE life
    PROVE  Whole'
<1>0. /\ Whole /\ LifeOK /\ u \in Inits \cup {Teardown} /\ u \in Unwinders
      /\ u \in Inits => life = "initing" /\ u # Teardown
      /\ u = Teardown => life \in {"tearing", "live"}
  <2>1. Whole /\ LifeOK /\ u \in Inits \cup {Teardown} /\ u \in Unwinders
    BY DEF WholeInv, OrderInv, CleanInv, Unwinders, Chains
  <2>2. u \in Inits => u # Teardown
    BY ScopeConstants DEF Chains
  <2> QED BY <2>1, <2>2 DEF InHand, LifeOK
<1>1. /\ PlaceOK'
      /\ \A i \in Inits : Gone(i) => Gone(i)'
      /\ \A i \in Inits, k \in 1..Steps : eff'[<<i, k>>].st # "lost"
      /\ un'[u].st \in {"inverse", "between"} /\ un'[u].all = TRUE
      /\ \A v \in Unwinders \ {u} : un'[v] = un[v]
  BY PopTouches
<1>2. life' \in {"initing", "tearing"} /\ (u \in Inits => life' = "initing") /\ (u = Teardown => life' = "tearing")
  BY <1>0
<1>3. ASSUME NEW i \in Inits PROVE ~Trying(i)' /\ ~Deferring(i)'
  <2>0. i \in Unwinders /\ i # Teardown
    BY AttemptIs, ScopeConstants DEF Chains
  <2>1. CASE i = u
    BY <1>1, <2>1 DEF Trying, Deferring, Active
  <2>2. CASE i # u
    <3>1. un'[i] = un[i]
      BY <1>1, <2>0, <2>2
    <3>2. ~Busy(i)
      <4>1. CASE u \in Inits
        <5>1. Busy(u)
          BY <4>1 DEF InHand
        <5> QED BY <2>2, <4>1, <5>1, AttemptIs
      <4>2. CASE u = Teardown
        BY <1>0, <4>2, AttemptIs
      <4> QED BY <1>0, <4>1, <4>2
    <3>3. ~Active(i)
      BY <3>2, AttemptIs
    <3> QED BY <3>1, <3>2, <3>3 DEF Trying, Deferring, Active, Busy
  <2> QED BY <2>1, <2>2
<1>4. ASSUME NEW r \in Runs PROVE ~InFlight(r)'
  <2>1. r \in Unwinders /\ r # u
    BY DEF Unwinders, Chains
  <2>2. ~InFlight(r)
    BY <1>0 DEF LifeOK, InHand
  <2> QED BY <1>1, <2>1, <2>2 DEF InFlight
<1>5. StackOK' /\ MineOK' /\ RecoverOK'
  BY <1>2, <1>3, <1>4 DEF StackOK, MineOK, RecoverOK
<1>6. PastOK'
  <2>1. ASSUME NEW i \in Inits, life' \in {"created", "initing"}, un'[i].st = "ended" PROVE Gone(i)'
    <3>1. i # u /\ un[i].st = "ended" /\ life = "initing"
      BY <1>0, <1>1, <1>2, <2>1, AttemptIs
    <3> QED BY <1>0, <1>1, <3>1 DEF Whole, PastOK
  <2>2. ASSUME NEW i \in Inits, chain'[i].pc = "settled" PROVE life' \in {"live", "tearing", "down"}
    <3>1. life \in {"live", "tearing", "down"}
      BY <1>0, <2>2 DEF Whole, PastOK
    <3> QED BY <1>0, <3>1
  <2>3. ASSUME NEW i \in Inits, un'[i].st # "off" PROVE chain'[i].pc = "failed"
    <3>1. i = u \/ un[i].st # "off"
      BY <1>1, <2>3, AttemptIs
    <3> QED BY <1>0, <3>1 DEF Whole, PastOK
  <2> QED BY <2>1, <2>2, <2>3 DEF PastOK
<1>7. OpenOK'
  <2>1. ~closed
    BY <1>0 DEF Whole, OpenOK
  <2> QED BY <1>1, <2>1 DEF OpenOK
<1> QED BY <1>1, <1>5, <1>6, <1>7 DEF Whole

\* A run() recovers.
LEMMA RunWhole ==
    ASSUME WholeInv, NEW r \in Runs, NoneAwaits, Pops(r, FALSE) \/ PopsNothing(r, FALSE),
           InFlight(r), un[r].st = "off", UNCHANGED <<closed, chain, life>>
    PROVE  Whole'
<1>0. /\ Whole /\ LifeOK /\ r \in Unwinders \ Ops /\ life = "live" /\ frames \in Seq(SUBSET Effects)
      /\ Len(frames) \in Nat /\ Len(frames) >= 3
  <2>1. Whole /\ LifeOK /\ r \in Unwinders \ Ops /\ frames \in Seq(SUBSET Effects) /\ Len(frames) \in Nat
    BY ScopeConstants DEF WholeInv, OrderInv, CleanInv, OnceInv, TypeOK, Unwinders, Chains
  <2> QED BY <2>1 DEF LifeOK, Whole, StackOK
<1>1. /\ PlaceOK'
      /\ \A i \in Inits : Gone(i) => Gone(i)'
      /\ \A i \in Inits, k \in 1..Steps : eff'[<<i, k>>].st # "lost" /\ eff'[<<i, k>>] = eff[<<i, k>>]
      /\ un'[r].st \in {"inverse", "between"}
      /\ \A v \in Unwinders \ {r} : un'[v] = un[v]
      /\ Len(frames') = Len(frames) - 1
  <2>1. Len(frames) # 2 /\ Len(frames) # 0
    <3>1. \A n \in Nat : n >= 3 => n # 2 /\ n # 0
      OBVIOUS
    <3>2. Len(frames) \in Nat /\ Len(frames) >= 3
      BY <1>0
    <3> QED BY <3>1, <3>2, Zenon
  <2>2. Len(<<>>) = 0
    OBVIOUS
  <2>3. frames # <<>>
    BY <2>1, <2>2, Zenon
  <2> QED BY <1>0, <2>1, <2>3, PopTouches, ZenonT(60)
<1>2. \A i \in Inits : un'[i] = un[i] /\ i \in Unwinders
  BY <1>1, ScopeConstants DEF Unwinders, Chains
<1>3. ASSUME NEW i \in Inits PROVE ~Trying(i)' /\ ~Deferring(i)'
  <2>1. ~Busy(i) /\ ~Active(i)
    BY <1>0, AttemptIs
  <2> QED BY <1>2, <2>1 DEF Trying, Deferring, Active, Busy
<1>4. ASSUME NEW q \in Runs, InFlight(q)', un'[q].st = "off" PROVE FALSE
  <2>1. q # r
    BY <1>1, <1>4
  <2>2. un'[q] = un[q]
    BY <1>1, <2>1 DEF Unwinders, Chains
  <2>3. InFlight(q)
    BY <1>4, <2>2 DEF InFlight
  <2> QED BY <1>0, <2>1, <2>3 DEF LifeOK
<1>5. StackOK'
  BY <1>0, <1>1, <1>3, <1>4 DEF StackOK
<1>6. MineOK'
  <2>1. ASSUME NEW i \in Inits, chain[i].pc = "settled", NEW k \in 1..chain[i].at
        PROVE  eff'[<<i, k>>].st \in {"held", "none"}
    <3>1. k \in 1..Steps
      <4>1. chain[i].at \in 0..Steps /\ Steps \in Nat
        BY AttemptIs, ScopeConstants
      <4> QED BY <4>1
    <3> QED BY <1>0, <1>1, <2>1, <3>1 DEF Whole, MineOK
  <2> QED BY <1>3, <2>1 DEF MineOK
<1>7. RecoverOK' /\ PastOK' /\ OpenOK'
  BY <1>0, <1>1, <1>2, <1>3 DEF Whole, RecoverOK, PastOK, OpenOK
<1> QED BY <1>1, <1>5, <1>6, <1>7 DEF Whole

\* An attempt at init() that only deferred recovers: its frame alone is popped.
LEMMA DeferWhole ==
    ASSUME WholeInv, NEW i \in Inits, NoneAwaits, Pops(i, FALSE) \/ PopsNothing(i, FALSE),
           chain[i].pc = "failed", un[i].st = "off", UNCHANGED <<closed, chain, life>>
    PROVE  Whole'
<1>0. /\ Whole /\ LifeOK /\ CleanInv /\ FrameOK /\ HeldOK /\ i \in Unwinders \ Ops /\ i \in Unwinders
      /\ frames \in Seq(SUBSET Effects) /\ Len(frames) \in Nat
  BY AttemptIs DEF WholeInv, OrderInv, CleanInv, OnceInv, TypeOK
<1>1. Trying(i) /\ Busy(i) /\ life = "initing"
  BY AttemptIs DEF Trying
<1>2. Len(frames) = 2 /\ frames # <<>>
  <2>1. Len(frames) = 2
    BY <1>0, <1>1 DEF Whole, StackOK
  <2>2. Len(<<>>) # 2
    OBVIOUS
  <2>3. frames # <<>>
    BY <2>1, <2>2, Zenon
  <2> QED BY <2>1, <2>3
<1>3. /\ PlaceOK'
      /\ \A j \in Inits : Gone(j) => Gone(j)'
      /\ \A j \in Inits, k \in 1..Steps : eff'[<<j, k>>].st # "lost"
      /\ un'[i].st \in {"inverse", "between"} /\ un'[i].all = FALSE
      /\ \A v \in Unwinders \ {i} : un'[v] = un[v]
      /\ Pops(i, FALSE) /\ Len(frames') = Len(frames) - 1
  BY <1>0, <1>2, PopTouches, ZenonT(60)
<1>4. /\ GoesOn(i, frames[2])
      /\ \A f \in Effects : eff'[f] = eff[f] \/ Began(i, frames[2], f)
  BY <1>0, <1>2, <1>3, PopsDoes
<1>5. ASSUME NEW j \in Inits PROVE ~Trying(j)' /\ (Deferring(j)' => j = i)
  <2>1. CASE j = i
    BY <1>3, <2>1 DEF Trying, Active
  <2>2. CASE j # i
    <3>1. un'[j] = un[j]
      BY <1>3, <2>2, AttemptIs
    <3>2. ~Busy(j)
      BY <1>1, <2>2, AttemptIs
    <3>3. ~Active(j)
      BY <3>2, AttemptIs
    <3> QED BY <3>1, <3>2, <3>3 DEF Trying, Deferring, Active, Busy
  <2> QED BY <2>1, <2>2
<1>6. \A r \in Runs : ~InFlight(r)'
  <2>1. \A r \in Runs : ~InFlight(r) /\ r \in Unwinders /\ r # i
    BY <1>0, <1>1, AttemptIs DEF LifeOK, Unwinders, Chains
  <2> QED BY <1>3, <2>1 DEF InFlight
<1>7. StackOK'
  BY <1>0, <1>1, <1>2, <1>3, <1>5, <1>6 DEF StackOK
<1>8. MineOK'
  BY <1>1, <1>5 DEF MineOK
<1>9. RecoverOK'
  <2>1. ASSUME NEW k \in 1..Steps
        PROVE  /\ eff'[<<i, k>>].st = "held" => un'[i].st = "inverse" /\ <<i, k>> \in un'[i].todo
               /\ eff'[<<i, k>>].st = "running" => un'[i].st = "inverse" /\ <<i, k>> = un'[i].now
               /\ eff'[<<i, k>>].st # "refused"
    <3>0. <<i, k>> \in Effects
      BY AttemptIs
    <3>1. eff[<<i, k>>].st \in {"held", "none"}
      <4>0. chain[i].at \in 0..Steps /\ Steps \in Nat /\ i \in Chains
        BY AttemptIs, ScopeConstants
      <4>1. CASE k <= chain[i].at
        <5>1. k \in 1..chain[i].at
          BY <4>0, <4>1
        <5> QED BY <1>0, <1>1, <5>1 DEF Whole, MineOK
      <4>2. CASE k > chain[i].at
        <5>1. eff[<<i, k>>].st \in {"none", "lost"}
          BY <1>0, <4>0, <4>2 DEF CleanInv, OnceInv, Steady, FreshOK
        <5> QED BY <1>0, <5>1 DEF Whole, OpenOK
      <4> QED BY <4>0, <4>1, <4>2
    <3>2. eff[<<i, k>>].st = "held" => <<i, k>> \in frames[2]
      <4>1. SUFFICES ASSUME eff[<<i, k>>].st = "held" PROVE <<i, k>> \in frames[2]
        OBVIOUS
      <4>2. PICK n \in 1..Len(frames) : <<i, k>> \in frames[n]
        BY <1>0, <3>0, <4>1 DEF HeldOK, NoneAwaits
      <4>3. eff[<<i, k>>].depth = n /\ eff[<<i, k>>].depth = 2
        BY <1>0, <4>1, <4>2 DEF FrameOK, Whole, PlaceOK
      <4> QED BY <4>2, <4>3
    <3>3. CASE eff'[<<i, k>>] = eff[<<i, k>>]
      BY <1>4, <3>1, <3>2, <3>3 DEF GoesOn
    <3>4. CASE Began(i, frames[2], <<i, k>>)
      BY <3>4 DEF Began
    <3> QED BY <1>4, <3>0, <3>3, <3>4
  <2> QED BY <1>5, <2>1 DEF RecoverOK
<1>10. PastOK'
  <2>1. ASSUME NEW j \in Inits PROVE /\ un'[j].st = "ended" => Gone(j)'
                                     /\ un'[j].st # "off" => chain[j].pc = "failed"
    <3>1. CASE j = i
      BY <1>3, <3>1
    <3>2. CASE j # i
      <4>1. un'[j] = un[j]
        BY <1>3, <3>2, AttemptIs
      <4> QED BY <1>0, <1>1, <1>3, <4>1 DEF Whole, PastOK
    <3> QED BY <3>1, <3>2
  <2> QED BY <1>0, <2>1 DEF Whole, PastOK
<1>11. OpenOK'
  BY <1>0, <1>3 DEF Whole, OpenOK
<1> QED BY <1>3, <1>7, <1>8, <1>9, <1>10, <1>11 DEF Whole

\* An operation disposes of what is its own.
LEMMA DisposeWhole ==
    ASSUME WholeInv, NEW o \in Ops, Disposes(o), UNCHANGED <<closed, chain, life>>
    PROVE  Whole'
<1>0. /\ Whole /\ CleanInv /\ eff \in EffType /\ o \in Unwinders /\ o \in Chains
      /\ \A v \in Unwinders \ {o} : un'[v] = un[v]
  BY DEF WholeInv, OrderInv, CleanInv, OnceInv, TypeOK, EffType, Unwinders, Chains, Disposes
<1>1. PICK list \in SUBSET {<<o, k>> : k \in 1..Steps} :
         \/ \E e \in Effects : Starts(o, e, list, TRUE, frames, eff)
         \/ Finishes(o, list, unwinding, frames, eff)
  BY DEF Disposes
<1>2. Changes(o, list, frames, eff)
  <2>1. list \in SUBSET Effects
    BY <1>0 DEF Effects
  <2>2. Undoes(o, list, TRUE, unwinding, frames, eff)
    BY <1>1 DEF Undoes
  <2> QED BY <1>0, <2>1, <2>2, UndoesIs, ZenonT(60)
<1>3. \A i \in Inits : un'[i] = un[i] /\ i # o
  BY <1>0, AttemptIs
<1>4. \A i \in Inits : Untouched(i)
  <2>1. ASSUME NEW i \in Inits, NEW k \in 1..Steps PROVE eff'[<<i, k>>] = eff[<<i, k>>]
    <3>1. <<i, k>> \in Effects /\ <<i, k>> \notin list
      BY <1>1, <1>3, AttemptIs
    <3> QED BY <1>2, <3>1 DEF Changes
  <2> QED BY <2>1 DEF Untouched
<1>5. \A r \in Runs : un'[r] = un[r]
  BY <1>0, ScopeConstants DEF Unwinders, Chains
<1>6. \A i \in Inits : (Trying(i)' <=> Trying(i)) /\ (Deferring(i)' <=> Deferring(i)) /\ chain[i].at \in 0..Steps
  BY <1>3, AttemptIs DEF Trying, Deferring, Busy, Active
<1>7. \A r \in Runs : InFlight(r)' <=> InFlight(r)
  BY <1>5 DEF InFlight
<1>8. StackOK'
  BY <1>0, <1>2, <1>5, <1>6, <1>7 DEF Whole, StackOK, Changes
<1>9. PlaceOK'
  <2>1. ASSUME NEW p \in Ops, un'[p].st = "inverse"
        PROVE  /\ un'[p].now \in {<<p, k>> : k \in 1..Steps}
               /\ un'[p].todo \subseteq {<<p, k>> : k \in 1..Steps}
    <3>1. CASE p = o
      BY <1>1, <1>2, <2>1, <3>1 DEF Changes, GoesOn
    <3>2. CASE p # o
      <4>1. un'[p] = un[p]
        BY <1>0, <3>2 DEF Unwinders, Chains
      <4> QED BY <1>0, <2>1, <4>1 DEF Whole, PlaceOK
    <3> QED BY <3>1, <3>2
  <2> QED BY <1>0, <1>4, <2>1 DEF Whole, PlaceOK, Untouched
<1>10. MineOK'
  <2>1. ASSUME NEW i \in Inits, NEW k \in 1..chain[i].at PROVE eff'[<<i, k>>] = eff[<<i, k>>]
    <3>1. k \in 1..Steps
      BY <1>6, ScopeConstants
    <3> QED BY <1>4, <3>1 DEF Untouched
  <2> QED BY <1>0, <1>6, <2>1 DEF Whole, MineOK
<1>11. RecoverOK'
  BY <1>0, <1>3, <1>4, <1>6 DEF Whole, RecoverOK, Untouched
<1>12. PastOK'
  <2>1. \A i \in Inits : Gone(i)' <=> Gone(i)
    BY <1>4 DEF Gone, Untouched
  <2> QED BY <1>0, <1>3, <2>1 DEF Whole, PastOK
<1>13. OpenOK'
  BY <1>0, <1>4 DEF Whole, OpenOK, Untouched
<1> QED BY <1>8, <1>9, <1>10, <1>11, <1>12, <1>13 DEF Whole

\* The scope is closed.
LEMMA ClosesWhole ==
    ASSUME WholeInv, NEW u \in Unwinders, ScopeCloses(u)
    PROVE  Whole'
<1>0. /\ Whole /\ LifeOK /\ Active(u) /\ un[u].all
      /\ un \in [Unwinders -> UnRecord] /\ UNCHANGED <<eff, chain>>
      /\ un' = [un EXCEPT ![u] = Ended]
  BY DEF WholeInv, OrderInv, CleanInv, OnceInv, TypeOK, UnRecord, Active, ScopeCloses
<1>1. u \in Unwinders \ Ops /\ (u \in Inits \/ u = Teardown)
  BY <1>0 DEF LifeOK, Unwinders, Chains
<1>2. un'[u].st = "ended" /\ \A v \in Unwinders \ {u} : un'[v] = un[v]
  BY <1>0 DEF Ended, Off
<1>3. /\ u \in Inits => chain[u].pc = "failed" /\ Busy(u) /\ life = "initing"
      /\ u = Teardown => life = "tearing" /\ life' = "down"
      /\ life' \in {"down", "withheld", "discarded"}
  BY <1>0, AttemptIs DEF LifeOK, ScopeCloses
<1>4. ASSUME NEW i \in Inits PROVE ~Trying(i)' /\ ~Deferring(i)'
  <2>1. CASE i = u
    BY <1>0, <1>2, <1>3, <2>1 DEF Trying, Deferring, Active, Busy
  <2>2. CASE i # u
    <3>1. un'[i] = un[i]
      BY <1>2, <2>2, AttemptIs
    <3>2. ~Busy(i)
      BY <1>1, <1>3, <2>2, AttemptIs
    <3>3. ~Active(i)
      BY <3>2, AttemptIs
    <3> QED BY <1>0, <3>1, <3>2, <3>3 DEF Trying, Deferring, Active, Busy
  <2> QED BY <2>1, <2>2
<1>5. \A r \in Runs : ~InFlight(r)'
  <2>1. \A r \in Runs : ~InFlight(r) /\ r \in Unwinders /\ r # u
    BY <1>0, <1>1, <1>3, ScopeConstants DEF LifeOK, Unwinders, Chains
  <2> QED BY <1>0, <1>2, <2>1 DEF InFlight
<1>6. StackOK' /\ MineOK' /\ RecoverOK'
  BY <1>3, <1>4, <1>5 DEF StackOK, MineOK, RecoverOK
<1>7. PlaceOK' /\ OpenOK'
  <2>1. \A o \in Ops : un'[o] = un[o]
    BY <1>1, <1>2 DEF Unwinders, Chains
  <2> QED BY <1>0, <1>3, <2>1 DEF Whole, PlaceOK, OpenOK
<1>8. PastOK'
  <2>1. ASSUME NEW i \in Inits PROVE /\ chain'[i].pc = "settled" => life' \in {"live", "tearing", "down"}
                                     /\ un'[i].st # "off" => chain'[i].pc = "failed"
    <3>1. /\ chain[i].pc = "settled" => life \in {"live", "tearing", "down"}
          /\ un[i].st # "off" => chain[i].pc = "failed"
      BY <1>0 DEF Whole, PastOK
    <3>2. i = u \/ un'[i] = un[i]
      BY <1>2, AttemptIs
    <3> QED BY <1>0, <1>1, <1>3, <3>1, <3>2
  <2> QED BY <1>3, <2>1 DEF PastOK
<1> QED BY <1>6, <1>7, <1>8 DEF Whole

\* A recovery or a disposal is over.
LEMMA UnwoundWhole ==
    ASSUME WholeInv, NEW u \in Unwinders, FrameUnwound(u)
    PROVE  Whole'
<1>0. /\ Whole /\ LifeOK /\ Active(u) /\ ~un[u].all /\ un[u].st = "between"
      /\ un \in [Unwinders -> UnRecord] /\ UNCHANGED <<frames, eff, chain, closed>>
      /\ un' = [un EXCEPT ![u] = Ended]
      /\ life' = IF u \in Inits THEN IF un[u].refused THEN "withheld" ELSE "created" ELSE life
  BY DEF WholeInv, OrderInv, CleanInv, OnceInv, TypeOK, UnRecord, Active, FrameUnwound
<1>1. un'[u].st = "ended" /\ \A v \in Unwinders \ {u} : un'[v] = un[v]
  BY <1>0 DEF Ended, Off
<1>2. PlaceOK'
  <2>1. \A o \in Ops : un'[o].st = "inverse" => un'[o] = un[o]
    BY <1>1 DEF Unwinders, Chains
  <2> QED BY <1>0, <2>1 DEF Whole, PlaceOK
<1>3. \A r \in Runs : InFlight(r)' /\ un'[r].st = "off" => InFlight(r) /\ un[r].st = "off"
  <2>1. \A r \in Runs : r \in Unwinders
    BY DEF Unwinders, Chains
  <2> QED BY <1>0, <1>1, <2>1 DEF InFlight
<1>4. CASE u \notin Inits
  <2>1. \A i \in Inits : un'[i] = un[i]
    BY <1>1, <1>4, AttemptIs
  <2>2. \A i \in Inits : /\ Trying(i)' <=> Trying(i)
                         /\ Deferring(i)' <=> Deferring(i)
                         /\ Gone(i)' <=> Gone(i)
    BY <1>0, <2>1 DEF Trying, Deferring, Busy, Active, Gone
  <2>3. life' = life
    BY <1>0, <1>4
  <2>4. StackOK'
    BY <1>0, <1>3, <2>2, <2>3 DEF Whole, StackOK
  <2>5. MineOK' /\ RecoverOK' /\ PastOK' /\ OpenOK'
    BY <1>0, <2>1, <2>2, <2>3 DEF Whole, MineOK, RecoverOK, PastOK, OpenOK
  <2> QED BY <1>2, <2>4, <2>5 DEF Whole
<1>5. CASE u \in Inits
  <2>1. Deferring(u) /\ Busy(u) /\ life = "initing" /\ chain[u].pc = "failed"
    BY <1>0, <1>5, AttemptIs DEF Deferring, LifeOK
  <2>2. Len(frames) = 1 /\ life' \in {"created", "withheld"}
    BY <1>0, <1>5, <2>1 DEF Whole, StackOK
  <2>3. ASSUME NEW i \in Inits PROVE ~Trying(i)' /\ ~Deferring(i)'
    <3>1. CASE i = u
      BY <1>0, <1>1, <2>1, <3>1 DEF Trying, Deferring, Active, Busy
    <3>2. CASE i # u
      <4>1. un'[i] = un[i]
        BY <1>1, <3>2, AttemptIs
      <4>2. ~Busy(i)
        BY <1>5, <2>1, <3>2, AttemptIs
      <4>3. ~Active(i)
        BY <4>2, AttemptIs
      <4> QED BY <1>0, <4>1, <4>2, <4>3 DEF Trying, Deferring, Active, Busy
    <3> QED BY <3>1, <3>2
  <2>4. \A r \in Runs : ~InFlight(r)
    BY <1>0, <2>1 DEF LifeOK
  <2>5. StackOK' /\ MineOK' /\ RecoverOK'
    BY <1>0, <1>3, <2>2, <2>3, <2>4 DEF StackOK, MineOK, RecoverOK
  <2>6. PastOK'
    <3>1. ASSUME NEW i \in Inits, life' \in {"created", "initing"}, un'[i].st = "ended" PROVE Gone(i)'
      <4>1. CASE i = u
        <5>1. ~un[u].refused
          BY <1>0, <1>5, <3>1
        <5>2. Gone(u)
          BY <1>0, <1>5, <2>1, <5>1 DEF Whole, RecoverOK, Gone
        <5> QED BY <1>0, <4>1, <5>2 DEF Gone
      <4>2. CASE i # u
        <5>1. un[i].st = "ended"
          BY <1>1, <3>1, <4>2, AttemptIs
        <5>2. Gone(i)
          BY <1>0, <2>1, <5>1 DEF Whole, PastOK
        <5> QED BY <1>0, <5>2 DEF Gone
      <4> QED BY <4>1, <4>2
    <3>2. ASSUME NEW i \in Inits PROVE chain[i].pc # "settled" /\ (un'[i].st # "off" => chain[i].pc = "failed")
      <4>1. /\ chain[i].pc # "settled"
            /\ un[i].st # "off" => chain[i].pc = "failed"
        BY <1>0, <2>1 DEF Whole, PastOK
      <4>2. i = u \/ un'[i] = un[i]
        BY <1>1, AttemptIs
      <4> QED BY <2>1, <4>1, <4>2
    <3> QED BY <1>0, <3>1, <3>2 DEF PastOK
  <2>7. OpenOK'
    BY <1>0, <2>1 DEF Whole, OpenOK
  <2> QED BY <1>2, <2>5, <2>6, <2>7 DEF Whole
<1> QED BY <1>4, <1>5

\* An attempt at init() is made.
LEMMA BeginsWhole ==
    ASSUME WholeInv, NEW i \in Inits, InitBegins(i)
    PROVE  Whole'
<1>0. /\ Whole /\ LifeOK /\ frames \in Seq(SUBSET Effects) /\ i \in Chains
      /\ life = "created" /\ life' = "initing" /\ chain[i].pc = "idle" /\ UNCHANGED <<closed, eff, un>>
      /\ chain \in [Chains -> [pc: {"idle", "called", "body", "ok", "failed", "settled"},
                               at: 0..Steps, why: Reasons]]
      /\ chain' = [chain EXCEPT ![i] = [pc |-> "called", at |-> 0, why |-> "none"]]
      /\ frames' = Append(frames, {})
  BY AttemptIs DEF WholeInv, OrderInv, CleanInv, OnceInv, TypeOK, InitBegins, Idle, OpenFrame, Pc
<1>1. Len(frames') = 2
  <2>1. Len(frames) = 1
    BY <1>0 DEF Whole, StackOK
  <2>2. Len(frames') = Len(frames) + 1
    BY <1>0
  <2> QED BY <2>1, <2>2
<1>2. chain'[i].pc = "called" /\ chain'[i].at = 0 /\ \A c \in Chains \ {i} : chain'[c] = chain[c]
  BY <1>0
<1>3. ASSUME NEW j \in Inits PROVE ~Deferring(j)' /\ (Trying(j)' => j = i)
  <2>1. ~Busy(j) /\ ~Active(j)
    BY <1>0, AttemptIs
  <2>2. j # i => chain'[j] = chain[j]
    BY <1>2, AttemptIs
  <2> QED BY <1>0, <2>1, <2>2 DEF Trying, Deferring, Active, Busy
<1>4. \A r \in Runs : ~InFlight(r)'
  <2>1. \A r \in Runs : ~InFlight(r) /\ chain'[r] = chain[r]
    BY <1>0, <1>2, AttemptIs DEF LifeOK, Chains
  <2> QED BY <1>0, <2>1 DEF InFlight
<1>5. StackOK'
  BY <1>0, <1>1, <1>3, <1>4 DEF StackOK
<1>6. MineOK' /\ RecoverOK'
  BY <1>0, <1>2, <1>3 DEF MineOK, RecoverOK
<1>7. PlaceOK' /\ OpenOK'
  BY <1>0 DEF Whole, PlaceOK, OpenOK
<1>8. PastOK'
  <2>1. \A j \in Inits : /\ j # i => chain'[j] = chain[j]
                         /\ chain[j].pc # "settled"
                         /\ un[j].st # "off" => chain[j].pc = "failed"
                         /\ Gone(j)' <=> Gone(j)
    BY <1>0, <1>2, AttemptIs DEF Whole, PastOK, Gone
  <2> QED BY <1>0, <1>2, <2>1 DEF Whole, PastOK
<1> QED BY <1>5, <1>6, <1>7, <1>8 DEF Whole

\* An attempt at init() has made the resource.
LEMMA PublishedWhole ==
    ASSUME WholeInv, NEW i \in Inits, InitPublished(i)
    PROVE  Whole'
<1>0. /\ Whole /\ LifeOK /\ frames \in Seq(SUBSET Effects) /\ i \in Chains /\ i \notin Runs
      /\ life' = "live" /\ chain[i].pc = "ok" /\ UNCHANGED <<frames, closed, eff, un>>
      /\ chain \in [Chains -> [pc: {"idle", "called", "body", "ok", "failed", "settled"},
                               at: 0..Steps, why: Reasons]]
      /\ chain' = [chain EXCEPT ![i].pc = "settled"]
  BY AttemptIs DEF WholeInv, OrderInv, CleanInv, OnceInv, TypeOK, InitPublished
<1>1. Trying(i) /\ Busy(i) /\ life = "initing" /\ Len(frames) = 2 /\ un[i].st = "off"
  BY <1>0, AttemptIs DEF Trying, Whole, StackOK
<1>2. chain'[i].pc = "settled" /\ chain'[i].at = chain[i].at /\ \A c \in Chains \ {i} : chain'[c] = chain[c]
  BY <1>0
<1>3. ASSUME NEW j \in Inits
      PROVE  /\ ~Deferring(j)' /\ ~Trying(j)'
             /\ chain'[j].pc = "settled" => j = i
             /\ un[j].st # "off" => chain'[j].pc = "failed"
  <2>1. CASE j = i
    BY <1>0, <1>1, <1>2, <2>1 DEF Trying, Deferring, Active, Busy
  <2>2. CASE j # i
    <3>1. chain'[j] = chain[j]
      BY <1>2, <2>2, AttemptIs
    <3>2. ~Busy(j)
      BY <1>1, <2>2, AttemptIs
    <3>3. ~Active(j)
      BY <3>2, AttemptIs
    <3>4. chain[j].pc # "settled" /\ (un[j].st # "off" => chain[j].pc = "failed")
      BY <1>0, <1>1 DEF Whole, PastOK
    <3> QED BY <1>0, <3>1, <3>2, <3>3, <3>4 DEF Trying, Deferring, Active, Busy
  <2> QED BY <2>1, <2>2
<1>4. \A r \in Runs : ~InFlight(r)'
  <2>1. \A r \in Runs : ~InFlight(r) /\ chain'[r] = chain[r]
    BY <1>0, <1>1, <1>2 DEF LifeOK, Chains
  <2> QED BY <1>0, <2>1 DEF InFlight
<1>5. StackOK'
  BY <1>0, <1>1, <1>3, <1>4 DEF StackOK
<1>6. MineOK'
  <2>1. \A k \in 1..chain[i].at : eff[<<i, k>>].st \in {"held", "none"}
    BY <1>0, <1>1 DEF Whole, MineOK
  <2> QED BY <1>0, <1>2, <1>3, <2>1 DEF MineOK
<1>7. RecoverOK'
  BY <1>3 DEF RecoverOK
<1>8. PlaceOK' /\ OpenOK'
  BY <1>0, <1>1 DEF Whole, PlaceOK, OpenOK
<1>9. PastOK'
  BY <1>0, <1>3 DEF PastOK
<1> QED BY <1>5, <1>6, <1>7, <1>8, <1>9 DEF Whole

\* A run() begins.
LEMMA RunBeginsWhole ==
    ASSUME ~Overlapping, WholeInv, NEW r \in Runs, RunBegins(r)
    PROVE  Whole'
<1>0. /\ Whole /\ LifeOK /\ frames \in Seq(SUBSET Effects) /\ r \in Chains
      /\ life = "live" /\ UNCHANGED <<closed, eff, un, life>>
      /\ chain \in [Chains -> [pc: {"idle", "called", "body", "ok", "failed", "settled"},
                               at: 0..Steps, why: Reasons]]
      /\ chain' = [chain EXCEPT ![r] = [pc |-> "called", at |-> 0, why |-> "none"]]
      /\ frames' = Append(frames, {})
  BY DEF WholeInv, OrderInv, CleanInv, OnceInv, TypeOK, RunBegins, Idle, OpenFrame, Pc, Chains
<1>1. Len(frames') >= 3 /\ Len(frames') \in Nat
  <2>1. Len(frames) >= 2 /\ Len(frames) \in Nat
    BY <1>0 DEF Whole, StackOK
  <2>2. Len(frames') = Len(frames) + 1
    BY <1>0
  <2> QED BY <2>1, <2>2
<1>2. \A i \in Inits : chain'[i] = chain[i]
  BY <1>0, AttemptIs
<1>3. \A i \in Inits : ~Deferring(i)' /\ ~Trying(i)'
  <2>1. \A i \in Inits : ~Busy(i) /\ ~Active(i)
    BY <1>0, AttemptIs
  <2> QED BY <1>0, <1>2, <2>1 DEF Trying, Deferring, Active, Busy
<1>4. StackOK'
  BY <1>0, <1>1, <1>3 DEF StackOK
<1>5. MineOK' /\ RecoverOK'
  BY <1>0, <1>2, <1>3 DEF Whole, MineOK, RecoverOK
<1>6. PlaceOK' /\ OpenOK'
  BY <1>0 DEF Whole, PlaceOK, OpenOK
<1>7. PastOK'
  BY <1>0, <1>2 DEF Whole, PastOK, Gone
<1> QED BY <1>4, <1>5, <1>6, <1>7 DEF Whole

\* A chain moves on, and no other.
LEMMA PcIs ==
    ASSUME TypeOK, NEW c \in Chains, NEW pc, NEW at, NEW why, chain' = Pc(c, pc, at, why)
    PROVE  /\ chain'[c].pc = pc /\ chain'[c].at = at
           /\ \A d \in Chains \ {c} : chain'[d] = chain[d]
BY DEF TypeOK, Pc

LEMMA BoundaryIs ==
    ASSUME TypeOK, NEW c \in Chains, NEW at, chain' = Boundary(c, at)
    PROVE  /\ chain'[c].pc \in {"body", "ok", "failed"} /\ chain'[c].at = at
           /\ \A d \in Chains \ {c} : chain'[d] = chain[d]
<1>1. \E pc \in {"body", "ok", "failed"}, why \in Reasons : chain' = Pc(c, pc, at, why)
  BY DEF Boundary, Refusal, Reasons
<1> QED BY <1>1, PcIs

\* The body of a step resolves.
LEMMA StepDoneWhole ==
    ASSUME WholeInv, NEW c \in Chains, StepDone(c)
    PROVE  Whole'
<1> DEFINE e == <<c, chain[c].at + 1>>
<1>0. /\ TypeOK /\ Whole /\ LifeOK /\ BodyOK /\ FreshOK /\ chain[c].pc = "body" /\ chain[c].at \in 0..Steps
      /\ frames \in Seq(SUBSET Effects) /\ Len(frames) \in Nat /\ eff \in EffType
      /\ UNCHANGED <<unwinding, closed, un, life>>
  BY DEF WholeInv, OrderInv, CleanInv, OnceInv, Steady, TypeOK, EffType, StepDone
<1>1. chain[c].at + 1 \in 1..Steps /\ e \in Effects
  <2>1. chain[c].at < Steps
    BY <1>0 DEF BodyOK
  <2>2. chain[c].at + 1 \in 1..Steps
    BY <1>0, <2>1, ScopeConstants
  <2> QED BY <2>2 DEF Effects
<1>2. c \in Inits => Trying(c) /\ Len(frames) = 2 /\ ~closed /\ frames # <<>>
  <2>1. SUFFICES ASSUME c \in Inits PROVE Trying(c) /\ Len(frames) = 2 /\ ~closed /\ frames # <<>>
    OBVIOUS
  <2>2. Trying(c) /\ life = "initing"
    BY <1>0, <2>1, AttemptIs DEF Trying
  <2>3. Len(frames) = 2 /\ ~closed
    BY <1>0, <2>1, <2>2 DEF Whole, StackOK, OpenOK
  <2>4. Len(<<>>) # 2
    OBVIOUS
  <2> QED BY <2>2, <2>3, <2>4
<1>3. /\ chain'[c].pc \in {"body", "ok", "failed"}
      /\ \A d \in Chains \ {c} : chain'[d] = chain[d]
      /\ c \in Inits => chain'[c].at = chain[c].at + 1
  <2>1. CASE chain' = Boundary(c, chain[c].at + 1)
    BY <1>0, <2>1, BoundaryIs
  <2>2. CASE \E why \in Reasons : (closed \/ frames = <<>>) /\ chain' = Pc(c, "failed", chain[c].at, why)
    BY <1>0, <1>2, <2>2, PcIs
  <2> QED BY <2>1, <2>2 DEF StepDone, Reasons
<1>4. /\ Len(frames') = Len(frames)
      /\ \A f \in Effects \ {e} : eff'[f] = eff[f]
      /\ c \in Inits => eff'[e] = eff[e] \/ (eff'[e].st = "held" /\ eff'[e].depth = 2)
  <2>1. CASE frames # <<>> /\ Record(e)
    <3>1. frames' = [frames EXCEPT ![Len(frames)] = @ \cup {e}] /\ Len(frames) \in 1..Len(frames)
      BY <1>0, <2>1 DEF Record
    <3>2. Len(frames') = Len(frames)
      BY <1>0, <3>1
    <3>3. /\ eff'[e].st = "held" /\ eff'[e].depth = Len(frames)
          /\ \A f \in Effects \ {e} : eff'[f] = eff[f]
      BY <1>0, <1>1, <2>1 DEF Record, EffType
    <3> QED BY <1>2, <3>2, <3>3
  <2>2. CASE (closed \/ frames = <<>>) /\ eff' = [eff EXCEPT ![e].st = "lost"] /\ UNCHANGED frames
    BY <1>0, <1>1, <1>2, <2>2 DEF EffType
  <2>3. CASE UNCHANGED <<frames, eff>>
    BY <2>3
  <2> QED BY <2>1, <2>2, <2>3 DEF StepDone
<1>5. c \in Inits => eff[e].st = "none"
  <2>1. eff[e].st \in {"none", "lost"}
    BY <1>0, <1>1 DEF FreshOK
  <2> QED BY <1>0, <1>1, <2>1 DEF Whole, OpenOK
<1>6. ASSUME NEW i \in Inits PROVE Advances(i)
  <2>1. CASE i = c
    <3>1. \A k \in 1..Steps : k # chain[i].at + 1 => eff'[<<i, k>>] = eff[<<i, k>>]
      BY <1>4, <2>1, AttemptIs
    <3>2. /\ eff'[<<i, chain[i].at + 1>>].st \in {"held", "none"}
          /\ eff'[<<i, chain[i].at + 1>>].st = "held" => eff'[<<i, chain[i].at + 1>>].depth = 2
      BY <1>4, <1>5, <2>1
    <3> QED BY <1>0, <1>3, <2>1, <3>1, <3>2 DEF Advances
  <2>2. CASE i # c
    <3>1. Untouched(i)
      BY <1>4, <2>2, AttemptIs DEF Untouched
    <3> QED BY <1>3, <2>2, <3>1, AttemptIs DEF Advances
  <2> QED BY <2>1, <2>2
<1>7. \A r \in Runs : InFlight(r)' => InFlight(r)
  <2>1. \A r \in Runs : r \in Chains
    BY DEF Chains
  <2> QED BY <1>0, <1>3, <2>1 DEF InFlight
<1> QED BY <1>0, <1>4, <1>6, <1>7, ChainsWhole

\* Nothing is recorded: a step throws, a method settles, an operation begins.
LEMMA MovesWhole ==
    ASSUME WholeInv, NEW c \in Chains, UNCHANGED <<frames, closed, eff, un, life>>,
           \A d \in Chains \ {c} : chain'[d] = chain[d],
           c \in Inits => /\ chain[c].pc \in {"called", "body"} /\ chain'[c].pc \in {"body", "ok", "failed"}
                          /\ chain'[c].at = chain[c].at,
           c \in Runs => chain[c].pc \notin {"idle", "settled"}
    PROVE  Whole'
<1>1. ASSUME NEW i \in Inits PROVE Advances(i)
  <2>1. Untouched(i)
    BY DEF Untouched
  <2> QED BY <2>1, AttemptIs DEF Advances
<1>2. \A r \in Runs : InFlight(r)' => InFlight(r)
  <2>1. \A r \in Runs : r \in Chains
    BY DEF Chains
  <2> QED BY <2>1 DEF InFlight
<1> QED BY <1>1, <1>2, ChainsWhole

LEMMA ChainStepsWhole ==
    ASSUME WholeInv, NEW c \in Chains, StepDone(c) \/ StepThrows(c) \/ MethodSettles(c)
    PROVE  Whole'
<1>0. TypeOK /\ BodyOK
  BY DEF WholeInv, OrderInv, CleanInv, OnceInv, Steady
<1>1. CASE StepThrows(c)
  <2>1. /\ chain'[c].pc = "failed" /\ chain'[c].at = chain[c].at
        /\ \A d \in Chains \ {c} : chain'[d] = chain[d]
    BY <1>0, <1>1, PcIs DEF StepThrows
  <2> QED BY <1>1, <2>1, MovesWhole DEF StepThrows
<1>2. CASE MethodSettles(c)
  <2>1. chain[c].pc = "called" /\ chain[c].at = 0
    BY <1>0, <1>2 DEF MethodSettles, BodyOK
  <2>2. /\ chain'[c].pc \in {"body", "ok", "failed"} /\ chain'[c].at = 0
        /\ \A d \in Chains \ {c} : chain'[d] = chain[d]
    BY <1>0, <1>2, PcIs, BoundaryIs DEF MethodSettles
  <2> QED BY <1>2, <2>1, <2>2, MovesWhole DEF MethodSettles
<1> QED BY <1>1, <1>2, StepDoneWhole

LEMMA RunSettlesWhole ==
    ASSUME WholeInv, NEW r \in Runs, NEW p \in BOOLEAN, RunSettles(r, p)
    PROVE  Whole'
<1>0. TypeOK /\ r \in Chains /\ r \notin Inits
  BY ScopeConstants DEF WholeInv, OrderInv, CleanInv, OnceInv, Chains
<1>1. \A d \in Chains \ {r} : chain'[d] = chain[d]
  <2>1. CASE chain' = [chain EXCEPT ![r].pc = "settled"]
    BY <1>0, <2>1 DEF TypeOK
  <2>2. CASE chain' = Pc(r, "failed", chain[r].at, "threw")
    BY <1>0, <2>2, PcIs
  <2> QED BY <2>1, <2>2 DEF RunSettles
<1> QED BY <1>0, <1>1, MovesWhole DEF RunSettles

LEMMA OpsWhole ==
    ASSUME WholeInv, NEW o \in Ops, Perform(o) \/ Register(o)
    PROVE  Whole'
<1>0. /\ TypeOK /\ o \in Chains /\ o \notin Inits /\ o \notin Runs /\ frames \in Seq(SUBSET Effects)
      /\ eff \in EffType /\ <<o, 1>> \in Effects
  <2>1. o \in Chains /\ o \notin Inits /\ o \notin Runs /\ 1 \in 1..Steps
    BY ScopeConstants DEF Chains
  <2> QED BY <2>1 DEF WholeInv, OrderInv, CleanInv, OnceInv, TypeOK, EffType, Effects
<1>1. \A d \in Chains \ {o} : chain'[d] = chain[d]
  <2>1. CASE Perform(o)
    BY <1>0, <2>1, BoundaryIs DEF Perform
  <2>2. CASE Register(o)
    BY <1>0, <2>2, PcIs DEF Register
  <2> QED BY <2>1, <2>2
<1>2. UNCHANGED <<un, life, closed>>
  BY DEF Perform, Register
<1>3. Len(frames') = Len(frames) /\ \A f \in Effects \ {<<o, 1>>} : eff'[f] = eff[f]
  <2>1. CASE UNCHANGED <<frames, eff>>
    BY <2>1
  <2>2. CASE frames # <<>> /\ Record(<<o, 1>>)
    <3> DEFINE e == <<o, 1>>
    <3>1. frames' = [frames EXCEPT ![Len(frames)] = @ \cup {e}] /\ Len(frames) \in 1..Len(frames)
      BY <1>0, <2>2 DEF Record
    <3>2. Len(frames') = Len(frames)
      BY <1>0, <3>1
    <3> QED BY <1>0, <2>2, <3>2 DEF Record, EffType
  <2> QED BY <2>1, <2>2 DEF Perform, Register
<1>4. ASSUME NEW i \in Inits PROVE Advances(i)
  <2>1. i # o /\ i \in Chains
    BY <1>0, AttemptIs
  <2>2. Untouched(i)
    BY <1>3, <2>1, AttemptIs DEF Untouched
  <2> QED BY <1>1, <2>1, <2>2 DEF Advances
<1>5. \A r \in Runs : InFlight(r)' => InFlight(r)
  <2>1. \A r \in Runs : r \in Chains /\ r # o
    BY <1>0 DEF Chains
  <2> QED BY <1>1, <1>2, <2>1 DEF InFlight
<1> QED BY <1>2, <1>3, <1>4, <1>5, ChainsWhole

\* The recoveries and the teardown.
LEMMA PopperWhole ==
    ASSUME ~Overlapping, WholeInv,
           \/ \E u \in Unwinders : NextFrame(u)
           \/ \E i \in Inits, d \in BOOLEAN : InitRecovers(i, d)
           \/ \E r \in Runs : RunRecovers(r)
           \/ TeardownBegins
    PROVE  Whole'
<1>0. OnceInv /\ LifeOK /\ Teardown \in Unwinders \ Ops /\ Teardown \notin Inits /\ Teardown \notin Runs
  BY ScopeConstants DEF WholeInv, OrderInv, CleanInv, Unwinders, Chains
<1>1. ASSUME NEW u \in Unwinders \ Ops, InHand(u), un[u].st # "inverse",
             NEW all \in BOOLEAN, NEW refused \in BOOLEAN, UnwindFrame(u, all, refused)
      PROVE  NoneAwaits /\ (Pops(u, all) \/ PopsNothing(u, all))
  <2>1. NoneAwaits
    BY <1>0, <1>1, OnlyOne DEF NoneAwaits, Active
  <2>2. Pops(u, all) \/ PopsNothing(u, all)
    BY <1>0, <1>1, UnwindFrameIs, ZenonT(60)
  <2> QED BY <2>1, <2>2
<1>2. ASSUME NEW u \in Unwinders, NextFrame(u) PROVE Whole'
  <2> DEFINE refused == un[u].refused
  <2>1. un[u].st = "between" /\ un[u].all /\ refused \in BOOLEAN /\ UnwindFrame(u, TRUE, refused)
        /\ UNCHANGED <<closed, chain, life>>
    BY <1>0, <1>2 DEF NextFrame, OnceInv, TypeOK
  <2>2. u \in Unwinders \ Ops /\ u \notin Runs /\ Active(u) /\ un[u].st # "inverse"
    BY <1>0, <2>1 DEF LifeOK, Active
  <2>3. InHand(u) /\ (u \in Inits => chain[u].pc = "failed") /\ (u = Teardown => life = "tearing")
    BY <1>0, <2>2, ActiveInHand DEF LifeOK
  <2> HIDE DEF refused
  <2>4. TRUE \in BOOLEAN
    OBVIOUS
  <2>5. NoneAwaits /\ (Pops(u, TRUE) \/ PopsNothing(u, TRUE))
    BY <1>1, <2>1, <2>2, <2>3, <2>4
  <2> QED BY <2>1, <2>2, <2>3, <2>5, FullWhole
<1>3. ASSUME NEW i \in Inits, NEW d \in BOOLEAN, InitRecovers(i, d) PROVE Whole'
  <2> DEFINE all == ~d
  <2>1. /\ all \in BOOLEAN /\ UnwindFrame(i, all, FALSE) /\ chain[i].pc = "failed" /\ un[i].st = "off"
        /\ un[i].st # "inverse" /\ UNCHANGED <<closed, chain, life>> /\ FALSE \in BOOLEAN
    BY <1>3 DEF InitRecovers
  <2> HIDE DEF all
  <2>2. i \in Unwinders \ Ops /\ i \notin Runs /\ InHand(i) /\ i # Teardown
    BY <1>0, <2>1, AttemptIs DEF Trying
  <2>3. NoneAwaits /\ (Pops(i, all) \/ PopsNothing(i, all))
    BY <1>1, <2>1, <2>2
  <2>4. CASE all = TRUE
    <3>1. Pops(i, TRUE) \/ PopsNothing(i, TRUE)
      BY <2>3, <2>4
    <3> QED BY <2>1, <2>2, <2>3, <3>1, FullWhole
  <2>5. CASE all = FALSE
    <3>1. Pops(i, FALSE) \/ PopsNothing(i, FALSE)
      BY <2>3, <2>5
    <3> QED BY <2>1, <2>3, <3>1, DeferWhole
  <2> QED BY <2>1, <2>4, <2>5
<1>4. ASSUME NEW r \in Runs, RunRecovers(r) PROVE Whole'
  <2>1. /\ UnwindFrame(r, FALSE, FALSE) /\ chain[r].pc = "failed" /\ un[r].st = "off"
        /\ un[r].st # "inverse" /\ UNCHANGED <<closed, chain, life>> /\ FALSE \in BOOLEAN
    BY <1>4 DEF RunRecovers
  <2>2. r \in Unwinders \ Ops /\ r \notin Inits /\ r # Teardown
    BY ScopeConstants DEF Unwinders, Chains
  <2>3. InFlight(r) /\ InHand(r)
    BY <2>1, <2>2 DEF InFlight, InHand
  <2>4. NoneAwaits /\ (Pops(r, FALSE) \/ PopsNothing(r, FALSE))
    BY <1>1, <2>1, <2>2, <2>3
  <2> QED BY <2>1, <2>3, <2>4, RunWhole
<1>5. CASE TeardownBegins
  <2>1. /\ life = "live" /\ life' = "tearing" /\ UnwindFrame(Teardown, TRUE, FALSE)
        /\ \A r \in Runs : ~InFlight(r)
        /\ UNCHANGED <<closed, chain>> /\ TRUE \in BOOLEAN /\ FALSE \in BOOLEAN
    BY <1>5 DEF TeardownBegins
  <2>2. InHand(Teardown) /\ un[Teardown].st # "inverse"
    BY <1>0, <2>1 DEF InHand, LifeOK, Active
  <2>3. NoneAwaits /\ (Pops(Teardown, TRUE) \/ PopsNothing(Teardown, TRUE))
    BY <1>0, <1>1, <2>1, <2>2
  <2> QED BY <1>0, <2>1, <2>2, <2>3, FullWhole
<1> QED BY <1>2, <1>3, <1>4, <1>5

\* Every step keeps WholeInv.
LEMMA WholeStep ==
    ASSUME ~Overlapping, ~Unpublishable, WholeInv, [Next]_vars
    PROVE  WholeInv'
<1>0. OrderInv' /\ CleanInv /\ OnceInv
  BY OrderKept DEF WholeInv, OrderInv, CleanInv
<1>1. CASE UNCHANGED vars
  <2>1. Whole'
    BY <1>1 DEF vars, WholeInv, Whole, StackOK, PlaceOK, MineOK, RecoverOK, PastOK, OpenOK,
                Trying, Deferring, Active, Busy, InFlight, Gone
  <2> QED BY <1>0, <2>1 DEF WholeInv
<1>2. CASE Next
  <2>0. SUFFICES Whole'
    BY <1>0 DEF WholeInv
  <2>1. ASSUME NEW u \in Unwinders, NEW ok \in BOOLEAN, InverseSettles(u, ok) PROVE Whole'
    <3>1. Awaited(u)
      BY <1>0, <2>1, InverseSettlesIs
    <3>2. UNCHANGED <<closed, chain, life>>
      BY <2>1 DEF InverseSettles
    <3> QED BY <3>1, <3>2, AwaitedWhole
  <2>2. ASSUME NEW o \in Ops, Dispose(o) PROVE Whole'
    <3>1. Disposes(o)
      BY <1>0, <2>2, DisposeIs
    <3>2. UNCHANGED <<closed, chain, life>>
      BY <2>2 DEF Dispose
    <3> QED BY <3>1, <3>2, DisposeWhole
  <2>3. ASSUME NEW i \in Inits PROVE ~InitUnpublished(i)
    BY DEF InitUnpublished
  <2>p. /\ \A u \in Unwinders : NextFrame(u) => Whole'
        /\ \A i \in Inits, d \in BOOLEAN : InitRecovers(i, d) => Whole'
        /\ \A r \in Runs : RunRecovers(r) => Whole'
        /\ TeardownBegins => Whole'
    BY PopperWhole
  <2>4. CASE Settles
    <3>1. CASE \E u \in Unwinders : \/ \E ok \in BOOLEAN : InverseSettles(u, ok)
                                   \/ NextFrame(u) \/ ScopeCloses(u) \/ FrameUnwound(u)
      BY <2>1, <2>p, <3>1, ClosesWhole, UnwoundWhole
    <3>2. CASE \E c \in Chains : StepDone(c) \/ StepThrows(c) \/ MethodSettles(c)
      BY <3>2, ChainStepsWhole
    <3>3. CASE \E i \in Inits : InitPublished(i) \/ \E d \in BOOLEAN : InitRecovers(i, d)
      BY <2>p, <3>3, PublishedWhole
    <3>4. CASE \E r \in Runs : RunRecovers(r) \/ \E p \in BOOLEAN : RunSettles(r, p)
      BY <2>p, <3>4, RunSettlesWhole
    <3> QED BY <2>4, <3>1, <3>2, <3>3, <3>4 DEF Settles
  <2>5. CASE ~Settles
    <3>1. CASE \E i \in Inits : InitBegins(i) \/ InitUnpublished(i)
      BY <2>3, <3>1, BeginsWhole
    <3>2. CASE \E r \in Runs : RunBegins(r)
      BY <3>2, RunBeginsWhole
    <3>3. CASE \E o \in Ops : Perform(o) \/ Register(o) \/ Dispose(o)
      BY <2>2, <3>3, OpsWhole
    <3> QED BY <1>2, <2>5, <2>p, <3>1, <3>2, <3>3 DEF Next
  <2> QED BY <2>4, <2>5
<1> QED BY <1>1, <1>2

LEMMA WholeInit == Init => WholeInv
<1> SUFFICES ASSUME Init PROVE WholeInv
  OBVIOUS
<1>0. /\ Len(frames) = 1 /\ life = "created" /\ ~closed
      /\ \A c \in Chains : chain[c].pc = "idle"
      /\ \A u \in Unwinders : un[u].st = "off"
      /\ \A e \in Effects : eff[e].st = "none"
  BY DEF Init, Idle, Off
<1>1. /\ \A i \in Inits : i \in Chains /\ i \in Unwinders
      /\ \A o \in Ops : o \in Unwinders
      /\ \A r \in Runs : r \in Chains
      /\ \A i \in Inits, k \in 1..Steps : <<i, k>> \in Effects
  BY DEF Chains, Unwinders, Effects
<1>2. /\ \A i \in Inits : ~Trying(i) /\ ~Deferring(i) /\ chain[i].pc = "idle" /\ un[i].st = "off"
      /\ \A r \in Runs : ~InFlight(r)
      /\ \A o \in Ops : un[o].st = "off"
      /\ \A i \in Inits, k \in 1..Steps : eff[<<i, k>>].st = "none"
  BY <1>0, <1>1 DEF Trying, Deferring, Active, Busy, InFlight
<1>3. StackOK /\ PlaceOK /\ MineOK /\ RecoverOK /\ PastOK /\ OpenOK
  BY <1>0, <1>2 DEF StackOK, PlaceOK, MineOK, RecoverOK, PastOK, OpenOK
<1> QED BY <1>3, OrderInit DEF WholeInv, Whole

\* What init() built is there while the resource is live, whatever runs and
\* operations undo (a failed run() unwinds its own frame only), and an attempt at
\* init() is made only when nothing of an earlier one is in place (the deferred
\* attempts of the initialization loop).  It takes that no run() is under way when
\* the resource is torn down, and that publishing the snapshot of a good init()
\* does not throw.
THEOREM InitWhole ==
    ASSUME ~Overlapping, ~Unpublishable
    PROVE  Spec => []InitIsWhole
<1>1. WholeInv /\ [Next]_vars => WholeInv'
  BY WholeStep
<1>2. WholeInv => InitIsWhole
  <2>1. SUFFICES ASSUME WholeInv PROVE InitIsWhole
    OBVIOUS
  <2>2. InitIntact
    BY <2>1 DEF InitIntact, WholeInv, Whole, MineOK
  <2>3. ASSUME NEW i \in Inits, NEW j \in Inits, i # j, chain[j].pc \in {"called", "body"}, NEW k \in 1..Steps
        PROVE  eff[<<i, k>>].st \notin {"held", "running", "refused"}
    <3>1. Busy(j) /\ life = "initing"
      BY <2>1, <2>3, AttemptIs DEF Trying
    <3>2. ~Busy(i)
      BY <2>1, <2>3, <3>1, AttemptIs
    <3>3. chain[i].pc # "settled"
      BY <2>1, <3>1 DEF WholeInv, Whole, PastOK
    <3>4. i \in Chains /\ chain[i].pc \in {"idle", "called", "body", "ok", "failed", "settled"}
      BY <2>1, AttemptIs DEF WholeInv, OrderInv, CleanInv, OnceInv, TypeOK
    <3>5. CASE chain[i].pc = "idle"
      <4>1. chain[i].at = 0 /\ k > 0
        BY <2>1, <3>4, <3>5 DEF WholeInv, OrderInv, CleanInv, OnceInv, Steady, BodyOK
      <4> QED BY <2>1, <3>4, <4>1 DEF WholeInv, OrderInv, CleanInv, OnceInv, Steady, FreshOK
    <3>6. CASE chain[i].pc = "failed"
      <4>1. un[i].st = "ended"
        BY <3>2, <3>6 DEF Busy
      <4>2. Gone(i)
        BY <2>1, <3>1, <4>1 DEF WholeInv, Whole, PastOK
      <4> QED BY <4>2 DEF Gone
    <3> QED BY <3>2, <3>3, <3>4, <3>5, <3>6 DEF Busy
  <2> QED BY <2>2, <2>3 DEF InitIsWhole, RetryIsClean
<1> QED BY <1>1, <1>2, WholeInit, PTL DEF Spec
=============================================================================
