------------------------ MODULE ContextLifecycle_proofs ------------------------
(***************************************************************************)
(* Proofs about the resources of one context, for any resources, any edges *)
(* between them and any number of failures and reconciliations.            *)
(*                                                                         *)
(* LifeInv is inductive.  Its parts say, in turn: what the registries hold *)
(* (Registries, Turns, Quiet), what an unwinding has still before it       *)
(* (Unwinding, TearingDown), and what the loop owes to whom (Owed, Earned).*)
(***************************************************************************)
EXTENDS ContextLifecycle, SequenceTheorems, WellFoundedInduction, TLAPS

Statuses == {"out", "pending", "created", "live", "gone"}

LoopShape == [sub : {"create", "init"}, todo : SUBSET Resources, now : SUBSET Resources,
              progress : BOOLEAN, pass : Nat]
UnwindShape == [line : Seq(Resources), left : SUBSET Resources, impacted : SUBSET Resources,
                rebuilt : SUBSET Resources, refused : BOOLEAN]
DownShape == [st : {"no", "going", "done"}, line : Seq(Resources), left : SUBSET Resources,
              early : BOOLEAN]
CountShape == [flakes : Nat, reconciles : Nat]

Shape ==
  /\ phase \in {"loop", "ready", "failed", "aborted", "unwind"}
  /\ st \in [Resources -> Statuses]
  /\ order \in Seq(Resources)
  /\ withheld \subseteq Resources /\ recreated \subseteq Resources /\ started \subseteq Resources
  /\ opaque \subseteq Resources /\ held \subseteq Resources /\ faulted \subseteq Resources
  /\ loop \in LoopShape /\ reconciling \in UnwindShape /\ down \in DownShape
  /\ counts \in CountShape
  /\ moved \in Nat

\* Nobody is twice in a sequence.
Distinct(seq) == \A i, j \in 1..Len(seq) : seq[i] = seq[j] => i = j

\* In a sequence by time of insertion, nobody but a sink uses somebody behind it.
Sorted(seq) ==
  \A i, j \in 1..Len(seq) : i < j /\ seq[i] \notin Sinks => seq[j] \notin Uses(seq[i])

\* The same for a line by reverse insertion.
Latest(line) ==
  \A i, j \in 1..Len(line) : i < j /\ line[j] \notin Sinks => line[i] \notin Uses(line[j])

\* resourceInstances are the live ones, and what somebody live looked up is remembered.
Registries ==
  /\ Range(order) = With("live") /\ Distinct(order)
  /\ held \subseteq With("live") \cup With("created")
  /\ \A r \in With("live") : ByName[r] \subseteq opaque

\* Whose turn it is in the loop.
Turns ==
  phase = "loop" =>
    /\ loop.now \subseteq With("created")
    /\ loop.sub = "create" => loop.todo \subseteq With("pending")
    /\ loop.sub = "init" => loop.todo \subseteq With("created") /\ loop.now = {}

Quiet == phase \in {"ready", "unwind"} => With("pending") \cup With("created") = {}

\* A reconciliation takes the holders along with what they hold.
Unwinding ==
  phase = "unwind" =>
    /\ reconciling.impacted \cap With("live") \subseteq reconciling.left
    /\ reconciling.left \subseteq reconciling.impacted
    /\ reconciling.impacted \cap opaque = {}
    /\ reconciling.rebuilt \subseteq reconciling.impacted \cup With("out")
    /\ \A r \in With("live") : Deps[r] \cap reconciling.impacted # {} => r \in reconciling.impacted

\* A teardown that no reconciliation overlaps has everybody before it.
TearingDown ==
  /\ down.st = "no" => ~down.early
  /\ ~down.early =>
       /\ HoldsTheLiving
       /\ Sorted(order)
       /\ down.st # "no" => Settled
       /\ down.st = "going" => /\ With("live") \subseteq down.left
                               /\ down.left \subseteq Range(down.line)
                               /\ Latest(down.line)
       /\ down.st = "done" => With("live") = {}

\* Whoever is not live and had its turn in this pass has a reason.
Excused(r) ==
  \/ r \in faulted \cup withheld
  \/ \E d \in Uses(r) \cup Needs[r] : st[d] # "live"

\* A pass that made no progress owes a turn to nobody but those it has still to do.
Owed ==
  /\ phase = "loop" /\ ~loop.progress =>
       /\ \A r \in With("pending") : (loop.sub = "create" /\ r \in loop.todo) \/ Excused(r)
       /\ loop.sub = "init" => \A r \in With("created") : r \in loop.todo \/ Excused(r)
  /\ phase = "failed" /\ loop.pass < MaxPasses =>
       \A r \in With("pending") \cup With("created") : Excused(r)

Earned ==
  /\ loop.pass <= 1 + moved
  /\ loop.progress => loop.pass <= moved

LifeInv ==
  Shape /\ Registries /\ Turns /\ Quiet /\ Unwinding /\ TearingDown /\ Owed /\ Earned
-----------------------------------------------------------------------------
(* Sequences without repetition. *)

\* Reversing keeps the elements and turns the order round.
LEMMA Reversed ==
  ASSUME NEW s \in Seq(Resources)
  PROVE  /\ Reverse(s) \in Seq(Resources)
         /\ Range(Reverse(s)) = Range(s)
         /\ Sorted(s) => Latest(Reverse(s))
PROOF
  <1>1. /\ Reverse(s) = [i \in 1..Len(s) |-> s[(Len(s) - i) + 1]]
        /\ \A i \in 1..Len(s) : (Len(s) - i) + 1 \in 1..Len(s)
    BY DEF Reverse
  <1>2. Reverse(s) \in Seq(Resources) /\ Len(Reverse(s)) = Len(s)
    <2>1. \A i \in 1..Len(s) : s[(Len(s) - i) + 1] \in Resources
      BY <1>1, ElementOfSeq
    <2>2. QED
      BY <1>1, <2>1, IsASeq
  <1>3. \A i \in 1..Len(s) : Reverse(s)[i] = s[(Len(s) - i) + 1]
    BY <1>1
  <1>4. Range(Reverse(s)) = Range(s)
    <2>1. \A i \in 1..Len(s) : s[i] = Reverse(s)[(Len(s) - i) + 1]
      BY <1>1
    <2>2. DOMAIN s = 1..Len(s) /\ DOMAIN Reverse(s) = 1..Len(s)
      BY <1>1
    <2>3. /\ Range(s) = {s[i] : i \in 1..Len(s)}
          /\ Range(Reverse(s)) = {Reverse(s)[i] : i \in 1..Len(s)}
      BY <2>2 DEF Range
    <2>4. ASSUME NEW q \in Range(s) PROVE q \in Range(Reverse(s))
      BY <1>1, <2>1, <2>3
    <2>5. ASSUME NEW q \in Range(Reverse(s)) PROVE q \in Range(s)
      BY <1>1, <1>3, <2>3
    <2>6. QED
      BY <2>4, <2>5
  <1>5. ASSUME Sorted(s) PROVE Latest(Reverse(s))
    BY <1>1, <1>2, <1>3, <1>5, SMTT(30) DEF Sorted, Latest
  <1>6. QED
    BY <1>2, <1>4, <1>5

\* Appending somebody new whom nobody before it uses, but for sinks.
LEMMA Appended ==
  ASSUME NEW s \in Seq(Resources), NEW r \in Resources
  PROVE  /\ Append(s, r) \in Seq(Resources)
         /\ Range(Append(s, r)) = Range(s) \cup {r}
         /\ Distinct(s) /\ r \notin Range(s) => Distinct(Append(s, r))
         /\ Sorted(s) /\ (\A q \in Range(s) \ Sinks : r \notin Uses(q)) => Sorted(Append(s, r))
PROOF
  <1> DEFINE t == Append(s, r)
  <1>1. /\ t \in Seq(Resources) /\ Len(t) = Len(s) + 1 /\ Len(s) \in Nat
        /\ t[Len(s) + 1] = r /\ \A i \in 1..Len(s) : t[i] = s[i]
    BY AppendProperties
  <1>2. \A i \in 1..Len(t) : i \in 1..Len(s) \/ i = Len(s) + 1
    BY <1>1
  <1>3. Range(s) = {s[i] : i \in 1..Len(s)} /\ Range(t) = {t[i] : i \in 1..Len(t)}
    BY <1>1 DEF Range
  <1> HIDE DEF t
  <1>4. Range(t) = Range(s) \cup {r}
    BY <1>1, <1>2, <1>3
  <1>5. ASSUME Distinct(s), r \notin Range(s) PROVE Distinct(t)
    BY <1>1, <1>2, <1>3, <1>5 DEF Distinct
  <1>6. ASSUME Sorted(s), \A q \in Range(s) \ Sinks : r \notin Uses(q) PROVE Sorted(t)
    BY <1>1, <1>2, <1>3, <1>6 DEF Sorted
  <1>7. QED
    BY <1>1, <1>4, <1>5, <1>6 DEF t

\* Deleting from the map: the others stay, in their order.
LEMMA Deleted ==
  ASSUME NEW s \in Seq(Resources), NEW r \in Resources, Distinct(s)
  PROVE  /\ RemoveFirst(s, r) \in Seq(Resources)
         /\ Range(RemoveFirst(s, r)) = Range(s) \ {r}
         /\ Distinct(RemoveFirst(s, r))
         /\ Sorted(s) => Sorted(RemoveFirst(s, r))
PROOF
  <1>1. CASE ~ \E i \in 1..Len(s) : s[i] = r
    <2>1. RemoveFirst(s, r) = s
      BY <1>1 DEF RemoveFirst
    <2>2. Range(s) = {s[i] : i \in 1..Len(s)}
      BY DEF Range
    <2>3. QED
      BY <1>1, <2>1, <2>2
  <1>2. CASE \E i \in 1..Len(s) : s[i] = r
    <2>1. PICK k \in 1..Len(s) : s[k] = r
      BY <1>2
    <2>2. {i \in 1..Len(s) : s[i] = r} = {k}
      BY <2>1 DEF Distinct
    <2>3. Min({k}) = k
      <3>1. k \in {k} /\ \A y \in {k} : k <= y
        OBVIOUS
      <3>2. QED
        BY <3>1 DEF Min
    <2>4. SelectInSeq(s, LAMBDA v : v = r) = k
      BY <2>2, <2>3 DEF SelectInSeq
    <2> DEFINE t == RemoveAt(s, k)
    <2>5. RemoveFirst(s, r) = t
      BY <1>2, <2>4 DEF RemoveFirst
    <2> DEFINE before == SubSeq(s, 1, k - 1)
               after == SubSeq(s, k + 1, Len(s))
    <2>6. /\ before \in Seq(Resources) /\ Len(before) = k - 1
          /\ \A i \in 1..(k - 1) : before[i] = s[i]
          /\ after \in Seq(Resources) /\ Len(after) = Len(s) - k
          /\ \A i \in 1..(Len(s) - k) : after[i] = s[k + i]
      OBVIOUS
    <2>7. /\ t \in Seq(Resources) /\ Len(t) = Len(s) - 1
          /\ \A i \in 1..Len(t) : t[i] = IF i < k THEN s[i] ELSE s[i + 1]
      <3>1. t = before \o after
        BY DEF RemoveAt
      <3> HIDE DEF before, after, t
      <3>2. /\ t \in Seq(Resources) /\ Len(t) = (k - 1) + (Len(s) - k)
            /\ \A i \in 1..Len(t) : t[i] = IF i <= k - 1 THEN before[i] ELSE after[i - (k - 1)]
        <4>1. before \in Seq(Resources) /\ after \in Seq(Resources)
          BY <2>6
        <4>2. /\ t \in Seq(Resources)
              /\ Len(t) = Len(before) + Len(after)
              /\ \A i \in 1..Len(before) + Len(after) :
                    t[i] = IF i <= Len(before) THEN before[i] ELSE after[i - Len(before)]
          BY <3>1, <4>1, ConcatProperties
        <4>3. Len(before) = k - 1 /\ Len(after) = Len(s) - k
          BY <2>6
        <4>4. QED
          BY <4>2, <4>3
      <3>3. ASSUME NEW i \in 1..Len(t) PROVE t[i] = IF i < k THEN s[i] ELSE s[i + 1]
        <4>1. CASE i < k
          BY <2>6, <3>2, <4>1
        <4>2. CASE ~(i < k)
          <5>1. i - (k - 1) \in 1..(Len(s) - k) /\ k + (i - (k - 1)) = i + 1
            BY <3>2, <4>2
          <5>2. QED
            BY <2>6, <3>2, <4>2, <5>1
        <4>3. QED
          BY <4>1, <4>2
      <3>4. QED
        BY <3>2, <3>3
    <2>8. /\ Range(s) = {s[i] : i \in 1..Len(s)} /\ Range(t) = {t[i] : i \in 1..Len(t)}
      BY <2>7 DEF Range
    <2> HIDE DEF t
    <2>9. Range(t) = Range(s) \ {r}
      <3>1. ASSUME NEW q \in Range(t) PROVE q \in Range(s) \ {r}
        BY <2>1, <2>7, <2>8 DEF Distinct
      <3>2. ASSUME NEW q \in Range(s) \ {r} PROVE q \in Range(t)
        <4>1. PICK i \in 1..Len(s) : s[i] = q
          BY <2>8
        <4>2. CASE i < k
          BY <2>1, <2>7, <2>8, <4>1, <4>2
        <4>3. CASE i > k
          <5>1. i - 1 \in 1..Len(t) /\ ~(i - 1 < k) /\ (i - 1) + 1 = i
            BY <2>7, <4>1, <4>3
          <5>2. t[i - 1] = s[i]
            BY <2>7, <5>1
          <5>3. QED
            BY <2>8, <4>1, <5>1, <5>2
        <4>4. QED
          BY <2>1, <4>1, <4>2, <4>3
      <3>3. QED
        BY <3>1, <3>2
    <2>10. Distinct(t)
      BY <2>1, <2>7 DEF Distinct
    <2>11. ASSUME Sorted(s) PROVE Sorted(t)
      BY <2>1, <2>7, <2>11, SMTT(30) DEF Sorted
    <2>12. QED
      BY <2>5, <2>7, <2>9, <2>10, <2>11
  <1>3. QED
    BY <1>1, <1>2

\* A line has a first place with what one looks for.
LEMMA FirstPlace ==
  ASSUME NEW s \in Seq(Resources), NEW S, Range(s) \cap S # {}
  PROVE  \E i \in 1..Len(s) : s[i] \in S /\ \A j \in 1..(i - 1) : s[j] \notin S
PROOF
  <1> DEFINE T == {i \in 1..Len(s) : s[i] \in S}
  <1>1. T \subseteq Nat /\ T # {}
    BY DEF Range
  <1> DEFINE Less == {ss \in Nat \X Nat : ss[1] < ss[2]}
  <1>2. IsWellFoundedOn(Less, Nat)
    BY NatLessThanWellFounded, Zenon DEF OpToRel
  <1> HIDE DEF T, Less
  <1>3. PICK i \in T : \A j \in T : ~ (<<j, i>> \in Less)
    BY <1>1, <1>2, WFMin
  <1>4. \A j \in T : ~(j < i)
    BY <1>1, <1>3 DEF Less
  <1>5. QED
    BY <1>4 DEF T

-----------------------------------------------------------------------------
(* The loop. *)

LEMMA Edges ==
  /\ \A r \in Resources : /\ Deps[r] \subseteq Resources /\ ByName[r] \subseteq Resources
                          /\ Needs[r] \subseteq Resources /\ Uses(r) \subseteq Resources
  /\ Sinks \subseteq Resources
  /\ MaxPasses \in Nat
PROOF
  <1>1. /\ Deps \in [Resources -> SUBSET Resources] /\ ByName \in [Resources -> SUBSET Resources]
        /\ Needs \in [Resources -> SUBSET Resources]
    BY LifecycleConstants
  <1>2. QED
    BY <1>1, LifecycleConstants DEF Uses

\* One resource changes its status.
LEMMA OneMoves ==
  ASSUME st \in [Resources -> Statuses], NEW r \in Resources, NEW v \in Statuses,
         st' = [st EXCEPT ![r] = v]
  PROVE  /\ st' \in [Resources -> Statuses]
         /\ st'[r] = v
         /\ \A q \in Resources : q # r => st'[q] = st[q]
  OBVIOUS

\* While the loop runs and no teardown overlaps it, no teardown has begun.
LEMMA NotDownYet ==
  ASSUME LifeInv, phase \in {"loop", "unwind"}, ~down.early
  PROVE  down.st = "no" /\ HoldsTheLiving /\ Sorted(order)
  BY DEF LifeInv, TearingDown, Settled

\* initializeResources, create() succeeds.
LEMMA CreateOneOK ==
  ASSUME LifeInv, NEW r \in Resources, CreateOne(r)
  PROVE  LifeInv'
PROOF
  <1> USE DEF LifeInv
  <1>1. /\ phase = "loop" /\ loop.sub = "create" /\ loop.now = {} /\ r \in loop.todo
        /\ st' = [st EXCEPT ![r] = "created"]
        /\ held' = held \cup {r}
        /\ UNCHANGED <<phase, order, withheld, recreated, started, reconciling, down, opaque,
                       faulted, counts>>
    BY DEF CreateOne, Looping, hostVars
  <1>2. st[r] = "pending" /\ st'[r] = "created" /\ \A q \in Resources : q # r => st'[q] = st[q]
    BY <1>1, OneMoves DEF Shape, Turns, With, Statuses
  <1>3. /\ loop' \in LoopShape
        /\ loop'.sub = "create" /\ loop'.todo = loop.todo \ {r} /\ loop'.now = {r}
        /\ loop'.pass = loop.pass
        /\ loop'.progress <=> loop.progress \/ r \notin recreated
    BY <1>1 DEF CreateOne, CountsAsProgress, Shape, LoopShape
  <1>4. moved' = IF r \in recreated THEN moved ELSE moved + 1
    BY DEF CreateOne
  <1>5. With("live")' = With("live")
    BY <1>2 DEF With
  <1>6. Shape'
    BY <1>1, <1>2, <1>3, <1>4, OneMoves DEF Shape, Statuses
  <1>7. Registries'
    BY <1>1, <1>2, <1>5 DEF Registries, Distinct, With
  <1>8. Turns'
    BY <1>1, <1>2, <1>3 DEF Turns, With
  <1>9. Quiet' /\ Unwinding'
    BY <1>1 DEF Quiet, Unwinding
  <1>10. TearingDown'
    <2>1. ASSUME ~down.early PROVE HoldsTheLiving'
      BY <1>1, <1>2, <1>5, <2>1, NotDownYet, Edges DEF HoldsTheLiving, With
    <2>2. QED
      BY <1>1, <2>1, NotDownYet DEF TearingDown, Sorted
  <1>11. Owed'
    BY <1>1, <1>2, <1>3, Edges DEF Owed, Excused, With, Turns
  <1>12. Earned'
    BY <1>3, <1>4 DEF Earned, Shape, LoopShape
  <1>13. QED
    BY <1>6, <1>7, <1>8, <1>9, <1>10, <1>11, <1>12

\* A failure is counted at most.
LEMMA MayFailCounts ==
  ASSUME counts \in CountShape, NEW r \in Resources, MayFail(r)
  PROVE  counts' \in CountShape
  BY DEF MayFail, CountShape

\* initializeResources, create() throws.
LEMMA CreateThrowsOK ==
  ASSUME LifeInv, NEW r \in Resources, CreateThrows(r)
  PROVE  LifeInv'
PROOF
  <1> USE DEF LifeInv
  <1>1. /\ phase = "loop" /\ loop.sub = "create" /\ loop.now = {} /\ r \in loop.todo
        /\ UNCHANGED <<phase, st, order, withheld, recreated, started, reconciling, down, opaque,
                       held, moved>>
    BY DEF CreateThrows, Looping, hostVars
  <1>2. /\ faulted \subseteq faulted' /\ faulted' \subseteq faulted \cup {r}
        /\ r \in faulted' \/ \E d \in Needs[r] : st[d] # "live"
    BY DEF CreateThrows
  <1>3. /\ loop' \in LoopShape
        /\ loop'.sub = "create" /\ loop'.todo = loop.todo \ {r} /\ loop'.now = {}
        /\ loop'.pass = loop.pass /\ (loop'.progress <=> loop.progress)
    BY <1>1 DEF CreateThrows, Shape, LoopShape
  <1>4. counts' \in CountShape
    BY MayFailCounts DEF CreateThrows, Shape
  <1>5. With("live")' = With("live") /\ With("created")' = With("created")
        /\ With("pending")' = With("pending")
    BY <1>1 DEF With
  <1>6. Shape'
    BY <1>1, <1>2, <1>3, <1>4 DEF Shape
  <1>7. Registries'
    BY <1>1, <1>5 DEF Registries, Distinct
  <1>8. Turns'
    BY <1>1, <1>3, <1>5 DEF Turns
  <1>9. Quiet' /\ Unwinding'
    BY <1>1 DEF Quiet, Unwinding
  <1>10. TearingDown'
    BY <1>1, <1>5, NotDownYet DEF TearingDown, Sorted, HoldsTheLiving
  <1>11. Owed'
    BY <1>1, <1>2, <1>3, <1>5 DEF Owed, Excused
  <1>12. Earned'
    BY <1>1, <1>3 DEF Earned
  <1>13. QED
    BY <1>6, <1>7, <1>8, <1>9, <1>10, <1>11, <1>12

\* initializeResources, the creates of a pass are over.
LEMMA EndCreatesOK ==
  ASSUME LifeInv, EndCreates
  PROVE  LifeInv'
PROOF
  <1> USE DEF LifeInv
  <1>1. /\ phase = "loop" /\ loop.sub = "create" /\ loop.now = {} /\ loop.todo = {}
        /\ UNCHANGED <<phase, st, order, withheld, recreated, started, reconciling, down, opaque,
                       held, faulted, moved, counts>>
    BY DEF EndCreates, Looping, hostVars
  <1>2. With("created") \subseteq Resources
    BY DEF With
  <1>3. /\ loop' \in LoopShape
        /\ loop'.sub = "init" /\ loop'.todo = With("created") \ withheld /\ loop'.now = {}
        /\ loop'.pass = loop.pass /\ (loop'.progress <=> loop.progress)
    BY <1>1, <1>2 DEF EndCreates, Shape, LoopShape
  <1>4. With("live")' = With("live") /\ With("created")' = With("created")
        /\ With("pending")' = With("pending")
    BY <1>1 DEF With
  <1>5. Shape'
    BY <1>1, <1>3 DEF Shape
  <1>6. Registries'
    BY <1>1, <1>4 DEF Registries, Distinct
  <1>7. Turns'
    BY <1>1, <1>3, <1>4 DEF Turns
  <1>8. Quiet' /\ Unwinding'
    BY <1>1 DEF Quiet, Unwinding
  <1>9. TearingDown'
    BY <1>1, <1>4, NotDownYet DEF TearingDown, Sorted, HoldsTheLiving
  <1>10. Owed'
    BY <1>1, <1>3, <1>4 DEF Owed, Excused
  <1>11. Earned'
    BY <1>1, <1>3 DEF Earned
  <1>12. QED
    BY <1>5, <1>6, <1>7, <1>8, <1>9, <1>10, <1>11

\* What a turn of the loop has in hand, and what it leaves.
LEMMA TakesTurn ==
  ASSUME LifeInv, NEW r \in Resources, Turn(r), NEW p \in BOOLEAN, TurnOver(r, p)
  PROVE  /\ phase = "loop" /\ st[r] = "created"
         /\ loop' \in LoopShape
         /\ loop'.sub = loop.sub /\ loop'.todo = loop.todo \ {r} /\ loop'.now = {}
         /\ loop'.pass = loop.pass /\ (loop'.progress <=> loop.progress \/ p)
         /\ opaque \subseteq opaque' /\ opaque' \subseteq Resources
         /\ (\A d \in Deps[r] : st[d] = "live") => ByName[r] \subseteq opaque'
PROOF
  <1>1. phase = "loop" /\ st[r] = "created"
    BY DEF LifeInv, Turns, Turn, Looping, With
  <1>2. /\ loop' \in LoopShape
        /\ loop'.sub = loop.sub /\ loop'.todo = loop.todo \ {r} /\ loop'.now = {}
        /\ loop'.pass = loop.pass /\ (loop'.progress <=> loop.progress \/ p)
    BY DEF LifeInv, Shape, LoopShape, TurnOver
  <1>3. /\ opaque \subseteq opaque' /\ opaque' \subseteq Resources
        /\ (\A d \in Deps[r] : st[d] = "live") => ByName[r] \subseteq opaque'
    BY Edges DEF LifeInv, Shape, TurnOver
  <1>4. QED
    BY <1>1, <1>2, <1>3

\* _initializeResource, init() succeeds.
LEMMA InitializedOK ==
  ASSUME LifeInv, NEW r \in Resources, Initialized(r)
  PROVE  LifeInv'
PROOF
  <1> USE DEF LifeInv
  <1>1. /\ Turn(r) /\ TurnOver(r, TRUE) /\ \A d \in Uses(r) : st[d] = "live"
        /\ st' = [st EXCEPT ![r] = "live"]
        /\ order' = Append(order, r)
        /\ moved' = moved + 1
        /\ UNCHANGED <<phase, withheld, recreated, started, reconciling, down, held, faulted, counts>>
    BY DEF Initialized, hostVars
  <1>2. /\ phase = "loop" /\ st[r] = "created"
        /\ loop' \in LoopShape
        /\ loop'.sub = loop.sub /\ loop'.todo = loop.todo \ {r} /\ loop'.now = {}
        /\ loop'.pass = loop.pass /\ loop'.progress
        /\ opaque \subseteq opaque' /\ opaque' \subseteq Resources
        /\ ByName[r] \subseteq opaque'
    BY <1>1, TakesTurn DEF Uses
  <1>3. st'[r] = "live" /\ \A q \in Resources : q # r => st'[q] = st[q]
    BY <1>1, OneMoves DEF Shape, Statuses
  <1>4. With("live")' = With("live") \cup {r} /\ r \notin With("live")
    BY <1>2, <1>3 DEF With
  <1>5. /\ order' \in Seq(Resources)
        /\ Range(order') = Range(order) \cup {r}
        /\ Distinct(order')
    BY <1>1, <1>4, Appended DEF Shape, Registries
  <1>6. Shape'
    BY <1>1, <1>2, <1>3, <1>5, OneMoves DEF Shape, Statuses
  <1>7. Registries'
    <2>1. held' \subseteq With("live")' \cup With("created")'
      BY <1>1, <1>3, <1>4 DEF Registries, With
    <2>2. QED
      BY <1>2, <1>4, <1>5, <2>1 DEF Registries
  <1>8. Turns'
    BY <1>1, <1>2, <1>3 DEF Turns, With
  <1>9. Quiet' /\ Unwinding'
    BY <1>1, <1>2 DEF Quiet, Unwinding
  <1>10. TearingDown'
    <2>1. ASSUME ~down.early PROVE HoldsTheLiving' /\ Sorted(order')
      <3>1. HoldsTheLiving /\ Sorted(order)
        BY <1>2, <2>1, NotDownYet
      <3>2. \A q \in Range(order) \ Sinks : r \notin Uses(q)
        BY <1>4, <2>1, <3>1 DEF HoldsTheLiving, Registries, With
      <3>3. Sorted(order')
        BY <1>1, <3>1, <3>2, Appended DEF Shape
      <3>4. HoldsTheLiving'
        BY <1>1, <1>3, <1>4, <2>1, <3>1, Edges DEF HoldsTheLiving, With
      <3>5. QED
        BY <3>3, <3>4
    <2>2. QED
      BY <1>1, <1>2, <2>1, NotDownYet DEF TearingDown
  <1>11. Owed'
    BY <1>1, <1>2 DEF Owed
  <1>12. Earned'
    BY <1>1, <1>2 DEF Earned, Shape, LoopShape
  <1>13. QED
    BY <1>6, <1>7, <1>8, <1>9, <1>10, <1>11, <1>12

\* _initializeResource, a reference that is not there yet.
LEMMA DeferredOK ==
  ASSUME LifeInv, NEW r \in Resources, Deferred(r)
  PROVE  LifeInv'
PROOF
  <1> USE DEF LifeInv
  <1>1. /\ Turn(r) /\ TurnOver(r, FALSE) /\ \E d \in Uses(r) : st[d] \in {"pending", "created"}
        /\ withheld \subseteq withheld' /\ withheld' \subseteq withheld \cup {r}
        /\ UNCHANGED <<phase, st, order, recreated, started, reconciling, down, held, faulted, moved>>
    BY DEF Deferred, hostVars
  <1>2. /\ phase = "loop" /\ st[r] = "created"
        /\ loop' \in LoopShape
        /\ loop'.sub = loop.sub /\ loop'.todo = loop.todo \ {r} /\ loop'.now = {}
        /\ loop'.pass = loop.pass /\ (loop'.progress <=> loop.progress)
        /\ opaque \subseteq opaque' /\ opaque' \subseteq Resources
    BY <1>1, TakesTurn
  <1>3. With("live")' = With("live") /\ With("created")' = With("created")
        /\ With("pending")' = With("pending")
    BY <1>1 DEF With
  <1>4. counts' \in CountShape
    BY MayFailCounts DEF Deferred, Shape
  <1>5. Shape'
    BY <1>1, <1>2, <1>4 DEF Shape
  <1>6. Registries'
    BY <1>1, <1>2, <1>3 DEF Registries, Distinct
  <1>7. Turns'
    BY <1>1, <1>2, <1>3 DEF Turns
  <1>8. Quiet' /\ Unwinding'
    BY <1>1, <1>2 DEF Quiet, Unwinding
  <1>9. TearingDown'
    BY <1>1, <1>2, <1>3, NotDownYet DEF TearingDown, Sorted, HoldsTheLiving
  <1>10. Owed'
    <2>1. \E d \in Uses(r) : st[d] # "live"
      BY <1>1
    <2>2. r \notin With("pending")
      BY <1>2 DEF With
    <2>3. QED
      BY <1>1, <1>2, <1>3, <2>1, <2>2 DEF Owed, Excused
  <1>11. Earned'
    BY <1>1, <1>2 DEF Earned
  <1>12. QED
    BY <1>5, <1>6, <1>7, <1>8, <1>9, <1>10, <1>11

\* A resource that was not live and is not, is held or not.
LEMMA FallsBack ==
  ASSUME LifeInv, NEW r \in Resources, st[r] = "created",
         \/ /\ st' = [st EXCEPT ![r] = "pending"]
            /\ held' = held \ {r}
         \/ UNCHANGED <<st, held>>
  PROVE  /\ st' \in [Resources -> Statuses]
         /\ With("live")' = With("live")
         /\ held' \subseteq Resources /\ held' \subseteq With("live")' \cup With("created")'
         /\ \A q \in Resources : q # r => st'[q] = st[q]
         /\ st'[r] \in {"created", "pending"}
PROOF
  <1>1. /\ st' \in [Resources -> Statuses]
        /\ \A q \in Resources : q # r => st'[q] = st[q]
        /\ st'[r] \in {"created", "pending"}
        /\ st'[r] = "pending" => held' = held \ {r}
        /\ held' \subseteq held
    BY OneMoves DEF LifeInv, Shape, Statuses
  <1>2. With("live")' = With("live")
    BY <1>1 DEF With
  <1>3. QED
    BY <1>1, <1>2 DEF LifeInv, Shape, Registries, With

\* _initializeResource, init() fails.
LEMMA InitFailsOK ==
  ASSUME LifeInv, NEW r \in Resources, InitFails(r)
  PROVE  LifeInv'
PROOF
  <1> USE DEF LifeInv
  <1>1. /\ Turn(r) /\ TurnOver(r, FALSE)
        /\ faulted' = faulted \cup {r}
        /\ withheld \subseteq withheld' /\ withheld' \subseteq withheld \cup {r}
        /\ recreated' \subseteq recreated \cup {r}
        /\ UNCHANGED <<phase, order, started, reconciling, down, moved>>
        /\ \/ /\ st' = [st EXCEPT ![r] = "pending"]
              /\ held' = held \ {r}
           \/ UNCHANGED <<st, held>>
    BY DEF InitFails, hostVars
  <1>2. /\ phase = "loop" /\ st[r] = "created"
        /\ loop' \in LoopShape
        /\ loop'.sub = loop.sub /\ loop'.todo = loop.todo \ {r} /\ loop'.now = {}
        /\ loop'.pass = loop.pass /\ (loop'.progress <=> loop.progress)
        /\ opaque \subseteq opaque' /\ opaque' \subseteq Resources
    BY <1>1, TakesTurn
  <1>3. counts' \in CountShape
    BY MayFailCounts DEF InitFails, Shape
  <1>4. /\ st' \in [Resources -> Statuses]
        /\ With("live")' = With("live")
        /\ held' \subseteq Resources /\ held' \subseteq With("live")' \cup With("created")'
        /\ \A q \in Resources : q # r => st'[q] = st[q]
        /\ st'[r] \in {"created", "pending"}
    BY <1>1, <1>2, FallsBack
  <1>5. Shape'
    BY <1>1, <1>2, <1>3, <1>4 DEF Shape
  <1>6. Registries'
    BY <1>1, <1>2, <1>4 DEF Registries, Distinct
  <1>7. Turns'
    BY <1>1, <1>2, <1>4 DEF Turns, With, Turn
  <1>8. Quiet' /\ Unwinding'
    BY <1>1, <1>2 DEF Quiet, Unwinding
  <1>9. TearingDown'
    <2>1. ASSUME ~down.early PROVE HoldsTheLiving'
      BY <1>1, <1>2, <1>4, <2>1, NotDownYet, Edges DEF HoldsTheLiving, With
    <2>2. QED
      BY <1>1, <1>2, <2>1, NotDownYet DEF TearingDown, Sorted
  <1>10. Owed'
    BY <1>1, <1>2, <1>4, Edges DEF Owed, Excused, With
  <1>11. Earned'
    BY <1>1, <1>2 DEF Earned
  <1>12. QED
    BY <1>5, <1>6, <1>7, <1>8, <1>9, <1>10, <1>11

\* ERR_FATAL: the loop is left at once.
LEMMA FatalOK ==
  ASSUME LifeInv, NEW r \in Resources, Fatal(r)
  PROVE  LifeInv'
PROOF
  <1> USE DEF LifeInv
  <1>1. /\ phase = "loop" /\ phase' = "aborted"
        /\ recreated' \subseteq recreated \cup {r}
        /\ UNCHANGED <<order, withheld, loop, started, reconciling, down, opaque, faulted, moved>>
        /\ \/ /\ st[r] = "created" /\ st' = [st EXCEPT ![r] = "pending"]
              /\ held' = held \ {r}
           \/ UNCHANGED <<st, held>>
    BY DEF Fatal, Turn, Looping, hostVars
  <1>2. counts' \in CountShape
    BY MayFailCounts DEF Fatal, Shape
  <1>3. /\ st' \in [Resources -> Statuses]
        /\ With("live")' = With("live")
        /\ held' \subseteq Resources /\ held' \subseteq With("live")' \cup With("created")'
        /\ \A q \in Resources : st[q] = "live" => st'[q] = "live"
    <2>1. CASE UNCHANGED <<st, held>>
      BY <2>1 DEF Shape, Registries, With
    <2>2. CASE st[r] = "created" /\ st' = [st EXCEPT ![r] = "pending"] /\ held' = held \ {r}
      BY <2>2, FallsBack
    <2>3. QED
      BY <1>1, <2>1, <2>2
  <1>4. Shape'
    BY <1>1, <1>2, <1>3 DEF Shape
  <1>5. Registries'
    BY <1>1, <1>3 DEF Registries, Distinct
  <1>6. Turns' /\ Quiet' /\ Unwinding' /\ Owed'
    BY <1>1 DEF Turns, Quiet, Unwinding, Owed
  <1>7. TearingDown'
    <2>1. ASSUME ~down.early PROVE HoldsTheLiving'
      BY <1>1, <1>3, <2>1, NotDownYet, Edges DEF HoldsTheLiving, With
    <2>2. QED
      BY <1>1, <2>1, NotDownYet DEF TearingDown, Sorted
  <1>8. Earned'
    BY <1>1 DEF Earned
  <1>9. QED
    BY <1>4, <1>5, <1>6, <1>7, <1>8

\* initializeResources, a pass is over.
LEMMA EndPassOK ==
  ASSUME LifeInv, EndPass
  PROVE  LifeInv'
PROOF
  <1> USE DEF LifeInv
  <1>1. /\ phase = "loop" /\ loop.sub = "init" /\ loop.now = {} /\ loop.todo = {}
        /\ UNCHANGED <<st, order, withheld, recreated, started, reconciling, down, opaque, held,
                       moved, counts>>
    BY DEF EndPass, Looping, hostVars
  <1>2. \A s \in Statuses : With(s)' = With(s)
    BY <1>1 DEF With
  <1>3. /\ With("live")' = With("live") /\ With("created")' = With("created")
        /\ With("pending")' = With("pending")
    BY <1>2 DEF Statuses
  <1>4. Registries'
    BY <1>1, <1>3 DEF Registries, Distinct
  <1>5. ~down.early => HoldsTheLiving'
    BY <1>1, <1>3, NotDownYet DEF HoldsTheLiving
  <1>6. TearingDown'
    BY <1>1, <1>5, NotDownYet DEF TearingDown, Sorted
  <1>7. CASE loop.progress /\ loop.pass < MaxPasses
    <2>1. loop' = PassFrom(loop.pass + 1) /\ faulted' = {} /\ phase' = phase
      BY <1>7 DEF EndPass
    <2>2. /\ loop' \in LoopShape
          /\ loop'.sub = "create" /\ loop'.todo = With("pending") /\ loop'.now = {}
          /\ loop'.pass = loop.pass + 1 /\ loop'.progress = FALSE
      BY <2>1 DEF PassFrom, LoopShape, With, Shape
    <2>3. Shape'
      BY <1>1, <2>1, <2>2 DEF Shape
    <2>4. Turns' /\ Quiet' /\ Unwinding' /\ Owed'
      BY <1>1, <1>3, <2>1, <2>2 DEF Turns, Quiet, Unwinding, Owed
    <2>5. Earned'
      BY <1>1, <1>7, <2>2 DEF Earned, Shape, LoopShape
    <2>6. QED
      BY <1>4, <1>6, <2>3, <2>4, <2>5
  <1>8. CASE ~(loop.progress /\ loop.pass < MaxPasses)
    <2>1. /\ phase' = IF With("pending") \cup With("created") = {} THEN "ready" ELSE "failed"
          /\ loop' = loop /\ faulted' = faulted
      BY <1>8 DEF EndPass
    <2>2. Shape' /\ Earned'
      BY <1>1, <2>1 DEF Shape, Earned
    <2>3. Turns' /\ Quiet' /\ Unwinding'
      BY <1>3, <2>1 DEF Turns, Quiet, Unwinding
    <2>4. Owed'
      BY <1>1, <1>3, <1>8, <2>1 DEF Owed, Excused
    <2>5. QED
      BY <1>4, <1>6, <2>2, <2>3, <2>4
  <1>9. QED
    BY <1>7, <1>8

-----------------------------------------------------------------------------
(* Unwinding. *)

\* unwindEach, for one resource: somebody live goes, and nobody comes.
LEMMA OneUnwound ==
  ASSUME LifeInv, NEW r \in Resources, Unwound(r, "gone")
  PROVE  /\ st' \in [Resources -> Statuses]
         /\ With("live")' = With("live") \ {r}
         /\ \A q \in Resources : st'[q] = st[q] \/ (q = r /\ st[q] = "live" /\ st'[q] = "gone")
         /\ order' \in Seq(Resources) /\ (Sorted(order) => Sorted(order'))
         /\ held' \subseteq held /\ started' \subseteq started
         /\ Range(order') = With("live")' /\ Distinct(order')
         /\ held' \subseteq With("live")' \cup With("created")'
PROOF
  <1>1. /\ order' \in Seq(Resources) /\ Range(order') = Range(order) \ {r}
        /\ Distinct(order') /\ (Sorted(order) => Sorted(order'))
    BY Deleted DEF LifeInv, Shape, Registries, Unwound
  <1>2. /\ st' \in [Resources -> Statuses]
        /\ \A q \in Resources : st'[q] = st[q] \/ (q = r /\ st[q] = "live" /\ st'[q] = "gone")
        /\ st'[r] # "live"
    BY DEF LifeInv, Shape, Unwound, Statuses
  <1>3. With("live")' = With("live") \ {r}
    BY <1>2 DEF With
  <1>4. held' = held \ {r} /\ started' = started \ {r}
    BY DEF Unwound
  <1>5. QED
    BY <1>1, <1>2, <1>3, <1>4 DEF LifeInv, Registries, With

\* The loop and the reasons it has are not touched.
LEMMA LoopStays ==
  ASSUME LifeInv, NEW r \in Resources, Unwound(r, "gone"),
         UNCHANGED <<phase, withheld, loop, faulted, moved, opaque>>
  PROVE  Turns' /\ Quiet' /\ Owed' /\ Earned' /\ Registries'
PROOF
  <1> USE DEF LifeInv
  <1>1. /\ With("live")' = With("live") \ {r}
        /\ \A q \in Resources : st'[q] = st[q] \/ (q = r /\ st[q] = "live" /\ st'[q] = "gone")
        /\ Range(order') = With("live")' /\ Distinct(order')
        /\ held' \subseteq With("live")' \cup With("created")'
    BY OneUnwound
  <1>2. With("pending")' = With("pending") /\ With("created")' = With("created")
    BY <1>1 DEF With
  <1>3. Turns' /\ Quiet' /\ Earned'
    BY <1>2 DEF Turns, Quiet, Earned
  <1>4. Registries'
    BY <1>1 DEF Registries
  <1>5. Owed'
    <2>1. ASSUME NEW q \in Resources, Excused(q) PROVE Excused(q)'
      BY <1>1, <2>1, Edges DEF Excused
    <2>2. With("pending") \cup With("created") \subseteq Resources
      BY DEF With
    <2>3. QED
      BY <1>2, <2>1, <2>2 DEF Owed
  <1>6. QED
    BY <1>3, <1>4, <1>5

\* Who is next in a line by reverse insertion is the latest of its tier: nobody left
\* uses it, but for sinks.
LEMMA NextIsUnused ==
  ASSUME NEW line \in Seq(Resources), NEW left \in SUBSET Range(line), Latest(line),
         NEW r \in Resources, UnwindsNext(r, line, left),
         NEW c \in left \ Sinks, c # r
  PROVE  r \notin Uses(c)
PROOF
  <1> DEFINE Lower == left \ Sinks
  <1>1. PICK i \in 1..Len(line) :
          /\ line[i] = r
          /\ \A j \in 1..(i - 1) : line[j] \in left => ~Free(line[j], left)
    BY DEF UnwindsNext
  <1>2. r \in Lower
    BY DEF UnwindsNext, Free, InTier
  <1>3. PICK k \in 1..Len(line) : line[k] \in Lower /\ \A j \in 1..(k - 1) : line[j] \notin Lower
    <2>1. Range(line) \cap Lower # {}
      BY <1>2
    <2>2. QED
      BY <2>1, FirstPlace
  <1>4. Free(line[k], left)
    <2>1. InTier(line[k], left)
      BY <1>3 DEF InTier
    <2>2. ASSUME NEW q \in left, InTier(q, left), q # line[k] PROVE line[k] \notin Deps[q]
      <3>1. q \in Lower
        BY <1>3, <2>2 DEF InTier
      <3>2. PICK j \in 1..Len(line) : line[j] = q
        BY <2>2 DEF Range
      <3>3. k < j
        BY <1>3, <2>2, <3>1, <3>2
      <3>4. QED
        BY <3>1, <3>2, <3>3 DEF Latest, Uses
    <2>3. QED
      BY <2>1, <2>2 DEF Free
  <1>5. line[k] \in left
    BY <1>3
  <1>6. ~(k < i)
    BY <1>1, <1>4, <1>5
  <1>7. PICK j \in 1..Len(line) : line[j] = c
    BY DEF Range
  <1>8. ~(j < k) /\ ~(i < k)
    BY <1>1, <1>2, <1>3, <1>7
  <1>9. i < j
    BY <1>1, <1>6, <1>7, <1>8
  <1>10. QED
    BY <1>1, <1>7, <1>9 DEF Latest

\* kernel.ts teardown, teardownResources.
LEMMA BeginTeardownOK ==
  ASSUME LifeInv, BeginTeardown
  PROVE  LifeInv'
PROOF
  <1> USE DEF LifeInv
  <1>1. /\ down.st = "no"
        /\ down' = [st |-> "going", line |-> Reverse(order), left |-> Range(order), early |-> ~Settled]
        /\ UNCHANGED <<phase, st, order, withheld, recreated, loop, started, reconciling, opaque,
                       held, faulted, moved, counts>>
    BY DEF BeginTeardown, ToTearDown
  <1>2. /\ Reverse(order) \in Seq(Resources) /\ Range(Reverse(order)) = Range(order)
        /\ Sorted(order) => Latest(Reverse(order))
    BY Reversed DEF Shape
  <1>3. Range(order) = With("live") /\ With("live") \subseteq Resources
    BY DEF Registries, With
  <1>4. /\ down' \in DownShape /\ down'.st = "going" /\ down'.line = Reverse(order)
        /\ down'.left = Range(order) /\ (down'.early <=> ~Settled)
    BY <1>1, <1>2, <1>3 DEF DownShape, Settled
  <1>5. \A s \in Statuses : With(s)' = With(s)
    BY <1>1 DEF With
  <1>6. /\ With("live")' = With("live") /\ With("created")' = With("created")
        /\ With("pending")' = With("pending") /\ With("out")' = With("out")
    BY <1>5 DEF Statuses
  <1>7. Shape' /\ Turns' /\ Quiet' /\ Earned'
    BY <1>1, <1>4, <1>6 DEF Shape, Turns, Quiet, Earned
  <1>8. Registries' /\ Owed'
    BY <1>1, <1>6 DEF Registries, Distinct, Owed, Excused
  <1>9. Unwinding'
    BY <1>1, <1>6 DEF Unwinding
  <1>10. TearingDown'
    <2>1. ~down.early
      BY <1>1 DEF TearingDown
    <2>2. HoldsTheLiving /\ Sorted(order)
      BY <2>1 DEF TearingDown
    <2>3. HoldsTheLiving' /\ Sorted(order')
      BY <1>1, <1>6, <2>1, <2>2 DEF HoldsTheLiving, Sorted
    <2>4. Settled' <=> Settled
      BY <1>1 DEF Settled
    <2>5. QED
      BY <1>2, <1>3, <1>4, <1>6, <2>2, <2>3, <2>4 DEF TearingDown
  <1>11. QED
    BY <1>7, <1>8, <1>9, <1>10

\* unwindEach under a teardown.
LEMMA TeardownOneOK ==
  ASSUME LifeInv, NEW r \in Resources, TeardownOne(r)
  PROVE  LifeInv'
PROOF
  <1> USE DEF LifeInv
  <1>1. /\ down.st = "going" /\ UnwindsNext(r, down.line, down.left) /\ Unwound(r, "gone")
        /\ UNCHANGED <<opaque, phase, withheld, recreated, loop, reconciling, faulted, moved, counts>>
    BY DEF TeardownOne
  <1>2. /\ st' \in [Resources -> Statuses]
        /\ With("live")' = With("live") \ {r}
        /\ \A q \in Resources : st'[q] = st[q] \/ (q = r /\ st[q] = "live" /\ st'[q] = "gone")
        /\ order' \in Seq(Resources) /\ (Sorted(order) => Sorted(order'))
        /\ held' \subseteq held /\ started' \subseteq started
    BY <1>1, OneUnwound
  <1>3. Turns' /\ Quiet' /\ Owed' /\ Earned' /\ Registries'
    BY <1>1, LoopStays
  <1>4. /\ down' \in DownShape /\ down'.st = "going" /\ down'.line = down.line
        /\ down'.left = down.left \ {r} /\ (down'.early <=> down.early)
    BY <1>1 DEF TeardownOne, Shape, DownShape
  <1>5. Shape'
    BY <1>1, <1>2, <1>4 DEF Shape
  <1>6. Unwinding'
    <2>1. With("out")' = With("out")
      BY <1>2 DEF With
    <2>2. QED
      BY <1>1, <1>2, <2>1 DEF Unwinding
  <1>7. TearingDown'
    <2>1. ASSUME ~down.early PROVE HoldsTheLiving'
      <3>1. /\ HoldsTheLiving /\ With("live") \subseteq down.left
            /\ down.left \subseteq Range(down.line) /\ Latest(down.line)
            /\ down.line \in Seq(Resources)
        BY <1>1, <2>1 DEF TearingDown, Shape, DownShape
      <3>2. ASSUME NEW c \in With("live")' \ Sinks, NEW d \in Uses(c) PROVE st'[d] = "live"
        <4>1. c \in With("live") \ Sinks /\ c # r /\ c \in Resources /\ c \in down.left \ Sinks
          BY <1>2, <3>1 DEF With
        <4>2. st[d] = "live" /\ d \in Resources
          BY <2>1, <3>1, <4>1, Edges DEF HoldsTheLiving
        <4>3. r \notin Uses(c)
          BY <1>1, <3>1, <4>1, NextIsUnused
        <4>4. QED
          BY <1>2, <4>2, <4>3
      <3>3. QED
        BY <3>2 DEF HoldsTheLiving
    <2>2. Settled' <=> Settled
      BY <1>1 DEF Settled
    <2>3. QED
      BY <1>1, <1>2, <1>4, <2>1, <2>2 DEF TearingDown
  <1>8. QED
    BY <1>3, <1>5, <1>6, <1>7

\* The end of a teardown.
LEMMA EndTeardownOK ==
  ASSUME LifeInv, EndTeardown
  PROVE  LifeInv'
PROOF
  <1> USE DEF LifeInv
  <1>1. /\ down.st = "going" /\ down.left = {}
        /\ UNCHANGED <<phase, st, order, withheld, recreated, loop, started, reconciling, opaque,
                       held, faulted, moved, counts>>
    BY DEF EndTeardown
  <1>2. down' \in DownShape /\ down'.st = "done" /\ (down'.early <=> down.early)
    BY EmptySeq DEF EndTeardown, Shape, DownShape
  <1>3. \A s \in Statuses : With(s)' = With(s)
    BY <1>1 DEF With
  <1>4. /\ With("live")' = With("live") /\ With("created")' = With("created")
        /\ With("pending")' = With("pending") /\ With("out")' = With("out")
    BY <1>3 DEF Statuses
  <1>5. Shape' /\ Turns' /\ Quiet' /\ Earned'
    BY <1>1, <1>2, <1>4 DEF Shape, Turns, Quiet, Earned
  <1>6. Registries' /\ Owed'
    BY <1>1, <1>4 DEF Registries, Distinct, Owed, Excused
  <1>7. Unwinding'
    BY <1>1, <1>4 DEF Unwinding
  <1>8. TearingDown'
    <2>1. ~down.early => With("live") = {}
      BY <1>1 DEF TearingDown
    <2>2. Settled' <=> Settled
      BY <1>1 DEF Settled
    <2>3. QED
      BY <1>1, <1>2, <1>4, <2>1, <2>2 DEF TearingDown, HoldsTheLiving, Sorted
  <1>9. QED
    BY <1>5, <1>6, <1>7, <1>8

-----------------------------------------------------------------------------
(* Targets and reconciliation. *)

\* kernel.ts: a target's run() is dispatched.
LEMMA StartTargetOK ==
  ASSUME LifeInv, NEW r \in Resources, StartTarget(r)
  PROVE  LifeInv'
PROOF
  <1> USE DEF LifeInv
  <1>1. /\ started' = started \cup {r}
        /\ UNCHANGED <<phase, st, order, withheld, recreated, loop, reconciling, down, opaque, held,
                       faulted, moved, counts>>
    BY DEF StartTarget
  <1>2. Shape' /\ Turns' /\ Quiet' /\ Earned'
    BY <1>1 DEF Shape, Turns, Quiet, Earned, With
  <1>3. Registries' /\ Owed'
    BY <1>1 DEF Registries, Distinct, Owed, Excused, With
  <1>4. Unwinding' /\ TearingDown'
    BY <1>1 DEF Unwinding, TearingDown, With, HoldsTheLiving, Settled, Sorted
  <1>5. QED
    BY <1>2, <1>3, <1>4

\* impactClosure is closed under holders.
LEMMA Closure ==
  ASSUME NEW stale \in SUBSET Declared
  PROVE  /\ ImpactClosure(stale) \subseteq Declared
         /\ stale \subseteq ImpactClosure(stale)
         /\ \A r \in Declared : Deps[r] \cap ImpactClosure(stale) # {} => r \in ImpactClosure(stale)
PROOF
  <1> DEFINE Closed(t) == stale \subseteq t /\ \A r \in Declared : Deps[r] \cap t # {} => r \in t
             least == {x \in Declared : \A t \in SUBSET Declared : Closed(t) => x \in t}
  <1>1. least \in SUBSET Declared
    OBVIOUS
  <1>2. \A t \in SUBSET Declared : Closed(t) => least \subseteq t
    OBVIOUS
  <1>3. Closed(least)
    <2>1. stale \subseteq least
      OBVIOUS
    <2>2. ASSUME NEW r \in Declared, Deps[r] \cap least # {} PROVE r \in least
      <3>1. ASSUME NEW t \in SUBSET Declared, Closed(t) PROVE r \in t
        <4>1. Deps[r] \cap t # {}
          BY <1>2, <2>2, <3>1
        <4>2. QED
          BY <3>1, <4>1
      <3>2. QED
        BY <3>1
    <2>3. QED
      BY <2>1, <2>2
  <1> DEFINE Least(s) == Closed(s) /\ \A t \in SUBSET s : Closed(t) => t = s
  <1>4. Least(least)
    <2>1. \A t \in SUBSET least : Closed(t) => t = least
      BY <1>1, <1>2
    <2>2. QED
      BY <1>3, <2>1
  <1>5. ImpactClosure(stale) = CHOOSE s \in SUBSET Declared : Least(s)
    BY DEF ImpactClosure
  <1> HIDE DEF least, Least
  <1>6. ImpactClosure(stale) \in SUBSET Declared /\ Least(ImpactClosure(stale))
    BY <1>1, <1>4, <1>5
  <1>7. QED
    BY <1>6 DEF Least

\* reconcile() begins to unwind.
LEMMA BeginReconcileOK ==
  ASSUME LifeInv, NEW edited \in SUBSET Declared, NEW added \in SUBSET With("out"),
         NEW removed \in SUBSET edited, BeginReconcile(edited, removed, added)
  PROVE  LifeInv'
PROOF
  <1> USE DEF LifeInv
  <1> DEFINE impacted == ImpactClosure(edited)
  <1>1. /\ phase = "ready" /\ down.st = "no" /\ Bounded(impacted)
        /\ phase' = "unwind"
        /\ counts' = [counts EXCEPT !.reconciles = @ + 1]
        /\ reconciling' = [line |-> Reverse(order), left |-> impacted \cap Range(order),
                           impacted |-> impacted, rebuilt |-> (impacted \ removed) \cup added,
                           refused |-> FALSE]
        /\ UNCHANGED <<st, order, withheld, recreated, loop, started, down, opaque, held, faulted,
                       moved>>
    BY DEF BeginReconcile
  <1>2. /\ impacted \subseteq Declared
        /\ \A r \in Declared : Deps[r] \cap impacted # {} => r \in impacted
    BY Closure
  <1> HIDE DEF impacted
  <1>3. Declared \subseteq Resources /\ With("out") \subseteq Resources /\ With("live") \subseteq Declared
    BY DEF Declared, With
  <1>4. Reverse(order) \in Seq(Resources)
    BY Reversed DEF Shape
  <1>5. /\ reconciling' \in UnwindShape
        /\ reconciling'.left = impacted \cap Range(order) /\ reconciling'.impacted = impacted
        /\ reconciling'.rebuilt = (impacted \ removed) \cup added
    <2>1. /\ impacted \in SUBSET Resources /\ impacted \cap Range(order) \in SUBSET Resources
          /\ (impacted \ removed) \cup added \in SUBSET Resources
      BY <1>2, <1>3
    <2>2. QED
      BY <1>1, <1>4, <2>1 DEF UnwindShape
  <1>6. counts' \in CountShape
    BY <1>1 DEF Shape, CountShape
  <1>7. \A s \in Statuses : With(s)' = With(s)
    BY <1>1 DEF With
  <1>8. /\ With("live")' = With("live") /\ With("created")' = With("created")
        /\ With("pending")' = With("pending") /\ With("out")' = With("out")
    BY <1>7 DEF Statuses
  <1>9. Shape' /\ Turns' /\ Quiet' /\ Owed' /\ Earned'
    BY <1>1, <1>5, <1>6, <1>8 DEF Shape, Turns, Quiet, Owed, Earned
  <1>10. Registries'
    BY <1>1, <1>8 DEF Registries, Distinct
  <1>11. Unwinding'
    <2>1. impacted \cap opaque = {}
      BY <1>1 DEF Bounded
    <2>2. Range(order) = With("live")
      BY DEF Registries
    <2>3. QED
      BY <1>1, <1>2, <1>3, <1>5, <1>8, <2>1, <2>2 DEF Unwinding
  <1>12. TearingDown'
    BY <1>1, <1>8 DEF TearingDown, HoldsTheLiving, Sorted
  <1>13. QED
    BY <1>9, <1>10, <1>11, <1>12

\* unwindEach under a reconciliation.
LEMMA UnwindOneOK ==
  ASSUME LifeInv, NEW r \in Resources, NEW refused \in BOOLEAN, UnwindOne(r, refused)
  PROVE  LifeInv'
PROOF
  <1> USE DEF LifeInv
  <1>1. /\ phase = "unwind" /\ UnwindsNext(r, reconciling.line, reconciling.left)
        /\ Unwound(r, "gone")
        /\ UNCHANGED <<phase, withheld, recreated, loop, down, opaque, faulted, moved>>
    BY DEF UnwindOne
  <1>2. /\ st' \in [Resources -> Statuses]
        /\ With("live")' = With("live") \ {r}
        /\ \A q \in Resources : st'[q] = st[q] \/ (q = r /\ st[q] = "live" /\ st'[q] = "gone")
        /\ order' \in Seq(Resources) /\ (Sorted(order) => Sorted(order'))
        /\ held' \subseteq held /\ started' \subseteq started
    BY <1>1, OneUnwound
  <1>3. Turns' /\ Quiet' /\ Owed' /\ Earned' /\ Registries'
    BY <1>1, LoopStays
  <1>4. /\ reconciling' \in UnwindShape
        /\ reconciling'.left = reconciling.left \ {r}
        /\ reconciling'.impacted = reconciling.impacted /\ reconciling'.rebuilt = reconciling.rebuilt
    BY DEF UnwindOne, Shape, UnwindShape
  <1>5. counts' \in CountShape
    BY MayFailCounts DEF UnwindOne, Shape
  <1>6. Shape'
    BY <1>1, <1>2, <1>4, <1>5 DEF Shape
  <1>7. Unwinding'
    <2>1. With("out")' = With("out")
      BY <1>2 DEF With
    <2>2. QED
      BY <1>1, <1>2, <1>4, <2>1 DEF Unwinding
  <1>8. TearingDown'
    <2>1. ASSUME ~down.early PROVE HoldsTheLiving'
      <3>1. HoldsTheLiving
        BY <1>1, <2>1, NotDownYet
      <3>2. r \in reconciling.impacted /\ Free(r, reconciling.left) /\ r \notin opaque
        BY <1>1 DEF UnwindsNext, Unwinding
      <3>3. ASSUME NEW c \in With("live")' \ Sinks, NEW d \in Uses(c) PROVE st'[d] = "live"
        <4>1. c \in With("live") \ Sinks /\ c # r /\ c \in Resources
          BY <1>2 DEF With
        <4>2. st[d] = "live" /\ d \in Resources
          BY <2>1, <3>1, <4>1, Edges DEF HoldsTheLiving
        <4>3. r \notin ByName[c]
          BY <3>2, <4>1 DEF Registries
        <4>4. r \notin Deps[c]
          <5>1. SUFFICES ASSUME r \in Deps[c] PROVE FALSE
            OBVIOUS
          <5>2. c \in reconciling.left
            BY <1>1, <3>2, <4>1, <5>1 DEF Unwinding
          <5>3. QED
            BY <3>2, <4>1, <5>1, <5>2 DEF Free, InTier
        <4>5. QED
          BY <1>2, <4>2, <4>3, <4>4 DEF Uses
      <3>4. QED
        BY <3>3 DEF HoldsTheLiving
    <2>2. Settled' <=> Settled
      BY <1>1 DEF Settled
    <2>3. QED
      BY <1>1, <1>2, <2>1, <2>2, NotDownYet DEF TearingDown
  <1>9. QED
    BY <1>3, <1>6, <1>7, <1>8

\* What was unwound is declared anew, and the loop starts over.
LEMMA ReregisterOK ==
  ASSUME LifeInv, Reregister
  PROVE  LifeInv'
PROOF
  <1> USE DEF LifeInv
  <1> DEFINE impacted == reconciling.impacted
             rebuilt == reconciling.rebuilt
  <1>1. /\ phase = "unwind" /\ reconciling.left = {} /\ phase' = "loop"
        /\ st' = [r \in Resources |-> IF r \in rebuilt THEN "pending"
                                      ELSE IF r \in impacted THEN "out" ELSE st[r]]
        /\ withheld' = withheld \ impacted /\ recreated' = recreated \ impacted
        /\ loop' = [sub |-> "create", todo |-> rebuilt, now |-> {}, progress |-> FALSE, pass |-> 1]
        /\ reconciling' = NoUnwinding
        /\ faulted' = {} /\ moved' = 0
        /\ UNCHANGED <<order, started, down, opaque, held, counts>>
    BY DEF Reregister
  <1>2. /\ impacted \cap With("live") = {} /\ rebuilt \subseteq impacted \cup With("out")
        /\ impacted \subseteq Resources /\ rebuilt \subseteq Resources
        /\ With("pending") = {} /\ With("created") = {}
    BY <1>1 DEF Unwinding, Quiet, Shape, UnwindShape
  <1> HIDE DEF impacted, rebuilt
  <1>3. /\ st' \in [Resources -> Statuses]
        /\ \A q \in Resources : /\ q \in rebuilt => st'[q] = "pending"
                                /\ q \notin rebuilt /\ q \in impacted => st'[q] = "out"
                                /\ q \notin rebuilt /\ q \notin impacted => st'[q] = st[q]
    BY <1>1 DEF Shape, Statuses
  <1>4. \A q \in Resources : st[q] = "live" => q \notin rebuilt /\ q \notin impacted
    BY <1>2 DEF With
  <1>5. /\ With("live")' = With("live") /\ With("created")' = {} /\ With("pending")' = rebuilt
    <2>1. With("live")' = With("live")
      BY <1>3, <1>4 DEF With
    <2>2. With("created")' = {} /\ With("pending")' = rebuilt
      BY <1>2, <1>3 DEF With
    <2>3. QED
      BY <2>1, <2>2
  <1>6. /\ loop' \in LoopShape
        /\ loop'.sub = "create" /\ loop'.todo = rebuilt /\ loop'.now = {}
        /\ loop'.pass = 1 /\ loop'.progress = FALSE
    BY <1>1, <1>2 DEF LoopShape
  <1>7. reconciling' \in UnwindShape
    BY <1>1, EmptySeq DEF NoUnwinding, UnwindShape
  <1>8. Shape'
    BY <1>1, <1>3, <1>6, <1>7 DEF Shape
  <1>9. Registries'
    BY <1>1, <1>2, <1>5 DEF Registries, Distinct
  <1>10. Turns' /\ Quiet' /\ Unwinding' /\ Owed' /\ Earned'
    BY <1>1, <1>5, <1>6 DEF Turns, Quiet, Unwinding, Owed, Earned
  <1>11. TearingDown'
    <2>1. ASSUME ~down.early PROVE HoldsTheLiving'
      <3>1. HoldsTheLiving
        BY <1>1, <2>1, NotDownYet
      <3>2. \A q \in Resources : st[q] = "live" => st'[q] = "live"
        BY <1>3, <1>4
      <3>3. QED
        BY <1>1, <1>5, <2>1, <3>1, <3>2, Edges DEF HoldsTheLiving, With
    <2>2. QED
      BY <1>1, <1>5, <2>1, NotDownYet DEF TearingDown, Sorted
  <1>12. QED
    BY <1>8, <1>9, <1>10, <1>11

\* unwindResources throws: the kernel is ready again, without what it unwound.
LEMMA ReconcileRejectsOK ==
  ASSUME LifeInv, ReconcileRejects
  PROVE  LifeInv'
PROOF
  <1> USE DEF LifeInv
  <1>1. /\ phase = "unwind" /\ phase' = "ready" /\ reconciling' = NoUnwinding
        /\ UNCHANGED <<st, order, withheld, recreated, loop, started, down, opaque, held, faulted,
                       moved, counts>>
    BY DEF ReconcileRejects
  <1>2. \A s \in Statuses : With(s)' = With(s)
    BY <1>1 DEF With
  <1>3. /\ With("live")' = With("live") /\ With("created")' = With("created")
        /\ With("pending")' = With("pending")
    BY <1>2 DEF Statuses
  <1>4. reconciling' \in UnwindShape
    BY <1>1, EmptySeq DEF NoUnwinding, UnwindShape
  <1>5. Shape' /\ Turns' /\ Quiet' /\ Unwinding' /\ Owed' /\ Earned'
    BY <1>1, <1>3, <1>4 DEF Shape, Turns, Quiet, Unwinding, Owed, Earned
  <1>6. Registries'
    BY <1>1, <1>3 DEF Registries, Distinct
  <1>7. ~down.early => HoldsTheLiving'
    BY <1>1, <1>3, NotDownYet DEF HoldsTheLiving
  <1>8. TearingDown'
    BY <1>1, <1>3, <1>7, NotDownYet DEF TearingDown, Sorted
  <1>9. QED
    BY <1>5, <1>6, <1>8

-----------------------------------------------------------------------------
(* The theorems. *)

LEMMA LifeStart ==
  ASSUME LifeInit
  PROVE  LifeInv
PROOF
  <1>1. /\ st \in [Resources -> Statuses] /\ \A r \in Resources : st[r] = "pending"
        /\ <<>> \in Seq(Resources) /\ Len(<<>>) = 0 /\ Range(<<>>) = {}
    BY EmptySeq DEF LifeInit, Statuses, Range
  <1>2. With("live") = {} /\ With("created") = {} /\ With("pending") = Resources
    BY <1>1 DEF With
  <1>3. loop \in LoopShape /\ loop.pass = 1 /\ ~loop.progress /\ loop.sub = "create"
        /\ loop.todo = Resources /\ loop.now = {}
    BY DEF LifeInit, LoopShape
  <1>4. reconciling \in UnwindShape /\ down \in DownShape /\ counts \in CountShape
        /\ down.st = "no" /\ ~down.early
    BY <1>1 DEF LifeInit, UnwindShape, DownShape, CountShape, NoUnwinding
  <1>5. Shape
    BY <1>1, <1>3, <1>4 DEF Shape, LifeInit
  <1>6. Registries /\ Turns /\ Quiet /\ Unwinding /\ Owed /\ Earned
    <2>1. Registries
      <3>1. order = <<>> /\ held = {}
        BY DEF LifeInit
      <3>2. Range(order) = {} /\ 1..Len(order) = {}
        BY <1>1, <3>1
      <3>3. QED
        BY <1>2, <3>1, <3>2 DEF Registries, Distinct
    <2>2. Turns /\ Quiet /\ Unwinding
      BY <1>2, <1>3 DEF LifeInit, Turns, Quiet, Unwinding
    <2>3. Owed /\ Earned
      BY <1>2, <1>3 DEF LifeInit, Owed, Earned
    <2>4. QED
      BY <2>1, <2>2, <2>3
  <1>7. TearingDown
    BY <1>1, <1>2, <1>4 DEF LifeInit, TearingDown, HoldsTheLiving, Sorted
  <1>8. QED
    BY <1>5, <1>6, <1>7 DEF LifeInv

LEMMA LifeStep ==
  ASSUME LifeInv, [LifeNext]_lifeVars
  PROVE  LifeInv'
PROOF
  <1>1. CASE UNCHANGED lifeVars
    <2>1. UNCHANGED <<phase, st, order, withheld, recreated, loop, started, reconciling, down,
                      opaque, held, faulted, moved, counts>>
      BY <1>1 DEF lifeVars
    <2>2. /\ With("live")' = With("live") /\ With("created")' = With("created")
          /\ With("pending")' = With("pending") /\ With("out")' = With("out")
      BY <2>1 DEF With
    <2>3. Shape' /\ Turns' /\ Quiet' /\ Unwinding' /\ Earned'
      BY <2>1, <2>2 DEF LifeInv, Shape, Turns, Quiet, Unwinding, Earned
    <2>4. Registries' /\ Owed'
      BY <2>1, <2>2 DEF LifeInv, Registries, Distinct, Owed, Excused
    <2>5. TearingDown'
      BY <2>1, <2>2 DEF LifeInv, TearingDown, HoldsTheLiving, Sorted, Settled, Latest
    <2>6. QED
      BY <2>3, <2>4, <2>5 DEF LifeInv
  <1>2. ASSUME NEW r \in Resources,
               \/ CreateOne(r) \/ CreateThrows(r)
               \/ Initialized(r) \/ Deferred(r) \/ InitFails(r) \/ Fatal(r)
               \/ StartTarget(r) \/ TeardownOne(r)
               \/ \E refused \in BOOLEAN : UnwindOne(r, refused)
        PROVE  LifeInv'
    BY <1>2, CreateOneOK, CreateThrowsOK, InitializedOK, DeferredOK, InitFailsOK, FatalOK,
       StartTargetOK, TeardownOneOK, UnwindOneOK
  <1>3. CASE EndCreates \/ EndPass \/ BeginTeardown \/ EndTeardown \/ Reregister \/ ReconcileRejects
    BY <1>3, EndCreatesOK, EndPassOK, BeginTeardownOK, EndTeardownOK, ReregisterOK,
       ReconcileRejectsOK
  <1>4. ASSUME NEW edited \in SUBSET Declared, NEW added \in SUBSET With("out"),
               NEW removed \in SUBSET edited, BeginReconcile(edited, removed, added)
        PROVE  LifeInv'
    BY <1>4, BeginReconcileOK
  <1>5. QED
    BY <1>1, <1>2, <1>3, <1>4 DEF LifeNext

\* What the registries, the loop and an unwinding agree on holds in every state, however
\* create() and init() fail, whatever is reconciled, and when the kernel is torn down
\* in the middle of it (evaluation-context.ts, kernel.ts).
THEOREM LifeInvariant == LifeSpec => []LifeInv
PROOF
  <1>1. LifeInit => LifeInv
    BY LifeStart
  <1>2. LifeInv /\ [LifeNext]_lifeVars => LifeInv'
    BY LifeStep
  <1>3. QED
    BY <1>1, <1>2, PTL DEF LifeSpec

\* Unless a teardown overlaps a reconciliation, nobody live but a sink ever holds or has
\* looked up somebody who is not: the deferrals of initializeResources, the order of
\* teardownOrder and the closure of reconcile() see to it for any graph of edges.
THEOREM LivingHoldTheLiving == LifeSpec => []HoldsTheLiving
PROOF
  <1>1. LifeInv => HoldsTheLiving
    BY DEF LifeInv, TearingDown, HoldsTheLiving
  <1>2. QED
    BY <1>1, LifeInvariant, PTL

\* initializeResources gives up on nobody it owes another pass, and makes no pass that
\* nobody earned, for any MAX_PASSES and any failures.
THEOREM LoopEndsInTime == LifeSpec => []EndsInTime
PROOF
  <1>1. LifeInv => EndsInTime
    BY DEF LifeInv, Owed, Excused, Earned, EndsInTime, GaveEveryoneATurn, PassesAreEarned
  <1>2. QED
    BY <1>1, LifeInvariant, PTL

\* teardownResources leaves nobody live and nothing held but by what was created and
\* never initialized, unless it overlaps a reconciliation.
THEOREM TeardownCompletes == LifeSpec => []TeardownIsComplete
PROOF
  <1>1. LifeInv => TeardownIsComplete
    BY DEF LifeInv, TearingDown, Registries, TeardownIsComplete
  <1>2. QED
    BY <1>1, LifeInvariant, PTL
==============================================================================
