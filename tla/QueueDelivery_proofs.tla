------------------------ MODULE QueueDelivery_proofs ------------------------
(***************************************************************************)
(* Proofs about queue delivery, for any workers, messages, concurrency,    *)
(* budget and bounds.                                                      *)
(*                                                                         *)
(* A step is one of three kinds: a delivery moves on and perhaps settles   *)
(* or renews the row it holds (Delivers), a row nobody holds moves (Rows), *)
(* or a worker's loop, its shutdown or the clock moves.                    *)
(***************************************************************************)
EXTENDS QueueDelivery, FiniteSetTheorems, FunctionTheorems, TLAPS

RowShape ==
  [st: RowStates, lease: 0..Lease, token: Nat, attempts: Nat, dying: BOOLEAN, cancel: BOOLEAN]

FlightShape ==
  [id: Ids, token: Nat, w: Workers, st: FlightStates, attempt: Nat,
   lapsed: BOOLEAN, dying: BOOLEAN, held: 0..Lease, fresh: 0..Lease,
   renew: {"none", "sent", "held", "lost", "cancelled"},
   ending: {"none", "lost", "cancelled", "shutdown"},
   back: {"no", "sent", "done"}]

WorkerShape ==
  [phase: {"run", "stopping", "handing", "stopped"}, pc: {"free", "asked", "answered"},
   age: Nat, room: Nat]

Shape ==
  /\ rows \in [Ids -> RowShape]
  /\ \A i \in Ids : rows[i].st = "running" => rows[i].attempts > 0
  /\ flights \subseteq FlightShape /\ IsFiniteSet(flights)
  /\ worker \in [Workers -> WorkerShape]
  /\ client \in [pc: {"request", "read"}, id: Ids, found: RowStates] \cup {NoCancel}
  /\ claims \in Nat /\ stops \in Nat

\* A token is of one claim, and of one delivery of a message.
TokensAreOwn ==
  /\ \A f \in flights : 0 < f.token /\ f.token <= claims
  /\ \A i \in Ids : rows[i].token <= claims
  /\ \A f, g \in flights : f.id = g.id /\ f.token = g.token => f = g

\* What is on its way from the store, or straight back to it, was not begun; a delivery
\* that was handed back was told to stop; and so was every one of a worker whose grace is
\* over.
Phases ==
  /\ \A f \in flights :
       /\ f.st = "coming" => worker[f.w].pc = "answered"
       /\ f.st \in {"coming", "unrun"} => f.ending = "none" /\ f.back = "no" /\ f.renew = "none"
       /\ f.back # "no" => f.ending # "none"
       /\ worker[f.w].phase \in {"handing", "stopped"} => f.st = "done" \/ f.ending # "none"
  /\ \A w \in Workers : worker[w].phase \in {"handing", "stopped"} => worker[w].pc = "free"

BaseInv == Shape /\ TokensAreOwn /\ Phases

-----------------------------------------------------------------------------
(* Rows and deliveries. *)

LEMMA SettleFacts ==
  ASSUME NEW row \in RowShape, NEW s \in RowStates
  PROVE  Settle(row, s) \in RowShape /\ Settle(row, s).st = s /\ Settle(row, s).token = 0
<1>1. 0 \in 0..Lease
  BY DEF Lease
<1> QED BY <1>1 DEF Settle, RowShape, NoToken

LEMMA ReleaseFacts ==
  ASSUME NEW row \in RowShape, NEW b \in BOOLEAN, NEW dying \in BOOLEAN, NEW s \in RowStates,
         row.attempts > 0
  PROVE  /\ Release(row, b, dying, s) \in RowShape
         /\ Release(row, b, dying, s).st = (IF row.cancel THEN "cancelled" ELSE s)
         /\ Release(row, b, dying, s).token = 0
         /\ Release(row, b, dying, s).dying = dying
         /\ Release(row, b, dying, s).attempts =
              (IF b THEN row.attempts - 1 ELSE row.attempts)
<1> DEFINE t == IF row.cancel THEN "cancelled" ELSE s
           n == IF b THEN row.attempts - 1 ELSE row.attempts
<1>1. "cancelled" \in RowStates /\ row.attempts \in Nat /\ 0 \in 0..Lease
  BY DEF RowStates, Settled, RowShape, Lease
<1>2. n \in Nat /\ t \in RowStates
  BY <1>1
<1>3. Release(row, b, dying, s) =
        [row EXCEPT !.st = t, !.token = 0, !.lease = 0, !.dying = dying, !.attempts = n]
  BY DEF Release, NoToken, RowShape
<1> HIDE DEF n, t
<1>4. /\ Release(row, b, dying, s) \in RowShape
      /\ Release(row, b, dying, s).st = t
      /\ Release(row, b, dying, s).token = 0
      /\ Release(row, b, dying, s).dying = dying
      /\ Release(row, b, dying, s).attempts = n
  <2> DEFINE new == [row EXCEPT !.st = t, !.token = 0, !.lease = 0, !.dying = dying,
                                !.attempts = n]
  <2>1. new \in RowShape
    BY <1>1, <1>2 DEF RowShape
  <2>2. new.st = t /\ new.token = 0 /\ new.dying = dying /\ new.attempts = n
    BY DEF RowShape
  <2> QED BY <1>3, <2>1, <2>2
<1> QED BY <1>4 DEF t, n

LEMMA ForgetFields ==
  ASSUME NEW g \in FlightShape
  PROVE  /\ Forget(g) \in FlightShape
         /\ Forget(g).id = g.id /\ Forget(g).token = g.token /\ Forget(g).w = g.w
         /\ Forget(g).st = g.st /\ Forget(g).attempt = g.attempt /\ Forget(g).renew = g.renew
         /\ Forget(g).ending = g.ending /\ Forget(g).back = g.back
         /\ g.st # "done" /\ g.ending = "none" =>
              Forget(g).held = g.held /\ Forget(g).fresh = g.fresh
         /\ g.st \in {"coming", "begin"} =>
              Forget(g).lapsed = g.lapsed /\ Forget(g).dying = g.dying
<1> DEFINE ended == g.st = "done" \/ g.ending # "none"
           begun == g.st \notin {"coming", "begin"}
           h == IF ended THEN 0 ELSE g.held
           r == IF ended THEN 0 ELSE g.fresh
           l == g.lapsed /\ ~begun
           d == g.dying /\ ~begun
<1>1. h \in 0..Lease /\ r \in 0..Lease
  <2>1. 0 \in 0..Lease
    BY DEF Lease
  <2> QED BY <2>1 DEF FlightShape
<1>2. l \in BOOLEAN /\ d \in BOOLEAN
  BY DEF FlightShape
<1>3. Forget(g) = [g EXCEPT !.held = h, !.fresh = r, !.lapsed = l, !.dying = d]
  BY DEF Forget, FlightShape
<1>4. /\ g.st # "done" /\ g.ending = "none" => h = g.held /\ r = g.fresh
      /\ g.st \in {"coming", "begin"} => l = g.lapsed /\ d = g.dying
  BY DEF FlightShape
<1> HIDE DEF h, r, l, d
<1> QED BY <1>1, <1>2, <1>3, <1>4, ZenonT(60) DEF FlightShape

LEMMA WithMembers ==
  ASSUME NEW f, NEW g
  PROVE  /\ \A x \in With(f, g) : (x \in flights /\ x # f) \/ (x = Forget(g) /\ ~Spent(g))
         /\ \A x \in flights : x # f => x \in With(f, g)
<1>1. \A x : x \in {Forget(y) : y \in {z \in {g} : ~Spent(z)}} => x = Forget(g) /\ ~Spent(g)
  BY Zenon
<1> DEFINE rest == {Forget(y) : y \in {z \in {g} : ~Spent(z)}}
<1>2. With(f, g) = (flights \ {f}) \cup rest
  BY DEF With
<1> HIDE DEF rest
<1>3. \A x \in rest : x = Forget(g) /\ ~Spent(g)
  BY <1>1 DEF rest
<1>4. ASSUME NEW x \in With(f, g)
      PROVE  (x \in flights /\ x # f) \/ (x = Forget(g) /\ ~Spent(g))
  <2>1. (x \in flights /\ x # f) \/ x \in rest
    BY <1>2
  <2> QED BY <1>3, <2>1, Zenon
<1>5. \A x \in flights : x # f => x \in With(f, g)
  BY <1>2
<1> QED BY <1>4, <1>5

\* Nobody told the delivery to stop, and it has not ended.
Alive(f) == f.st \notin {"unrun", "done"} /\ f.ending = "none"

\* How a delivery f moves on to g: as itself, and told to stop if it was told.
Keeps(f, g) ==
  /\ g \in FlightShape
  /\ g.id = f.id /\ g.token = f.token /\ g.w = f.w /\ g.attempt = f.attempt
  /\ g.st \notin {"coming", "unrun"}
  /\ f.st \in {"coming", "unrun", "done"} => g.st = "done"
  /\ f.ending # "none" => g.ending # "none"
  /\ g.back # "no" => f.back # "no"

\* A handler is called for what neither is dying nor lapsed once too often.
GetsItsTurn(f, g) ==
  /\ g.st = "begin" => f.st = "begin" /\ g.lapsed = f.lapsed /\ g.dying = f.dying
  /\ g.st = "handler" =>
       f.st = "handler" \/ (f.st = "begin" /\ f.dying = FALSE /\ ~LapseUsedUp(f))
  /\ g.st = "release" => f.st = "release" \/ (f.st = "handler" /\ f.attempt < Budget)

\* The lease is reckoned anew from an answered renewal only.
Reckons(f, g) ==
  Alive(g) =>
    /\ g.held = f.held \/ (f.renew = "held" /\ g.renew = "none" /\ g.held = f.fresh)
    /\ g.renew \in {"sent", "held"} =>
         /\ g.held = f.held
         /\ g.fresh = Lease \/ (f.renew \in {"sent", "held"} /\ g.fresh = f.fresh)

\* What the delivery f leaves its row as.
Gives(f, row) ==
  /\ row \in RowShape /\ row.token = 0 /\ row.st \in Settled \cup {"pending", "scheduled"}
  /\ row.st = "completed" => f.st = "complete"
  /\ rows[f.id].cancel = TRUE => row.st \in {"completed", "cancelled"}
  /\ row.st \in {"pending", "scheduled"} =>
       \/ row.dying = TRUE \/ f.st = "unrun" \/ f.back = "sent"
       \/ f.st = "release" /\ row.attempts = rows[f.id].attempts

RowOf(f, g) ==
  \/ rows' = rows /\ (g.renew = "held" => f.renew = "held" /\ g.fresh = f.fresh)
  \/ HeldBy(f) /\ g.renew = "held" /\ rows' = [rows EXCEPT ![f.id].lease = Lease]
  \/ /\ HeldBy(f)
     /\ \E row : /\ Gives(f, row) /\ rows' = [rows EXCEPT ![f.id] = row]
                 /\ Alive(g) => row.st = "cancelled"

Delivers(f, g) ==
  /\ flights' = With(f, g) /\ UNCHANGED <<worker, client, claims, stops>>
  /\ Keeps(f, g) /\ GetsItsTurn(f, g) /\ Reckons(f, g) /\ RowOf(f, g)

\* The moves that only change the state of the delivery.
LEMMA StateMoves ==
  ASSUME NEW f \in FlightShape, NEW s \in FlightStates,
         s \notin {"coming", "unrun", "begin"},
         f.st \in {"coming", "unrun", "done"} => s = "done",
         s = "handler" => f.st = "begin" /\ f.dying = FALSE /\ ~LapseUsedUp(f),
         s = "release" => f.st = "handler" /\ f.attempt < Budget
  PROVE  LET g == [f EXCEPT !.st = s]
         IN  /\ Keeps(f, g) /\ GetsItsTurn(f, g) /\ Reckons(f, g)
             /\ g.st = s /\ g.renew = f.renew /\ g.fresh = f.fresh
<1> DEFINE g == [f EXCEPT !.st = s]
<1>1. /\ g \in FlightShape /\ g.st = s
      /\ g.id = f.id /\ g.token = f.token /\ g.w = f.w /\ g.attempt = f.attempt
      /\ g.ending = f.ending /\ g.back = f.back /\ g.renew = f.renew /\ g.fresh = f.fresh
      /\ g.held = f.held
  BY DEF FlightShape
<1> HIDE DEF g
<1>2. Keeps(f, g)
  BY <1>1 DEF Keeps
<1>3. GetsItsTurn(f, g)
  BY <1>1 DEF GetsItsTurn
<1>4. Reckons(f, g)
  BY <1>1 DEF Reckons
<1> QED BY <1>1, <1>2, <1>3, <1>4 DEF g

LEMMA SentState ==
  ASSUME NEW f \in FlightShape, NEW call \in FlightStates
  PROVE  \E s \in {call, "done"} : Sent(f, call) = [f EXCEPT !.st = s]
  BY DEF Sent

LEMMA DeadState ==
  ASSUME NEW f \in FlightShape
  PROVE  \E s \in {"onDead", "kill", "done"} : Dead(f) = [f EXCEPT !.st = s]
  BY SentState DEF Dead, FlightStates

\* The moves that leave the state of the delivery.
LEMMA OtherMoves ==
  ASSUME NEW f \in FlightShape, NEW g \in FlightShape, f.st \notin {"coming", "unrun"},
         g.id = f.id, g.token = f.token, g.w = f.w, g.attempt = f.attempt, g.st = f.st,
         g.lapsed = f.lapsed, g.dying = f.dying,
         f.ending # "none" => g.ending # "none", g.back # "no" => f.back # "no"
  PROVE  Keeps(f, g) /\ GetsItsTurn(f, g)
  BY DEF Keeps, GetsItsTurn

LEMMA EndedFields ==
  ASSUME NEW f \in FlightShape, NEW why \in {"lost", "cancelled", "shutdown"}
  PROVE  /\ Ended(f, why) \in FlightShape /\ Ended(f, why).ending # "none"
         /\ Ended(f, why).id = f.id /\ Ended(f, why).token = f.token /\ Ended(f, why).w = f.w
         /\ Ended(f, why).attempt = f.attempt /\ Ended(f, why).st = f.st
         /\ Ended(f, why).lapsed = f.lapsed /\ Ended(f, why).dying = f.dying
         /\ Ended(f, why).back = f.back /\ Ended(f, why).renew = f.renew
<1> DEFINE e == IF f.ending = "none" THEN why ELSE f.ending
<1>1. e \in {"lost", "cancelled", "shutdown"}
  BY DEF FlightShape
<1>2. Ended(f, why) = [f EXCEPT !.ending = e]
  BY DEF Ended, FlightShape
<1> HIDE DEF e
<1> QED BY <1>1, <1>2 DEF FlightShape

\* What a settling call writes.
LEMMA WrittenRows ==
  ASSUME BaseInv, NEW f \in flights, f.st \in Calling, HeldBy(f),
         NEW row \in Written(f, rows[f.id])
  PROVE  Gives(f, row)
<1> DEFINE old == rows[f.id]
<1>1. old \in RowShape /\ f \in FlightShape /\ old.st = "running" /\ old.attempts > 0
      /\ old.cancel \in BOOLEAN
  BY DEF BaseInv, Shape, HeldBy, FlightShape, RowShape
<1>2. {"completed", "dead", "cancelled", "pending", "scheduled"} \subseteq RowStates
      /\ Settled = {"completed", "dead", "cancelled"}
  BY DEF RowStates, Settled
<1> HIDE DEF old
<1>r. ASSUME NEW b \in BOOLEAN, NEW d \in BOOLEAN, NEW s \in {"pending", "scheduled"},
             row = Release(old, b, d, s)
      PROVE  /\ row \in RowShape /\ row.st = (IF old.cancel THEN "cancelled" ELSE s)
             /\ row.token = 0 /\ row.dying = d
             /\ row.attempts = (IF b THEN old.attempts - 1 ELSE old.attempts)
  <2>1. s \in RowStates
    BY <1>2
  <2>2. old.attempts > 0
    BY <1>1
  <2>3. old \in RowShape
    BY <1>1
  <2> QED BY <1>r, <2>1, <2>2, <2>3, ReleaseFacts
<1>3. CASE f.st = "complete"
  <2>1. row = Settle(old, "completed")
    BY <1>3 DEF Written, old
  <2> QED BY <1>1, <1>2, <1>3, <2>1, SettleFacts DEF Gives
<1>4. CASE f.st = "kill"
  <2>1. row = Settle(old, IF old.cancel THEN "cancelled" ELSE "dead")
    BY <1>4 DEF Written, old
  <2>2. PICK s \in {"cancelled", "dead"} :
          row = Settle(old, s) /\ (old.cancel = TRUE => s = "cancelled")
    BY <1>1, <2>1
  <2> QED BY <1>1, <1>2, <2>2, SettleFacts DEF Gives, old
<1>5. CASE f.st = "release"
  <2>1. PICK s \in {"pending", "scheduled"} : row = Release(old, FALSE, FALSE, s)
    BY <1>5 DEF Written, old
  <2>2. /\ row \in RowShape /\ row.st = (IF old.cancel THEN "cancelled" ELSE s)
        /\ row.token = 0 /\ row.attempts = old.attempts
    BY <1>r, <2>1
  <2> QED BY <1>1, <1>2, <1>5, <2>2 DEF Gives, old
<1>6. CASE f.st = "mark"
  <2>1. PICK s \in {"pending", "scheduled"} : row = Release(old, FALSE, TRUE, s)
    BY <1>6 DEF Written, old
  <2>2. /\ row \in RowShape /\ row.st = (IF old.cancel THEN "cancelled" ELSE s)
        /\ row.token = 0 /\ row.dying = TRUE
    BY <1>r, <2>1
  <2> QED BY <1>1, <1>2, <2>2 DEF Gives, old
<1>7. CASE f.st = "unrun"
  <2>1. row = Release(old, TRUE, FALSE, "pending")
    BY <1>7 DEF Written, old
  <2>2. /\ row \in RowShape /\ row.st = (IF old.cancel THEN "cancelled" ELSE "pending")
        /\ row.token = 0
    BY <1>r, <2>1
  <2> QED BY <1>1, <1>2, <1>7, <2>2 DEF Gives, old
<1> QED BY <1>3, <1>4, <1>5, <1>6, <1>7 DEF Calling

\* Every step of a delivery (worker-loop.ts process, settle, renewLease, handBack).
LEMMA DeliverySteps ==
  ASSUME BaseInv, NEW f \in flights,
         FlightStep(f) \/ Renewal(f) \/ SettleFails(f) \/ HandBackFails(f)
  PROVE  \E g : Delivers(f, g)
<1>0. /\ f \in FlightShape /\ rows \in [Ids -> RowShape] /\ f.id \in Ids
      /\ rows[f.id] \in RowShape /\ f.attempt \in Nat /\ Budget \in Nat
      /\ f.lapsed \in BOOLEAN /\ f.dying \in BOOLEAN /\ f.st \in FlightStates
  BY QueueConstants DEF BaseInv, Shape, FlightShape
<1>p. /\ f.st \in {"coming", "unrun"} => f.ending = "none" /\ f.back = "no" /\ f.renew = "none"
      /\ f.back # "no" => f.ending # "none"
  BY DEF BaseInv, Phases
<1>s. ASSUME NEW s \in FlightStates, s \notin {"coming", "unrun", "begin"},
             f.st \in {"coming", "unrun", "done"} => s = "done",
             s = "handler" => f.st = "begin" /\ f.dying = FALSE /\ ~LapseUsedUp(f),
             s = "release" => f.st = "handler" /\ f.attempt < Budget,
             flights' = With(f, [f EXCEPT !.st = s]), UNCHANGED <<rows, worker, client, claims, stops>>
      PROVE  \E g : Delivers(f, g)
  <2> DEFINE g == [f EXCEPT !.st = s]
  <2>1. /\ Keeps(f, g) /\ GetsItsTurn(f, g) /\ Reckons(f, g)
        /\ g.renew = f.renew /\ g.fresh = f.fresh
    BY <1>0, <1>s, StateMoves
  <2> HIDE DEF g
  <2>2. RowOf(f, g)
    BY <1>s, <2>1 DEF RowOf
  <2>3. flights' = With(f, g)
    BY <1>s DEF g
  <2> QED BY <1>s, <2>1, <2>2, <2>3 DEF Delivers
<1>1. CASE Process(f)
  <2>1. PICK g : /\ flights' = With(f, g) /\ f.st = "begin"
                 /\ g = IF f.dying \/ f.id \in Unreadable \/ LapseUsedUp(f)
                        THEN Dead(f) ELSE [f EXCEPT !.st = "handler"]
                 /\ UNCHANGED <<rows, worker, client, claims, stops>>
    BY <1>1 DEF Process
  <2>2. \/ \E s \in {"onDead", "kill", "done"} : g = [f EXCEPT !.st = s]
        \/ g = [f EXCEPT !.st = "handler"] /\ f.dying = FALSE /\ ~LapseUsedUp(f)
    BY <1>0, <2>1, DeadState
  <2> QED BY <1>s, <2>1, <2>2 DEF FlightStates
<1>2. ASSUME NEW result \in {"ok", "fail", "final"}, HandlerReturns(f, result)
      PROVE  \E g : Delivers(f, g)
  <2>1. PICK g : /\ flights' = With(f, g) /\ f.st = "handler"
                 /\ g = IF f.ending # "none" THEN [f EXCEPT !.st = "done"]
                        ELSE IF result = "ok" THEN Sent(f, "complete")
                        ELSE IF result = "final" \/ f.attempt >= Budget THEN Dead(f)
                        ELSE Sent(f, "release")
                 /\ UNCHANGED <<rows, worker, client, claims, stops>>
    BY <1>2 DEF HandlerReturns
  <2>2. \/ \E s \in {"onDead", "kill", "done", "complete"} : g = [f EXCEPT !.st = s]
        \/ g = [f EXCEPT !.st = "release"] /\ f.attempt < Budget
    BY <1>0, <2>1, DeadState, SentState DEF FlightStates
  <2> QED BY <1>s, <2>1, <2>2 DEF FlightStates
<1>3. ASSUME NEW ok \in BOOLEAN, OnDeadReturns(f, ok)
      PROVE  \E g : Delivers(f, g)
  <2>1. PICK g : /\ flights' = With(f, g) /\ f.st = "onDead"
                 /\ g = IF f.ending # "none" THEN [f EXCEPT !.st = "done"]
                        ELSE Sent(f, IF ok THEN "kill" ELSE "mark")
                 /\ UNCHANGED <<rows, worker, client, claims, stops>>
    BY <1>3 DEF OnDeadReturns
  <2>2. \E s \in {"kill", "mark", "done"} : g = [f EXCEPT !.st = s]
    <3>1. PICK call \in {"kill", "mark"} : call = (IF ok THEN "kill" ELSE "mark")
      OBVIOUS
    <3> QED BY <1>0, <2>1, <3>1, SentState DEF FlightStates
  <2> QED BY <1>s, <2>1, <2>2 DEF FlightStates
<1>4. CASE SettleFails(f)
  BY <1>s, <1>4 DEF SettleFails, FlightStates
<1>5. CASE SettleExec(f)
  <2> DEFINE g == [f EXCEPT !.st = "done"]
  <2>1. /\ flights' = With(f, g) /\ UNCHANGED <<worker, client, claims, stops>>
        /\ f.st \in Calling
    BY <1>5 DEF SettleExec
  <2>2. /\ Keeps(f, g) /\ GetsItsTurn(f, g) /\ Reckons(f, g)
        /\ g.renew = f.renew /\ g.fresh = f.fresh /\ g.st = "done"
    BY <1>0, StateMoves DEF FlightStates
  <2> HIDE DEF g
  <2>3. RowOf(f, g)
    <3>1. CASE HeldBy(f)
      <4>1. PICK row \in Written(f, rows[f.id]) : rows' = [rows EXCEPT ![f.id] = row]
        BY <1>5, <3>1 DEF SettleExec
      <4>2. Gives(f, row)
        BY <2>1, <3>1, <4>1, WrittenRows
      <4> QED BY <2>2, <3>1, <4>1, <4>2 DEF RowOf, Alive
    <3>2. CASE ~HeldBy(f)
      BY <1>5, <2>2, <3>2 DEF SettleExec, RowOf
    <3> QED BY <3>1, <3>2
  <2> QED BY <2>1, <2>2, <2>3 DEF Delivers
<1>6. CASE GiveUp(f)
  <2> DEFINE g == Ended(f, "lost")
  <2>1. /\ flights' = With(f, g) /\ UNCHANGED <<rows, worker, client, claims, stops>>
    BY <1>6 DEF GiveUp
  <2>2. /\ g \in FlightShape /\ g.ending # "none" /\ Keeps(f, g) /\ GetsItsTurn(f, g)
    BY <1>0, <1>6, EndedFields, OtherMoves DEF GiveUp, GiveUpDue
  <2>3. g.renew = f.renew /\ g.fresh = f.fresh
    BY <1>0 DEF Ended, FlightShape
  <2> HIDE DEF g
  <2>4. Reckons(f, g) /\ RowOf(f, g)
    BY <2>1, <2>2, <2>3 DEF Reckons, RowOf, Alive
  <2> QED BY <2>1, <2>2, <2>4 DEF Delivers
<1>7. CASE RenewSend(f)
  <2> DEFINE g == [f EXCEPT !.renew = "sent", !.fresh = Lease]
  <2>1. /\ flights' = With(f, g) /\ UNCHANGED <<rows, worker, client, claims, stops>>
        /\ f.st \notin {"coming", "unrun"}
    BY <1>7 DEF RenewSend
  <2>2. Lease \in 0..Lease
    BY DEF Lease
  <2>3. /\ g \in FlightShape /\ g.renew = "sent" /\ g.fresh = Lease /\ g.held = f.held
        /\ g.id = f.id /\ g.token = f.token /\ g.w = f.w /\ g.attempt = f.attempt
        /\ g.st = f.st /\ g.lapsed = f.lapsed /\ g.dying = f.dying
        /\ g.ending = f.ending /\ g.back = f.back
    BY <1>0, <2>2 DEF FlightShape
  <2> HIDE DEF g
  <2>4. Keeps(f, g) /\ GetsItsTurn(f, g)
    BY <1>0, <2>1, <2>3, OtherMoves
  <2>5. Reckons(f, g) /\ RowOf(f, g)
    BY <2>1, <2>3 DEF Reckons, RowOf
  <2> QED BY <2>1, <2>4, <2>5 DEF Delivers
<1>8. CASE RenewExec(f)
  <2> DEFINE outcome == IF ~HeldBy(f) THEN "lost"
                        ELSE IF rows[f.id].cancel THEN "cancelled" ELSE "held"
             g == [f EXCEPT !.renew = outcome]
  <2>1. /\ flights' = With(f, g) /\ UNCHANGED <<worker, client, claims, stops>>
        /\ f.renew = "sent" /\ f.st \notin {"coming", "unrun"}
    BY <1>8, <1>p DEF RenewExec
  <2>2. outcome \in {"lost", "cancelled", "held"}
    OBVIOUS
  <2>3. /\ outcome = "lost" => rows' = rows
        /\ outcome = "held" => HeldBy(f) /\ rows' = [rows EXCEPT ![f.id].lease = Lease]
        /\ outcome = "cancelled" =>
             HeldBy(f) /\ rows' = [rows EXCEPT ![f.id] = Settle(rows[f.id], "cancelled")]
    <3>1. outcome = "lost" => rows' = rows
      BY <1>0, <1>8 DEF RenewExec
    <3>2. outcome = "held" => HeldBy(f) /\ rows' = [rows EXCEPT ![f.id].lease = Lease]
      BY <1>0, <1>8 DEF RenewExec
    <3>3. outcome = "cancelled" =>
             HeldBy(f) /\ rows' = [rows EXCEPT ![f.id] = Settle(rows[f.id], "cancelled")]
      BY <1>0, <1>8 DEF RenewExec
    <3> QED BY <3>1, <3>2, <3>3
  <2> HIDE DEF outcome
  <2>4. /\ g \in FlightShape /\ g.renew = outcome /\ g.fresh = f.fresh /\ g.held = f.held
        /\ g.id = f.id /\ g.token = f.token /\ g.w = f.w /\ g.attempt = f.attempt
        /\ g.st = f.st /\ g.lapsed = f.lapsed /\ g.dying = f.dying
        /\ g.ending = f.ending /\ g.back = f.back
    BY <1>0, <2>2 DEF FlightShape
  <2> HIDE DEF g
  <2>5. Keeps(f, g) /\ GetsItsTurn(f, g)
    BY <1>0, <2>1, <2>4, OtherMoves
  <2>6. Reckons(f, g)
    BY <2>1, <2>4 DEF Reckons
  <2>7. RowOf(f, g)
    <3>1. CASE outcome = "lost"
      BY <2>3, <2>4, <3>1 DEF RowOf
    <3>2. CASE outcome = "held"
      BY <2>3, <2>4, <3>2 DEF RowOf
    <3>3. CASE outcome = "cancelled"
      <4> DEFINE row == Settle(rows[f.id], "cancelled")
      <4>1. "cancelled" \in RowStates /\ "cancelled" \in Settled
        BY DEF RowStates, Settled
      <4>2. row \in RowShape /\ row.st = "cancelled" /\ row.token = 0
        BY <1>0, <4>1, SettleFacts
      <4>3. rows' = [rows EXCEPT ![f.id] = row] /\ HeldBy(f)
        BY <2>3, <3>3
      <4> HIDE DEF row
      <4>4. Gives(f, row)
        BY <4>1, <4>2 DEF Gives
      <4> QED BY <4>2, <4>3, <4>4 DEF RowOf
    <3> QED BY <2>2, <3>1, <3>2, <3>3
  <2> QED BY <2>1, <2>5, <2>6, <2>7 DEF Delivers
<1>9. CASE RenewAnswer(f)
  <2> DEFINE h == [f EXCEPT !.renew = "none", !.fresh = 0]
  <2>1. /\ UNCHANGED <<rows, worker, client, claims, stops>> /\ f.st \notin {"coming", "unrun"}
        /\ f.renew \in {"held", "lost", "cancelled"}
        /\ flights' = With(f, IF f.renew = "held" THEN [h EXCEPT !.held = f.fresh]
                              ELSE Ended(h, f.renew))
    BY <1>9, <1>p DEF RenewAnswer
  <2>2. 0 \in 0..Lease
    BY DEF Lease
  <2>3. /\ h \in FlightShape /\ h.renew = "none"
        /\ h.id = f.id /\ h.token = f.token /\ h.w = f.w /\ h.attempt = f.attempt
        /\ h.st = f.st /\ h.lapsed = f.lapsed /\ h.dying = f.dying
        /\ h.ending = f.ending /\ h.back = f.back
    BY <1>0, <2>2 DEF FlightShape
  <2> HIDE DEF h
  <2>4. CASE f.renew = "held"
    <3> DEFINE g == [h EXCEPT !.held = f.fresh]
    <3>1. flights' = With(f, g)
      BY <2>1, <2>4
    <3>2. f.fresh \in 0..Lease
      BY <1>0 DEF FlightShape
    <3>3. /\ g \in FlightShape /\ g.renew = "none" /\ g.held = f.fresh
          /\ g.id = f.id /\ g.token = f.token /\ g.w = f.w /\ g.attempt = f.attempt
          /\ g.st = f.st /\ g.lapsed = f.lapsed /\ g.dying = f.dying
          /\ g.ending = f.ending /\ g.back = f.back
      BY <2>3, <3>2 DEF FlightShape
    <3> HIDE DEF g
    <3>4. Keeps(f, g) /\ GetsItsTurn(f, g)
      BY <1>0, <2>1, <3>3, OtherMoves
    <3>5. Reckons(f, g) /\ RowOf(f, g)
      BY <2>1, <2>4, <3>3 DEF Reckons, RowOf
    <3> QED BY <2>1, <3>1, <3>4, <3>5 DEF Delivers
  <2>5. CASE f.renew # "held"
    <3> DEFINE g == Ended(h, f.renew)
    <3>1. flights' = With(f, g) /\ f.renew \in {"lost", "cancelled"}
      BY <2>1, <2>5
    <3>2. /\ g \in FlightShape /\ g.ending # "none" /\ g.renew = "none"
          /\ g.id = f.id /\ g.token = f.token /\ g.w = f.w /\ g.attempt = f.attempt
          /\ g.st = f.st /\ g.lapsed = f.lapsed /\ g.dying = f.dying /\ g.back = f.back
      BY <2>3, <3>1, EndedFields
    <3> HIDE DEF g
    <3>3. Keeps(f, g) /\ GetsItsTurn(f, g)
      BY <1>0, <2>1, <3>2, OtherMoves
    <3>4. Reckons(f, g) /\ RowOf(f, g)
      BY <2>1, <3>2 DEF Reckons, RowOf, Alive
    <3> QED BY <2>1, <3>1, <3>3, <3>4 DEF Delivers
  <2> QED BY <2>4, <2>5
<1>10. CASE RenewFails(f)
  <2> DEFINE g == [f EXCEPT !.renew = "none", !.fresh = 0]
  <2>1. /\ flights' = With(f, g) /\ UNCHANGED <<rows, worker, client, claims, stops>>
        /\ f.st \notin {"coming", "unrun"}
    BY <1>10, <1>p DEF RenewFails
  <2>2. 0 \in 0..Lease
    BY DEF Lease
  <2>3. /\ g \in FlightShape /\ g.renew = "none" /\ g.held = f.held
        /\ g.id = f.id /\ g.token = f.token /\ g.w = f.w /\ g.attempt = f.attempt
        /\ g.st = f.st /\ g.lapsed = f.lapsed /\ g.dying = f.dying
        /\ g.ending = f.ending /\ g.back = f.back
    BY <1>0, <2>2 DEF FlightShape
  <2> HIDE DEF g
  <2>4. Keeps(f, g) /\ GetsItsTurn(f, g)
    BY <1>0, <2>1, <2>3, OtherMoves
  <2>5. Reckons(f, g) /\ RowOf(f, g)
    BY <2>1, <2>3 DEF Reckons, RowOf
  <2> QED BY <2>1, <2>4, <2>5 DEF Delivers
<1>11. CASE HandBackExec(f) \/ HandBackFails(f)
  <2> DEFINE g == [f EXCEPT !.back = "done"]
  <2>1. /\ flights' = With(f, g) /\ UNCHANGED <<worker, client, claims, stops>>
        /\ f.back = "sent" /\ f.ending # "none" /\ f.st \notin {"coming", "unrun"}
    BY <1>11, <1>p DEF HandBackExec, HandBackFails
  <2>2. /\ g \in FlightShape /\ g.renew = f.renew /\ g.fresh = f.fresh /\ g.held = f.held
        /\ g.id = f.id /\ g.token = f.token /\ g.w = f.w /\ g.attempt = f.attempt
        /\ g.st = f.st /\ g.lapsed = f.lapsed /\ g.dying = f.dying
        /\ g.ending = f.ending
    BY <1>0 DEF FlightShape
  <2> HIDE DEF g
  <2>3. Keeps(f, g) /\ GetsItsTurn(f, g) /\ Reckons(f, g)
    BY <1>0, <2>1, <2>2, OtherMoves DEF Reckons, Alive
  <2>4. RowOf(f, g)
    <3>1. CASE rows' = rows
      BY <2>2, <3>1 DEF RowOf
    <3>2. CASE HeldBy(f) /\ HandBackExec(f)
      <4> DEFINE old == rows[f.id]
                 row == Release(old, TRUE, FALSE, "pending")
      <4>1. "pending" \in RowStates /\ {"pending", "cancelled"} \subseteq Settled \cup {"pending"}
        BY DEF RowStates, Settled
      <4>2. old \in RowShape /\ old.attempts > 0 /\ old.cancel \in BOOLEAN
        BY <1>0, <3>2 DEF BaseInv, Shape, HeldBy, RowShape
      <4>3. /\ row \in RowShape /\ row.token = 0
            /\ row.st = (IF old.cancel THEN "cancelled" ELSE "pending")
        <5> HIDE DEF old
        <5>1. \A b, d \in BOOLEAN :
                /\ Release(old, b, d, "pending") \in RowShape
                /\ Release(old, b, d, "pending").token = 0
                /\ Release(old, b, d, "pending").st =
                     (IF old.cancel THEN "cancelled" ELSE "pending")
          BY <4>1, <4>2, ReleaseFacts
        <5> QED BY <5>1
      <4>4. rows' = [rows EXCEPT ![f.id] = row]
        BY <3>2 DEF HandBackExec
      <4>5. Gives(f, row)
        BY <2>1, <4>1, <4>2, <4>3 DEF Gives
      <4> HIDE DEF row
      <4> QED BY <2>1, <2>2, <3>2, <4>4, <4>5 DEF RowOf, Alive
    <3>3. ~HeldBy(f) \/ HandBackFails(f) => rows' = rows
      BY <1>0, <1>11 DEF HandBackExec, HandBackFails
    <3> QED BY <1>11, <3>1, <3>2, <3>3
  <2> QED BY <2>1, <2>3, <2>4 DEF Delivers
<1> QED BY <1>1, <1>2, <1>3, <1>4, <1>5, <1>6, <1>7, <1>8, <1>9, <1>10, <1>11
        DEF FlightStep, Renewal

\* What becomes of a row without the delivery that holds it.
RowStep(i, row) ==
  /\ row \in RowShape /\ row.token \in {0, rows[i].token}
  /\ \/ /\ rows[i].st \in {"scheduled", "pending", "dead"} \/ Lapsed(rows[i])
        /\ row.st = "cancelled"
     \/ rows[i].st = "none" /\ row.st \in {"pending", "scheduled"} /\ row.attempts = 0
     \/ /\ rows[i].st = "scheduled" /\ row.st = "pending"
        /\ row.attempts = rows[i].attempts /\ row.dying = rows[i].dying
     \/ "expire" \in Ops /\ rows[i].st \in {"completed", "cancelled"} /\ row.st = "none"
     \/ rows[i].st = "dead" /\ row.st = "pending" /\ row.attempts = 0
     \/ /\ rows[i].st = "running" /\ row.st = "running" /\ row.cancel = TRUE
        /\ row.token = rows[i].token /\ row.lease = rows[i].lease
        /\ row.attempts = rows[i].attempts /\ row.dying = rows[i].dying

RowsMove ==
  /\ UNCHANGED <<flights, worker, claims, stops>>
  /\ client' \in [pc: {"request", "read"}, id: Ids, found: RowStates] \cup {NoCancel}
  /\ \/ rows' = rows
     \/ \E i \in Ids, row \in RowShape : RowStep(i, row) /\ rows' = [rows EXCEPT ![i] = row]

\* Producers, clients and retention (enqueue-request.ts, sql-queue-store.ts cancel, requeue).
LEMMA RowSteps ==
  ASSUME Shape,
         \/ CancelRequest \/ CancelRead
         \/ \E i \in Ids : Enqueue(i) \/ Visible(i) \/ Expire(i) \/ CancelSettle(i) \/ Requeue(i)
  PROVE  RowsMove
<1> DEFINE Clients == [pc: {"request", "read"}, id: Ids, found: RowStates] \cup {NoCancel}
<1>0. /\ rows \in [Ids -> RowShape] /\ client \in Clients
      /\ 0 \in 0..Lease
      /\ {"none", "pending", "scheduled", "running", "cancelled"} \subseteq RowStates
  BY DEF Shape, RowStates, Settled, Lease
<1>a. NoRow \in RowShape /\ NoRow.st = "none" /\ NoRow.token = 0 /\ NoRow.attempts = 0
  BY <1>0 DEF NoRow, RowShape, NoToken
<1>b. \A i \in Ids : /\ rows[i] \in RowShape /\ rows[i].st \in RowStates /\ rows[i].token \in Nat
                      /\ rows[i].dying \in BOOLEAN /\ rows[i].attempts \in Nat
  BY <1>0 DEF RowShape
<1>1. ASSUME NEW i \in Ids, Enqueue(i) PROVE RowsMove
  <2>1. PICK t \in {"pending", "scheduled"} : rows' = [rows EXCEPT ![i] = [NoRow EXCEPT !.st = t]]
    BY <1>1 DEF Enqueue
  <2> DEFINE row == [NoRow EXCEPT !.st = t]
  <2>2. row \in RowShape /\ row.st = t /\ row.token = 0 /\ row.attempts = 0
    BY <1>0, <1>a DEF RowShape
  <2>3. rows' = [rows EXCEPT ![i] = row]
    BY <2>1
  <2> HIDE DEF row
  <2>4. RowStep(i, row)
    BY <1>1, <2>2 DEF RowStep, Enqueue
  <2> QED BY <1>0, <1>1, <2>2, <2>3, <2>4 DEF RowsMove, Enqueue
<1>2. ASSUME NEW i \in Ids, Visible(i) PROVE RowsMove
  <2> DEFINE row == [rows[i] EXCEPT !.st = "pending"]
  <2>1. rows' = [rows EXCEPT ![i] = row] /\ rows[i].st = "scheduled"
    BY <1>2 DEF Visible
  <2>2. /\ row \in RowShape /\ row.st = "pending" /\ row.token = rows[i].token
        /\ row.attempts = rows[i].attempts /\ row.dying = rows[i].dying
    BY <1>0, <1>b DEF RowShape
  <2> HIDE DEF row
  <2>3. RowStep(i, row)
    BY <2>1, <2>2 DEF RowStep
  <2> QED BY <1>0, <1>2, <2>1, <2>2, <2>3 DEF RowsMove, Visible
<1>3. ASSUME NEW i \in Ids, Expire(i) PROVE RowsMove
  <2>1. RowStep(i, NoRow)
    BY <1>3, <1>a DEF Expire, RowStep
  <2> QED BY <1>0, <1>a, <1>3, <2>1 DEF RowsMove, Expire
<1>4. ASSUME NEW i \in Ids, CancelSettle(i) PROVE RowsMove
  <2>1. CASE rows[i].st \in {"scheduled", "pending", "dead"} \/ Lapsed(rows[i])
    <3> DEFINE row == Settle(rows[i], "cancelled")
    <3>1. rows' = [rows EXCEPT ![i] = row] /\ client' = NoCancel
      BY <1>4, <2>1 DEF CancelSettle
    <3>2. row \in RowShape /\ row.st = "cancelled" /\ row.token = 0
      BY <1>0, <1>b, SettleFacts
    <3> HIDE DEF row
    <3>3. RowStep(i, row)
      BY <2>1, <3>2 DEF RowStep
    <3> QED BY <1>4, <3>1, <3>2, <3>3 DEF RowsMove, CancelSettle
  <2>2. CASE ~(rows[i].st \in {"scheduled", "pending", "dead"} \/ Lapsed(rows[i]))
    <3>1. rows' = rows /\ client' = [pc |-> "request", id |-> i, found |-> rows[i].st]
      BY <1>4, <2>2 DEF CancelSettle
    <3>2. client' \in Clients
      BY <1>b, <3>1
    <3> QED BY <1>4, <3>1, <3>2 DEF RowsMove, CancelSettle
  <2> QED BY <2>1, <2>2
<1>5. ASSUME NEW i \in Ids, Requeue(i) PROVE RowsMove
  <2> DEFINE row == [rows[i] EXCEPT !.st = "pending", !.attempts = 0, !.dying = FALSE]
  <2>1. rows' = [rows EXCEPT ![i] = row] /\ rows[i].st = "dead"
    BY <1>5 DEF Requeue
  <2>2. row \in RowShape /\ row.st = "pending" /\ row.token = rows[i].token /\ row.attempts = 0
    BY <1>0, <1>b DEF RowShape
  <2> HIDE DEF row
  <2>3. RowStep(i, row)
    BY <2>1, <2>2 DEF RowStep
  <2> QED BY <1>0, <1>5, <2>1, <2>2, <2>3 DEF RowsMove, Requeue
<1>6. CASE CancelRequest
  <2>1. client \in [pc: {"request", "read"}, id: Ids, found: RowStates]
    BY <1>0, <1>6 DEF CancelRequest, NoCancel
  <2>2. client.id \in Ids
    BY <2>1
  <2>3. CASE rows[client.id].st = "running"
    <3> DEFINE i == client.id
               row == [rows[i] EXCEPT !.cancel = TRUE]
    <3>1. rows' = [rows EXCEPT ![i] = row] /\ client' = NoCancel
      BY <1>6, <2>3 DEF CancelRequest
    <3>2. /\ row \in RowShape /\ row.st = rows[i].st /\ row.cancel = TRUE
          /\ row.token = rows[i].token /\ row.lease = rows[i].lease
          /\ row.attempts = rows[i].attempts /\ row.dying = rows[i].dying
      BY <1>b, <2>2 DEF RowShape
    <3> HIDE DEF row
    <3>3. RowStep(i, row)
      BY <2>3, <3>2 DEF RowStep
    <3> QED BY <1>6, <2>2, <3>1, <3>2, <3>3 DEF RowsMove, CancelRequest
  <2>4. CASE rows[client.id].st # "running"
    <3>1. rows' = rows /\ client' = [client EXCEPT !.pc = "read"]
      BY <1>6, <2>4 DEF CancelRequest
    <3>2. client' \in Clients
      BY <2>1, <3>1
    <3> QED BY <1>6, <3>1, <3>2 DEF RowsMove, CancelRequest
  <2> QED BY <2>3, <2>4
<1>7. CASE CancelRead
  BY <1>7 DEF CancelRead, RowsMove
<1> QED BY <1>1, <1>2, <1>3, <1>4, <1>5, <1>6, <1>7

\* An image is no larger than what it is of.
LEMMA ImageBound ==
  ASSUME NEW S, IsFiniteSet(S), NEW h, h = [x \in S |-> h[x]],
         NEW T, \A t \in T : \E x \in S : t = h[x]
  PROVE  IsFiniteSet(T) /\ Cardinality(T) <= Cardinality(S)
<1> DEFINE U == {h[x] : x \in S}
<1>1. h \in Surjection(S, U)
  BY DEF Surjection
<1>2. IsFiniteSet(U) /\ Cardinality(U) <= Cardinality(S)
  BY <1>1, FS_Surjection
<1>3. T \in SUBSET U
  OBVIOUS
<1>4. IsFiniteSet(T) /\ Cardinality(T) <= Cardinality(U)
  BY <1>2, <1>3, FS_Subset
<1> QED BY <1>2, <1>4, FS_CardinalityType

LEMMA WithIsFinite ==
  ASSUME IsFiniteSet(flights), NEW f, NEW g
  PROVE  IsFiniteSet(With(f, g))
<1>1. IsFiniteSet((flights \ {f}) \cup {Forget(g)})
  BY FS_RemoveElement, FS_AddElement
<1>2. With(f, g) \in SUBSET ((flights \ {f}) \cup {Forget(g)})
  BY WithMembers
<1> QED BY <1>1, <1>2, FS_Subset

LEMMA DeliverBase ==
  ASSUME BaseInv, NEW f \in flights, NEW g, Delivers(f, g)
  PROVE  BaseInv'
<1>0. /\ Shape /\ TokensAreOwn /\ Phases /\ f \in FlightShape /\ f.id \in Ids
      /\ rows \in [Ids -> RowShape] /\ claims \in Nat
  BY DEF BaseInv, Shape, FlightShape
<1>1. /\ flights' = With(f, g) /\ UNCHANGED <<worker, client, claims, stops>>
      /\ Keeps(f, g) /\ RowOf(f, g)
  BY DEF Delivers
<1>2. /\ g \in FlightShape /\ g.id = f.id /\ g.token = f.token /\ g.w = f.w
      /\ g.st \notin {"coming", "unrun"} /\ (f.st = "done" => g.st = "done")
      /\ (f.ending # "none" => g.ending # "none") /\ (g.back # "no" => f.back # "no")
  BY <1>1 DEF Keeps
<1> DEFINE k == Forget(g)
<1>3. /\ k \in FlightShape /\ k.id = f.id /\ k.token = f.token /\ k.w = f.w
      /\ k.st \notin {"coming", "unrun"} /\ (f.st = "done" => k.st = "done")
      /\ (f.ending # "none" => k.ending # "none") /\ (k.back # "no" => f.back # "no")
  BY <1>2, ForgetFields
<1>4. \A x \in flights' : (x \in flights /\ x # f) \/ x = k
  BY <1>1, WithMembers
<1> HIDE DEF k
<1>5. /\ rows' \in [Ids -> RowShape]
      /\ \A i \in Ids : rows'[i].st = "running" => rows'[i].attempts > 0
      /\ \A i \in Ids : rows'[i].token <= claims
  <2>0. /\ \A i \in Ids : rows[i].st = "running" => rows[i].attempts > 0
        /\ \A i \in Ids : rows[i].token <= claims
    BY <1>0 DEF Shape, TokensAreOwn
  <2>1. CASE rows' = rows
    BY <1>0, <2>0, <2>1
  <2>2. CASE rows' = [rows EXCEPT ![f.id].lease = Lease]
    <3> DEFINE row == [rows[f.id] EXCEPT !.lease = Lease]
    <3>1. Lease \in 0..Lease
      BY DEF Lease
    <3>2. /\ row \in RowShape /\ row.st = rows[f.id].st /\ row.attempts = rows[f.id].attempts
          /\ row.token = rows[f.id].token
      BY <1>0, <3>1 DEF RowShape
    <3>3. rows' = [rows EXCEPT ![f.id] = row]
      BY <2>2
    <3> HIDE DEF row
    <3> QED BY <1>0, <2>0, <3>2, <3>3
  <2>3. CASE \E row : Gives(f, row) /\ rows' = [rows EXCEPT ![f.id] = row]
    <3>1. PICK row : Gives(f, row) /\ rows' = [rows EXCEPT ![f.id] = row]
      BY <2>3
    <3>2. row \in RowShape /\ row.st # "running" /\ row.token = 0
      BY <3>1 DEF Gives, Settled
    <3> QED BY <1>0, <2>0, <3>1, <3>2
  <2> QED BY <1>1, <2>1, <2>2, <2>3 DEF RowOf
<1>6. Shape'
  BY <1>0, <1>1, <1>3, <1>4, <1>5, WithIsFinite DEF Shape
<1>7. TokensAreOwn'
  BY <1>0, <1>1, <1>3, <1>4, <1>5 DEF TokensAreOwn
<1>8. Phases'
  BY <1>0, <1>1, <1>3, <1>4 DEF Phases
<1> QED BY <1>6, <1>7, <1>8 DEF BaseInv

LEMMA RowsBase ==
  ASSUME BaseInv, RowsMove
  PROVE  BaseInv'
<1>0. /\ Shape /\ TokensAreOwn /\ Phases /\ rows \in [Ids -> RowShape] /\ claims \in Nat
      /\ \A i \in Ids : rows[i].st = "running" => rows[i].attempts > 0
      /\ \A i \in Ids : rows[i].token <= claims
  BY DEF BaseInv, Shape, TokensAreOwn
<1>1. /\ rows' \in [Ids -> RowShape]
      /\ \A i \in Ids : rows'[i].st = "running" => rows'[i].attempts > 0
      /\ \A i \in Ids : rows'[i].token <= claims
  <2>1. CASE rows' = rows
    BY <1>0, <2>1
  <2>2. CASE \E i \in Ids, row \in RowShape : RowStep(i, row) /\ rows' = [rows EXCEPT ![i] = row]
    <3>1. PICK i \in Ids, row \in RowShape : RowStep(i, row) /\ rows' = [rows EXCEPT ![i] = row]
      BY <2>2
    <3>2. /\ row.token \in {0, rows[i].token}
          /\ row.st = "running" => rows[i].st = "running" /\ row.attempts = rows[i].attempts
      BY <3>1 DEF RowStep
    <3> QED BY <1>0, <3>1, <3>2
  <2> QED BY <2>1, <2>2 DEF RowsMove
<1>2. UNCHANGED <<flights, worker, claims, stops>>
  BY DEF RowsMove
<1>3. Shape'
  BY <1>0, <1>1, <1>2 DEF Shape, RowsMove
<1>4. TokensAreOwn' /\ Phases'
  BY <1>0, <1>1, <1>2 DEF TokensAreOwn, Phases
<1> QED BY <1>3, <1>4 DEF BaseInv

-----------------------------------------------------------------------------
(* The clock, the loops and the shutdown. *)

Older(f) == [f EXCEPT !.held = Less(@), !.fresh = Less(@)]

LEMMA OlderFields ==
  ASSUME NEW f \in FlightShape
  PROVE  /\ Older(f) \in FlightShape
         /\ Older(f).id = f.id /\ Older(f).token = f.token /\ Older(f).w = f.w
         /\ Older(f).st = f.st /\ Older(f).attempt = f.attempt /\ Older(f).renew = f.renew
         /\ Older(f).ending = f.ending /\ Older(f).back = f.back
         /\ Older(f).lapsed = f.lapsed /\ Older(f).dying = f.dying
         /\ Older(f).held = Less(f.held) /\ Older(f).fresh = Less(f.fresh)
<1>1. \A n \in 0..Lease : Less(n) \in 0..Lease
  BY DEF Less, Lease
<1>2. Older(f) = [f EXCEPT !.held = Less(f.held), !.fresh = Less(f.fresh)]
  BY DEF Older, FlightShape
<1>3. Less(f.held) \in 0..Lease /\ Less(f.fresh) \in 0..Lease
  BY <1>1 DEF FlightShape
<1> QED BY <1>2, <1>3 DEF FlightShape

LEMMA TickRows ==
  ASSUME rows \in [Ids -> RowShape], Tick
  PROVE  /\ rows' \in [Ids -> RowShape]
         /\ \A i \in Ids : /\ rows'[i].st = rows[i].st /\ rows'[i].token = rows[i].token
                           /\ rows'[i].attempts = rows[i].attempts
                           /\ rows'[i].dying = rows[i].dying /\ rows'[i].cancel = rows[i].cancel
                           /\ rows'[i].lease = Less(rows[i].lease)
<1>1. ASSUME NEW row \in RowShape
      PROVE  LET new == [row EXCEPT !.lease = Less(@)]
             IN  /\ new \in RowShape /\ new.st = row.st /\ new.token = row.token
                 /\ new.attempts = row.attempts /\ new.dying = row.dying
                 /\ new.cancel = row.cancel /\ new.lease = Less(row.lease)
  <2> DEFINE new == [row EXCEPT !.lease = Less(@)]
  <2>1. Less(row.lease) \in 0..Lease
    BY DEF Less, Lease, RowShape
  <2>2. new = [row EXCEPT !.lease = Less(row.lease)]
    BY DEF RowShape
  <2>3. /\ new \in RowShape /\ new.st = row.st /\ new.token = row.token
        /\ new.attempts = row.attempts /\ new.dying = row.dying
        /\ new.cancel = row.cancel /\ new.lease = Less(row.lease)
    BY <2>1, <2>2 DEF RowShape
  <2> QED BY <2>3
<1>2. rows' = [i \in Ids |-> [rows[i] EXCEPT !.lease = Less(@)]]
  BY DEF Tick
<1> QED BY <1>1, <1>2

LEMMA TickWorkers ==
  ASSUME worker \in [Workers -> WorkerShape], Tick
  PROVE  /\ worker' \in [Workers -> WorkerShape]
         /\ \A w \in Workers :
              /\ worker'[w].phase = worker[w].phase /\ worker'[w].pc = worker[w].pc
              /\ worker'[w].room = worker[w].room
              /\ worker[w].pc = "free" => worker'[w].age = worker[w].age
              /\ worker[w].pc # "free" =>
                   worker'[w].age = worker[w].age + 1 /\ worker[w].age < MaxClaimWait
<1>1. \A w \in Workers :
        worker'[w] = IF worker[w].pc = "free" THEN worker[w]
                     ELSE [worker[w] EXCEPT !.age = worker[w].age + 1]
  BY DEF Tick, WorkerShape
<1>2. \A w \in Workers : worker[w].pc # "free" => worker[w].age < MaxClaimWait
  BY DEF Tick
<1>3. ASSUME NEW w \in Workers
      PROVE  LET new == [worker[w] EXCEPT !.age = worker[w].age + 1]
             IN  /\ new \in WorkerShape /\ new.phase = worker[w].phase /\ new.pc = worker[w].pc
                 /\ new.room = worker[w].room /\ new.age = worker[w].age + 1
  BY DEF WorkerShape
<1>4. \A w \in Workers : worker'[w] \in WorkerShape
  BY <1>1, <1>3
<1>5. worker' \in [Workers -> WorkerShape]
  BY <1>4 DEF Tick
<1> QED BY <1>1, <1>2, <1>3, <1>5

LEMMA TickBase ==
  ASSUME BaseInv, Tick
  PROVE  BaseInv'
<1>0. /\ Shape /\ TokensAreOwn /\ Phases /\ rows \in [Ids -> RowShape]
      /\ worker \in [Workers -> WorkerShape] /\ flights \subseteq FlightShape
      /\ IsFiniteSet(flights)
  BY DEF BaseInv, Shape
<1>1. flights' = {Older(f) : f \in flights} /\ UNCHANGED <<client, claims, stops>>
  BY DEF Tick, Older
<1>2. \A x \in flights' : \E f \in flights : x = Older(f)
  BY <1>1
<1>3. flights' \subseteq FlightShape
  BY <1>0, <1>2, OlderFields
<1>4. IsFiniteSet(flights')
  <2> DEFINE h == [f \in flights |-> Older(f)]
  <2>1. h = [f \in flights |-> h[f]] /\ \A x \in flights' : \E f \in flights : x = h[f]
    BY <1>2
  <2> HIDE DEF h
  <2> QED BY <1>0, <2>1, ImageBound
<1>5. Shape'
  BY <1>0, <1>1, <1>3, <1>4, TickRows, TickWorkers DEF Shape
<1>6. TokensAreOwn'
  <2>1. \A i \in Ids : rows'[i].token = rows[i].token
    BY <1>0, TickRows
  <2>2. \A f \in flights : Older(f).id = f.id /\ Older(f).token = f.token
    BY <1>0, OlderFields
  <2> QED BY <1>0, <1>1, <1>2, <2>1, <2>2 DEF TokensAreOwn
<1>7. Phases'
  <2>1. \A w \in Workers : worker'[w].phase = worker[w].phase /\ worker'[w].pc = worker[w].pc
    BY <1>0, TickWorkers
  <2>2. \A f \in flights : /\ Older(f).w = f.w /\ Older(f).st = f.st /\ Older(f).renew = f.renew
                           /\ Older(f).ending = f.ending /\ Older(f).back = f.back
                           /\ f.w \in Workers
    BY <1>0, OlderFields DEF FlightShape
  <2> QED BY <1>0, <1>2, <2>1, <2>2 DEF Phases
<1> QED BY <1>5, <1>6, <1>7 DEF BaseInv

LEMMA RunningFields ==
  ASSUME NEW row \in RowShape, NEW token \in Nat
  PROVE  /\ MarkRunning(row, token) \in RowShape /\ MarkRunning(row, token).st = "running"
         /\ MarkRunning(row, token).token = token /\ MarkRunning(row, token).lease = Lease
         /\ MarkRunning(row, token).attempts = row.attempts + 1
         /\ MarkRunning(row, token).dying = row.dying /\ MarkRunning(row, token).cancel = row.cancel
<1>1. Lease \in 0..Lease /\ "running" \in RowStates /\ row.attempts + 1 \in Nat
  BY DEF Lease, RowStates, RowShape
<1>2. MarkRunning(row, token) = [row EXCEPT !.st = "running", !.token = token, !.lease = Lease,
                                            !.attempts = row.attempts + 1]
  BY DEF MarkRunning, RowShape
<1> QED BY <1>1, <1>2 DEF RowShape

LEMMA ClaimedFields ==
  ASSUME NEW i \in Ids, NEW w \in Workers, NEW token \in Nat, NEW age \in Nat,
         rows[i] \in RowShape
  PROVE  LET x == ClaimedOf(i, w, token, age)
         IN  /\ x \in FlightShape /\ x.id = i /\ x.token = token /\ x.w = w /\ x.st = "coming"
             /\ x.attempt = rows[i].attempts + 1 /\ x.lapsed = (rows[i].st = "running")
             /\ x.dying = rows[i].dying /\ x.renew = "none" /\ x.ending = "none" /\ x.back = "no"
             /\ x.held = (IF age > Lease THEN 0 ELSE Lease - age)
<1> DEFINE h == IF age > Lease THEN 0 ELSE Lease - age
           l == rows[i].st = "running"
<1>1. h \in 0..Lease /\ l \in BOOLEAN /\ rows[i].attempts + 1 \in Nat /\ 0 \in 0..Lease
      /\ rows[i].dying \in BOOLEAN
  BY DEF Lease, RowShape
<1>2. ClaimedOf(i, w, token, age) =
        [id |-> i, token |-> token, w |-> w, st |-> "coming", attempt |-> rows[i].attempts + 1,
         lapsed |-> l, dying |-> rows[i].dying, held |-> h, fresh |-> 0,
         renew |-> "none", ending |-> "none", back |-> "no"]
  BY DEF ClaimedOf
<1> HIDE DEF h, l
<1>3. ClaimedOf(i, w, token, age) \in FlightShape
  BY <1>1, <1>2 DEF FlightShape, FlightStates
<1> QED BY <1>2, <1>3 DEF h, l

LEMMA CandidateFacts ==
  ASSUME rows \in [Ids -> RowShape], NEW limit \in Nat, NEW S \in Candidates(limit)
  PROVE  /\ S \subseteq Ids /\ IsFiniteSet(S) /\ Cardinality(S) <= limit
         /\ \A i \in S : \/ rows[i].st = "pending"
                         \/ Lapsed(rows[i]) /\ rows[i].cancel = FALSE
<1> DEFINE all == LapsedCandidates \cup VisibleCandidates
<1>1. all \subseteq Ids
  BY DEF LapsedCandidates, VisibleCandidates
<1>2. S \subseteq all /\ Cardinality(S) = Min({limit, Cardinality(all)})
  BY DEF Candidates
<1>3. IsFiniteSet(all) /\ IsFiniteSet(S)
  BY <1>1, <1>2, QueueConstants, FS_Subset
<1>4. Cardinality(all) \in Nat
  BY <1>3, FS_CardinalityType
<1> HIDE DEF all
<1>5. Min({limit, Cardinality(all)}) <= limit
  <2> DEFINE c == Cardinality(all)
  <2>1. c \in Nat
    BY <1>4
  <2> HIDE DEF c
  <2>2. \E x \in {limit, c} : \A y \in {limit, c} : x <= y
    BY <2>1
  <2>3. Min({limit, c}) \in {limit, c} /\ \A y \in {limit, c} : Min({limit, c}) <= y
    BY <2>2 DEF Min
  <2> QED BY <2>3 DEF c
<1>6. \A i \in S : rows[i].st = "pending" \/ (Lapsed(rows[i]) /\ rows[i].cancel = FALSE)
  <2>1. \A i \in Ids : rows[i].cancel \in BOOLEAN
    BY DEF RowShape
  <2> QED BY <1>2, <2>1 DEF all, LapsedCandidates, VisibleCandidates
<1> QED BY <1>1, <1>2, <1>3, <1>5, <1>6

\* A claim that takes S, whose rows and deliveries get the token claims + 1.
Takes(w, S) ==
  /\ worker[w].pc = "asked" /\ UNCHANGED <<client, stops>>
  /\ S \subseteq Ids /\ IsFiniteSet(S) /\ Cardinality(S) <= worker[w].room
  /\ \A i \in S : rows[i].st = "pending" \/ (Lapsed(rows[i]) /\ rows[i].cancel = FALSE)
  /\ claims' = IF S = {} THEN claims ELSE claims + 1
  /\ rows' \in [Ids -> RowShape]
  /\ \A i \in S : /\ rows'[i].st = "running" /\ rows'[i].token = claims + 1
                  /\ rows'[i].lease = Lease /\ rows'[i].attempts = rows[i].attempts + 1
                  /\ rows'[i].dying = rows[i].dying
  /\ \A i \in Ids \ S : \/ rows'[i] = rows[i]
                        \/ /\ Lapsed(rows[i]) /\ rows[i].cancel = TRUE
                           /\ rows'[i].st = "cancelled" /\ rows'[i].token = 0
  /\ flights' = flights \cup {ClaimedOf(i, w, claims + 1, worker[w].age) : i \in S}
  /\ worker' \in [Workers -> WorkerShape]
  /\ worker'[w].phase = worker[w].phase /\ worker'[w].room = 0
  /\ worker'[w].pc = IF S = {} THEN "free" ELSE "answered"
  /\ worker'[w].age = IF S = {} THEN 0 ELSE worker[w].age
  /\ \A v \in Workers : v # w => worker'[v] = worker[v]

LEMMA ClaimTakes ==
  ASSUME Shape, NEW w \in Workers, ClaimOnce(w)
  PROVE  \E S : Takes(w, S)
<1>0. rows \in [Ids -> RowShape] /\ worker \in [Workers -> WorkerShape] /\ claims \in Nat
      /\ worker[w].room \in Nat /\ worker[w].age \in Nat
  BY DEF Shape, WorkerShape
<1>1. PICK S \in Candidates(worker[w].room) :
        /\ claims' = IF S = {} THEN claims ELSE claims + 1
        /\ rows' = [i \in Ids |-> IF i \in S THEN MarkRunning(rows[i], claims + 1)
                                  ELSE SettleLapsedCancels(rows[i])]
        /\ flights' = flights \cup {ClaimedOf(i, w, claims + 1, worker[w].age) : i \in S}
        /\ worker' = [worker EXCEPT ![w].pc = IF S = {} THEN "free" ELSE "answered",
                                    ![w].age = IF S = {} THEN 0 ELSE @, ![w].room = 0]
  BY DEF ClaimOnce
<1>2. /\ S \subseteq Ids /\ IsFiniteSet(S) /\ Cardinality(S) <= worker[w].room
      /\ \A i \in S : rows[i].st = "pending" \/ (Lapsed(rows[i]) /\ rows[i].cancel = FALSE)
  BY <1>0, CandidateFacts
<1>3. ASSUME NEW row \in RowShape
      PROVE  /\ SettleLapsedCancels(row) \in RowShape
             /\ \/ SettleLapsedCancels(row) = row
                \/ /\ Lapsed(row) /\ row.cancel = TRUE
                   /\ SettleLapsedCancels(row).st = "cancelled" /\ SettleLapsedCancels(row).token = 0
  <2>1. "cancelled" \in RowStates /\ row.cancel \in BOOLEAN
    BY DEF RowStates, Settled, RowShape
  <2> QED BY <2>1, SettleFacts DEF SettleLapsedCancels
<1>r. ASSUME NEW row \in RowShape
      PROVE  /\ MarkRunning(row, claims + 1) \in RowShape
             /\ MarkRunning(row, claims + 1).st = "running"
             /\ MarkRunning(row, claims + 1).token = claims + 1
             /\ MarkRunning(row, claims + 1).lease = Lease
             /\ MarkRunning(row, claims + 1).attempts = row.attempts + 1
             /\ MarkRunning(row, claims + 1).dying = row.dying
  <2>1. claims + 1 \in Nat
    BY <1>0
  <2> QED BY <2>1, RunningFields
<1>4. rows' \in [Ids -> RowShape]
  BY <1>0, <1>1, <1>3, <1>r
<1>5. \A i \in S : /\ rows'[i].st = "running" /\ rows'[i].token = claims + 1
                   /\ rows'[i].lease = Lease /\ rows'[i].attempts = rows[i].attempts + 1
                   /\ rows'[i].dying = rows[i].dying
  BY <1>0, <1>1, <1>2, <1>r
<1>6. \A i \in Ids \ S : \/ rows'[i] = rows[i]
                         \/ /\ Lapsed(rows[i]) /\ rows[i].cancel = TRUE
                            /\ rows'[i].st = "cancelled" /\ rows'[i].token = 0
  BY <1>0, <1>1, <1>3
<1>7. /\ worker' \in [Workers -> WorkerShape]
      /\ worker'[w].phase = worker[w].phase /\ worker'[w].room = 0
      /\ worker'[w].pc = (IF S = {} THEN "free" ELSE "answered")
      /\ worker'[w].age = (IF S = {} THEN 0 ELSE worker[w].age)
      /\ \A v \in Workers : v # w => worker'[v] = worker[v]
  <2> DEFINE p == IF S = {} THEN "free" ELSE "answered"
             a == IF S = {} THEN 0 ELSE worker[w].age
             new == [worker[w] EXCEPT !.pc = p, !.age = a, !.room = 0]
  <2>1. p \in {"free", "answered"} /\ a \in Nat
    BY <1>0
  <2>2. worker' = [worker EXCEPT ![w] = new]
    BY <1>0, <1>1 DEF WorkerShape
  <2> HIDE DEF p, a
  <2>3. new \in WorkerShape /\ new.phase = worker[w].phase /\ new.room = 0 /\ new.pc = p
        /\ new.age = a
    BY <1>0, <2>1 DEF WorkerShape
  <2> HIDE DEF new
  <2> QED BY <1>0, <2>2, <2>3 DEF p, a
<1> QED BY <1>1, <1>2, <1>4, <1>5, <1>6, <1>7 DEF Takes, ClaimOnce

LEMMA ClaimBase ==
  ASSUME BaseInv, NEW w \in Workers, NEW S, Takes(w, S)
  PROVE  BaseInv'
<1> DEFINE token == claims + 1
           age == worker[w].age
           new == {ClaimedOf(i, w, token, age) : i \in S}
<1>0. /\ Shape /\ TokensAreOwn /\ Phases /\ rows \in [Ids -> RowShape] /\ claims \in Nat
      /\ worker \in [Workers -> WorkerShape] /\ flights \subseteq FlightShape
      /\ IsFiniteSet(flights) /\ age \in Nat /\ token \in Nat
  BY DEF BaseInv, Shape, WorkerShape
<1>1. S \subseteq Ids /\ flights' = flights \cup new
  BY DEF Takes
<1>2. \A x \in new : \E i \in S : x = ClaimedOf(i, w, token, age)
  OBVIOUS
<1> HIDE DEF new
<1>3. ASSUME NEW i \in S
      PROVE  LET x == ClaimedOf(i, w, token, age)
             IN  /\ x \in FlightShape /\ x.id = i /\ x.token = token /\ x.w = w /\ x.st = "coming"
                 /\ x.renew = "none" /\ x.ending = "none" /\ x.back = "no"
  <2>1. i \in Ids /\ rows[i] \in RowShape
    BY <1>0, <1>1
  <2> HIDE DEF token, age
  <2> QED BY <1>0, <2>1, ClaimedFields
<1>4. \A x \in new : /\ x \in FlightShape /\ x.token = token /\ x.w = w /\ x.st = "coming"
                     /\ x.renew = "none" /\ x.ending = "none" /\ x.back = "no"
  BY <1>2, <1>3
<1>5. \A x, y \in new : x.id = y.id => x = y
  BY <1>2, <1>3
<1>6. IsFiniteSet(new)
  <2> DEFINE h == [i \in S |-> ClaimedOf(i, w, token, age)]
  <2>1. h = [i \in S |-> h[i]] /\ \A x \in new : \E i \in S : x = h[i]
    BY <1>2
  <2>2. IsFiniteSet(S)
    BY DEF Takes
  <2> HIDE DEF h
  <2> QED BY <2>1, <2>2, ImageBound
<1>7. /\ \A i \in Ids : rows'[i].st = "running" => rows'[i].attempts > 0
      /\ \A i \in Ids : rows'[i].token <= claims'
      /\ claims' \in Nat /\ claims <= claims' /\ (new # {} => claims' = token)
  <2>1. S # {} => claims' = token
    BY DEF Takes
  <2>2. S = {} => claims' = claims
    BY DEF Takes
  <2>3. new # {} => S # {}
    BY <1>2
  <2>4. claims' \in Nat /\ claims <= claims'
    BY <1>0, <2>1, <2>2
  <2>5. ASSUME NEW i \in S
        PROVE  (rows'[i].st = "running" => rows'[i].attempts > 0) /\ rows'[i].token <= claims'
    <3>1. rows'[i].token = token /\ rows'[i].attempts = rows[i].attempts + 1
      BY DEF Takes
    <3>2. rows[i].attempts \in Nat
      BY <1>0, <1>1 DEF RowShape
    <3> QED BY <1>0, <2>1, <3>1, <3>2
  <2>6. ASSUME NEW i \in Ids \ S
        PROVE  (rows'[i].st = "running" => rows'[i].attempts > 0) /\ rows'[i].token <= claims'
    <3>1. rows'[i] = rows[i] \/ (rows'[i].st = "cancelled" /\ rows'[i].token = 0)
      BY DEF Takes
    <3>2. (rows[i].st = "running" => rows[i].attempts > 0) /\ rows[i].token <= claims
          /\ rows[i].token \in Nat
      BY <1>0 DEF Shape, TokensAreOwn, RowShape
    <3> QED BY <1>0, <2>4, <3>1, <3>2
  <2> QED BY <2>1, <2>3, <2>4, <2>5, <2>6
<1>8. Shape'
  <2>1. IsFiniteSet(flights')
    BY <1>0, <1>1, <1>6, FS_Union
  <2>2. flights' \subseteq FlightShape
    BY <1>0, <1>1, <1>4
  <2> QED BY <1>0, <1>7, <2>1, <2>2 DEF Shape, Takes
<1>9. TokensAreOwn'
  <2> HIDE DEF token
  <2>1. token \in Nat /\ claims < token
    BY <1>0 DEF token
  <2>2. \A f \in flights : 0 < f.token /\ f.token <= claims /\ f.token \in Nat
    BY <1>0 DEF TokensAreOwn, FlightShape
  <2>3. \A f \in flights' : 0 < f.token /\ f.token <= claims'
    BY <1>0, <1>1, <1>4, <1>7, <2>1, <2>2
  <2>4. \A f, g \in flights' : f.id = g.id /\ f.token = g.token => f = g
    <3>1. \A f, g \in flights : f.id = g.id /\ f.token = g.token => f = g
      BY <1>0 DEF TokensAreOwn
    <3>2. \A f \in flights, g \in new : f.token # g.token
      BY <1>0, <1>4, <2>1, <2>2
    <3> QED BY <1>1, <1>5, <3>1, <3>2
  <2> QED BY <1>7, <2>3, <2>4 DEF TokensAreOwn
<1>10. Phases'
  <2>1. /\ worker[w].pc = "asked" /\ worker'[w].phase = worker[w].phase
        /\ (S # {} => worker'[w].pc = "answered")
        /\ \A v \in Workers : v # w => worker'[v] = worker[v]
    BY DEF Takes
  <2>2. worker[w].phase \notin {"handing", "stopped"}
    BY <1>0, <2>1 DEF Phases
  <2>3. \A f \in flights : f.w \in Workers /\ (f.w = w => f.st # "coming")
    BY <1>0, <2>1 DEF Phases, FlightShape
  <2>4. new # {} => S # {}
    BY <1>2
  <2>5. \A f \in flights' : f \in flights \/ f \in new
    BY <1>1
  <2>6. ASSUME NEW f \in flights
        PROVE  /\ f.st = "coming" => worker'[f.w].pc = "answered"
               /\ f.st \in {"coming", "unrun"} => f.ending = "none" /\ f.back = "no" /\ f.renew = "none"
               /\ f.back # "no" => f.ending # "none"
               /\ worker'[f.w].phase \in {"handing", "stopped"} => f.st = "done" \/ f.ending # "none"
    BY <1>0, <2>1, <2>3 DEF Phases
  <2>7. ASSUME NEW f \in new
        PROVE  /\ f.st = "coming" => worker'[f.w].pc = "answered"
               /\ f.st \in {"coming", "unrun"} => f.ending = "none" /\ f.back = "no" /\ f.renew = "none"
               /\ f.back # "no" => f.ending # "none"
               /\ worker'[f.w].phase \in {"handing", "stopped"} => f.st = "done" \/ f.ending # "none"
    BY <1>4, <2>1, <2>2, <2>4
  <2>8. \A v \in Workers : worker'[v].phase \in {"handing", "stopped"} => worker'[v].pc = "free"
    BY <1>0, <2>1, <2>2 DEF Phases
  <2> QED BY <2>5, <2>6, <2>7, <2>8 DEF Phases
<1> QED BY <1>8, <1>9, <1>10 DEF BaseInv

\* What a worker's loop, its shutdown or its end makes of a delivery of the worker.
LoopKeeps(w, f, x) ==
  /\ x \in FlightShape /\ (f.w # w => x = f)
  /\ x.id = f.id /\ x.token = f.token /\ x.w = f.w /\ x.attempt = f.attempt
  /\ x.lapsed = f.lapsed /\ x.dying = f.dying /\ x.held = f.held /\ x.fresh = f.fresh
  /\ x.renew = f.renew
  /\ x.st = f.st \/ (f.st = "coming" /\ x.st \in {"begin", "unrun"})
  /\ x.st = "unrun" => f.st = "unrun" \/ worker[w].phase # "run"
  /\ x.ending = f.ending \/ (f.ending = "none" /\ x.st # "coming" /\ x.st # "unrun")
  /\ x.back # "no" => f.back # "no" \/ worker[w].phase = "stopping"

\* A step of the loop of w, of its shutdown, or its end: a delivery f goes on as h[f] or is
\* forgotten.
Loops(w, h) ==
  /\ UNCHANGED <<rows, client, claims>> /\ stops' \in Nat /\ stops <= stops'
  /\ worker' \in [Workers -> WorkerShape]
  /\ \A v \in Workers : v # w => worker'[v] = worker[v]
  /\ h = [f \in flights |-> h[f]]
  /\ \A x \in flights' : \E f \in flights : x = h[f]
  /\ \A f \in flights : LoopKeeps(w, f, h[f])
  /\ \A f \in flights : f.w = w /\ h[f] \in flights' =>
       /\ h[f].st = "coming" => worker'[w].pc = "answered"
       /\ h[f].back # "no" => h[f].ending # "none"
       /\ worker'[w].phase \in {"handing", "stopped"} => h[f].st = "done" \/ h[f].ending # "none"
  /\ worker'[w].phase \in {"handing", "stopped"} => worker'[w].pc = "free"
  /\ worker'[w].phase \in {"stopping", "handing"} =>
       worker[w].phase \in {"stopping", "handing"} \/ stops' # 0
  /\ worker'[w].pc # "free" => worker'[w].phase = "run" \/ stops' # 0
  /\ worker'[w].pc = "answered" => worker[w].pc = "answered"
  /\ worker'[w].pc # "free" =>
       \/ /\ worker'[w].pc = worker[w].pc /\ worker'[w].age = worker[w].age
          /\ worker'[w].room = worker[w].room
       \/ /\ worker'[w].pc = "asked" /\ worker[w].pc = "free" /\ worker'[w].age = 0
          /\ worker'[w].room = Concurrency - Cardinality(InFlight(w)) /\ flights' = flights
          /\ Cardinality(InFlight(w)) < Concurrency

LEMMA LoopBase ==
  ASSUME BaseInv, NEW w \in Workers, NEW h, Loops(w, h)
  PROVE  BaseInv'
<1>0. /\ Shape /\ TokensAreOwn /\ Phases /\ flights \subseteq FlightShape
      /\ IsFiniteSet(flights)
  BY DEF BaseInv, Shape
<1>1. /\ UNCHANGED <<rows, client, claims>> /\ stops' \in Nat
      /\ worker' \in [Workers -> WorkerShape]
      /\ \A v \in Workers : v # w => worker'[v] = worker[v]
      /\ h = [f \in flights |-> h[f]]
      /\ \A x \in flights' : \E f \in flights : x = h[f]
      /\ \A f \in flights : LoopKeeps(w, f, h[f])
  BY DEF Loops
<1>2. \A f \in flights : /\ h[f] \in FlightShape /\ (f.w # w => h[f] = f)
                         /\ h[f].id = f.id /\ h[f].token = f.token /\ h[f].w = f.w
  BY <1>1 DEF LoopKeeps
<1>3. IsFiniteSet(flights')
  BY <1>0, <1>1, ImageBound
<1>4. Shape'
  BY <1>0, <1>1, <1>2, <1>3 DEF Shape
<1>5. TokensAreOwn'
  BY <1>0, <1>1, <1>2 DEF TokensAreOwn
<1>6. Phases'
  <2>1. ASSUME NEW x \in flights'
        PROVE  /\ x.st = "coming" => worker'[x.w].pc = "answered"
               /\ x.st \in {"coming", "unrun"} => x.ending = "none" /\ x.back = "no" /\ x.renew = "none"
               /\ x.back # "no" => x.ending # "none"
               /\ worker'[x.w].phase \in {"handing", "stopped"} => x.st = "done" \/ x.ending # "none"
    <3>1. PICK f \in flights : x = h[f]
      BY <1>1
    <3>2. f.w \in Workers /\ x.w = f.w /\ LoopKeeps(w, f, x)
      BY <1>0, <1>1, <1>2, <3>1 DEF FlightShape
    <3>3. /\ f.st = "coming" => worker[f.w].pc = "answered"
          /\ f.st \in {"coming", "unrun"} => f.ending = "none" /\ f.back = "no" /\ f.renew = "none"
          /\ f.back # "no" => f.ending # "none"
          /\ worker[f.w].phase \in {"handing", "stopped"} => f.st = "done" \/ f.ending # "none"
      BY <1>0 DEF Phases
    <3>4. CASE f.w # w
      BY <1>1, <3>2, <3>3, <3>4 DEF LoopKeeps
    <3>5. CASE f.w = w
      <4>1. /\ x.st = "coming" => worker'[w].pc = "answered"
            /\ x.back # "no" => x.ending # "none"
            /\ worker'[w].phase \in {"handing", "stopped"} => x.st = "done" \/ x.ending # "none"
        BY <3>1, <3>5 DEF Loops
      <4>2. x.st \in {"coming", "unrun"} => f.st \in {"coming", "unrun"} /\ x.ending = f.ending
                                            /\ x.renew = f.renew
        BY <3>2 DEF LoopKeeps
      <4>3. x.st \in {"coming", "unrun"} => x.ending = "none" /\ x.renew = "none" /\ x.back = "no"
        BY <3>2, <3>3, <4>1, <4>2 DEF LoopKeeps, FlightShape
      <4> QED BY <3>2, <3>5, <4>1, <4>3
    <3> QED BY <3>4, <3>5
  <2>2. \A v \in Workers : worker'[v].phase \in {"handing", "stopped"} => worker'[v].pc = "free"
    BY <1>0, <1>1 DEF Phases, Loops
  <2> QED BY <2>1, <2>2 DEF Phases
<1> QED BY <1>4, <1>5, <1>6 DEF BaseInv

\* The worker as one of its steps leaves it.
LEMMA WorkerFields ==
  ASSUME worker \in [Workers -> WorkerShape], NEW w \in Workers, NEW new \in WorkerShape,
         worker' = [worker EXCEPT ![w] = new]
  PROVE  /\ worker' \in [Workers -> WorkerShape] /\ worker'[w] = new
         /\ \A v \in Workers : v # w => worker'[v] = worker[v]
  OBVIOUS

\* The steps that forget deliveries of the worker or leave them alone.
LEMMA PlainKeeps ==
  ASSUME flights \subseteq FlightShape, NEW w \in Workers, NEW f \in flights
  PROVE  LoopKeeps(w, f, f)
  BY DEF LoopKeeps, FlightShape

LEMMA AskLoops ==
  ASSUME BaseInv, NEW w \in Workers, Ask(w)
  PROVE  \E h : Loops(w, h)
<1> DEFINE h == [f \in flights |-> f]
           c == Cardinality(InFlight(w))
           new == [worker[w] EXCEPT !.pc = "asked", !.age = 0, !.room = Concurrency - c]
<1>0. /\ Phases /\ flights \subseteq FlightShape /\ IsFiniteSet(flights) /\ stops \in Nat
      /\ worker \in [Workers -> WorkerShape] /\ worker[w] \in WorkerShape
  BY DEF BaseInv, Shape
<1>1. c \in Nat /\ c < Concurrency /\ Concurrency \in Nat /\ Concurrency - c \in Nat
  <2>1. InFlight(w) \in SUBSET flights
    BY DEF InFlight
  <2>2. c \in Nat
    BY <1>0, <2>1, FS_Subset, FS_CardinalityType
  <2>3. c < Concurrency /\ Concurrency \in Nat
    BY QueueConstants DEF Ask
  <2> HIDE DEF c
  <2> QED BY <2>2, <2>3
<1>2. /\ worker' = [worker EXCEPT ![w] = new] /\ worker[w].phase = "run" /\ worker[w].pc = "free"
      /\ UNCHANGED <<rows, flights, client, claims, stops>>
  BY <1>0 DEF Ask, WorkerShape
<1> HIDE DEF c
<1>3. new \in WorkerShape /\ new.pc = "asked" /\ new.age = 0 /\ new.room = Concurrency - c
      /\ new.phase = worker[w].phase
  BY <1>0, <1>1 DEF WorkerShape
<1> HIDE DEF new
<1>4. /\ worker' \in [Workers -> WorkerShape] /\ worker'[w] = new
      /\ \A v \in Workers : v # w => worker'[v] = worker[v]
  BY <1>0, <1>2, <1>3, WorkerFields
<1>5. \A f \in flights : h[f] = f /\ LoopKeeps(w, f, h[f])
  BY <1>0, PlainKeeps
<1>6. \A f \in flights : f.w = w => f.st # "coming" /\ (f.back # "no" => f.ending # "none")
  BY <1>0, <1>2 DEF Phases
<1>7. h = [f \in flights |-> h[f]]
  OBVIOUS
<1> HIDE DEF h
<1>8. Loops(w, h)
  BY <1>0, <1>1, <1>2, <1>3, <1>4, <1>5, <1>6, <1>7 DEF Loops, c
<1> QED BY <1>8

\* Deliveries stay as they are or are forgotten, and the loop is at rest or as it was.
LEMMA PlainLoops ==
  ASSUME BaseInv, NEW w \in Workers, NEW new \in WorkerShape,
         worker' = [worker EXCEPT ![w] = new], UNCHANGED <<rows, client, claims>>,
         stops' \in Nat, stops <= stops', flights' \subseteq flights,
         \/ new.pc = "free" /\ \A f \in flights' : f.w = w => f.st # "coming"
         \/ /\ new.pc = worker[w].pc /\ new.age = worker[w].age /\ new.room = worker[w].room
            /\ new.phase = "run" \/ stops' # 0,
         new.phase \in {"handing", "stopped"} =>
           /\ new.pc = "free"
           /\ \A f \in flights' : f.w = w => f.st = "done" \/ f.ending # "none",
         new.phase \in {"stopping", "handing"} =>
           worker[w].phase \in {"stopping", "handing"} \/ stops' # 0
  PROVE  \E h : Loops(w, h)
<1> DEFINE h == [f \in flights |-> f]
<1>0. Phases /\ flights \subseteq FlightShape /\ worker \in [Workers -> WorkerShape]
  BY DEF BaseInv, Shape
<1>1. /\ worker' \in [Workers -> WorkerShape] /\ worker'[w] = new
      /\ \A v \in Workers : v # w => worker'[v] = worker[v]
  BY <1>0, WorkerFields
<1>2. h = [f \in flights |-> h[f]] /\ \A f \in flights : h[f] = f /\ LoopKeeps(w, f, h[f])
  BY <1>0, PlainKeeps
<1> HIDE DEF h
<1>3. \A x \in flights' : \E f \in flights : x = h[f]
  BY <1>2
<1>4. \A f \in flights : f.w = w /\ h[f] \in flights' =>
        /\ h[f].st = "coming" => worker'[w].pc = "answered"
        /\ h[f].back # "no" => h[f].ending # "none"
        /\ worker'[w].phase \in {"handing", "stopped"} => h[f].st = "done" \/ h[f].ending # "none"
  BY <1>0, <1>1, <1>2 DEF Phases
<1>5. /\ worker'[w].phase \in {"handing", "stopped"} => worker'[w].pc = "free"
      /\ worker'[w].phase \in {"stopping", "handing"} =>
           worker[w].phase \in {"stopping", "handing"} \/ stops' # 0
      /\ worker'[w].pc # "free" => worker'[w].phase = "run" \/ stops' # 0
      /\ worker'[w].pc = "answered" => worker[w].pc = "answered"
      /\ worker'[w].pc # "free" => /\ worker'[w].pc = worker[w].pc /\ worker'[w].age = worker[w].age
                                   /\ worker'[w].room = worker[w].room
  BY <1>1
<1>6. Loops(w, h)
  BY <1>1, <1>2, <1>3, <1>4, <1>5 DEF Loops
<1> QED BY <1>6

LEMMA QuietLoops ==
  ASSUME BaseInv, NEW w \in Workers,
         ClaimFails(w) \/ StopBegin(w) \/ Stopped(w) \/ Crash(w) \/ Restart(w)
  PROVE  \E h : Loops(w, h)
<1>0. /\ Phases /\ flights \subseteq FlightShape /\ stops \in Nat
      /\ worker \in [Workers -> WorkerShape] /\ worker[w] \in WorkerShape
  BY DEF BaseInv, Shape
<1>1. CASE ClaimFails(w)
  <2> DEFINE new == [worker[w] EXCEPT !.pc = "free", !.age = 0, !.room = 0]
  <2>1. new \in WorkerShape /\ new.pc = "free" /\ new.phase = worker[w].phase
    BY <1>0 DEF WorkerShape
  <2>2. /\ worker' = [worker EXCEPT ![w] = new] /\ worker[w].pc # "free"
        /\ UNCHANGED <<rows, client, claims, stops>> /\ flights' = flights \ Answered(w)
    BY <1>0, <1>1 DEF ClaimFails, WorkerShape
  <2>3. worker[w].phase \notin {"handing", "stopped"}
    BY <1>0, <2>2 DEF Phases
  <2>4. \A f \in flights' : f.w = w => f.st # "coming"
    BY <2>2 DEF Answered
  <2>5. flights' \subseteq flights
    BY <2>2
  <2>6. stops' \in Nat /\ stops <= stops'
    BY <1>0, <2>2
  <2> HIDE DEF new
  <2> QED BY <2>1, <2>2, <2>3, <2>4, <2>5, <2>6, PlainLoops
<1>2. CASE StopBegin(w)
  <2> DEFINE new == [worker[w] EXCEPT !.phase = "stopping"]
  <2>1. new \in WorkerShape /\ new.phase = "stopping" /\ new.pc = worker[w].pc
        /\ new.age = worker[w].age /\ new.room = worker[w].room
    BY <1>0 DEF WorkerShape
  <2>2. /\ worker' = [worker EXCEPT ![w] = new] /\ stops' = stops + 1
        /\ UNCHANGED <<rows, client, claims, flights>>
    BY <1>0, <1>2 DEF StopBegin
  <2>3. stops' \in Nat /\ stops <= stops' /\ stops' # 0
    BY <1>0, <2>2
  <2> HIDE DEF new
  <2> QED BY <1>0, <2>1, <2>2, <2>3, PlainLoops
<1>3. CASE Stopped(w)
  <2> DEFINE new == [worker[w] EXCEPT !.phase = "stopped"]
  <2>1. new \in WorkerShape /\ new.phase = "stopped" /\ new.pc = worker[w].pc
    BY <1>0 DEF WorkerShape
  <2>2. /\ worker' = [worker EXCEPT ![w] = new]
        /\ UNCHANGED <<rows, client, claims, flights, stops>>
        /\ \/ worker[w].phase = "stopping" /\ LoopOver(w) /\ InFlight(w) = {}
           \/ worker[w].phase = "handing"
    BY <1>0, <1>3 DEF Stopped
  <2>3. worker[w].pc = "free"
    BY <1>0, <2>2 DEF Phases, LoopOver
  <2>4. ASSUME NEW f \in flights, f.w = w
        PROVE  f.st # "coming" /\ (f.st = "done" \/ f.ending # "none")
    <3>1. f.st # "coming"
      BY <1>0, <2>3, <2>4 DEF Phases
    <3>2. CASE worker[w].phase = "handing"
      BY <1>0, <2>4, <3>1, <3>2 DEF Phases
    <3>3. CASE LoopOver(w) /\ InFlight(w) = {}
      BY <2>4, <3>1, <3>3 DEF LoopOver, InFlight
    <3> QED BY <2>2, <3>1, <3>2, <3>3
  <2>6. stops' \in Nat /\ stops <= stops' /\ flights' \subseteq flights
    BY <1>0, <2>2
  <2>7. \A f \in flights' : f.w = w => f.st # "coming" /\ (f.st = "done" \/ f.ending # "none")
    BY <2>2, <2>4
  <2> HIDE DEF new
  <2> QED BY <2>1, <2>2, <2>3, <2>6, <2>7, PlainLoops
<1>4. ASSUME NEW phase \in {"run", "stopped"}, Vanish(w, phase),
             UNCHANGED <<rows, client, claims, stops>>
      PROVE  \E h : Loops(w, h)
  <2> DEFINE new == Idle(phase)
  <2>1. new \in WorkerShape /\ new.phase = phase /\ new.pc = "free"
    BY DEF Idle, WorkerShape
  <2>2. worker' = [worker EXCEPT ![w] = new] /\ flights' = {f \in flights : f.w # w}
    BY <1>4 DEF Vanish
  <2>3. flights' \subseteq flights /\ \A f \in flights' : f.w # w
    BY <2>2
  <2>6. stops' \in Nat /\ stops <= stops'
    BY <1>0, <1>4
  <2> HIDE DEF new
  <2> QED BY <1>4, <2>1, <2>2, <2>3, <2>6, PlainLoops
<1>5. CASE Crash(w)
  BY <1>4, <1>5 DEF Crash
<1>6. CASE Restart(w)
  BY <1>4, <1>6 DEF Restart
<1> QED BY <1>1, <1>2, <1>3, <1>5, <1>6

LEMMA ReceiveLoops ==
  ASSUME BaseInv, NEW w \in Workers, Receive(w)
  PROVE  \E h : Loops(w, h)
<1> DEFINE s == IF worker[w].phase = "run" THEN "begin" ELSE "unrun"
           h == [f \in flights |-> IF f \in Answered(w) THEN [f EXCEPT !.st = s] ELSE f]
           new == [worker[w] EXCEPT !.pc = "free", !.age = 0]
<1>0. /\ Phases /\ flights \subseteq FlightShape /\ stops \in Nat
      /\ worker \in [Workers -> WorkerShape] /\ worker[w] \in WorkerShape
  BY DEF BaseInv, Shape
<1>1. /\ worker' = [worker EXCEPT ![w] = new] /\ worker[w].pc = "answered"
      /\ UNCHANGED <<rows, client, claims, stops>>
      /\ flights' = (flights \ Answered(w)) \cup {[f EXCEPT !.st = s] : f \in Answered(w)}
  BY <1>0 DEF Receive, WorkerShape
<1>2. new \in WorkerShape /\ new.pc = "free" /\ new.phase = worker[w].phase
  BY <1>0 DEF WorkerShape
<1> HIDE DEF new
<1>3. /\ worker' \in [Workers -> WorkerShape] /\ worker'[w] = new
      /\ \A v \in Workers : v # w => worker'[v] = worker[v]
  BY <1>0, <1>1, <1>2, WorkerFields
<1>4. s \in {"begin", "unrun"} /\ (s = "unrun" => worker[w].phase # "run")
  OBVIOUS
<1> HIDE DEF s
<1>5. Answered(w) \subseteq flights /\ \A f \in Answered(w) : f.w = w /\ f.st = "coming"
  BY DEF Answered
<1>6. h = [f \in flights |-> h[f]]
  OBVIOUS
<1>7. \A f \in flights : h[f] = IF f \in Answered(w) THEN [f EXCEPT !.st = s] ELSE f
  OBVIOUS
<1> HIDE DEF h
<1>8. \A x \in flights' : \E f \in flights : x = h[f]
  BY <1>1, <1>5, <1>7
<1>9. ASSUME NEW f \in flights
      PROVE  LoopKeeps(w, f, h[f])
  <2>1. CASE f \in Answered(w)
    <3> DEFINE x == [f EXCEPT !.st = s]
    <3>1. f \in FlightShape /\ s \in FlightStates
      BY <1>0, <1>4 DEF FlightStates
    <3>2. /\ x \in FlightShape /\ x.st = s
          /\ x.id = f.id /\ x.token = f.token /\ x.w = f.w /\ x.attempt = f.attempt
          /\ x.lapsed = f.lapsed /\ x.dying = f.dying /\ x.held = f.held /\ x.fresh = f.fresh
          /\ x.renew = f.renew /\ x.ending = f.ending /\ x.back = f.back
      BY <3>1 DEF FlightShape
    <3>3. h[f] = x /\ f.w = w /\ f.st = "coming"
      BY <1>5, <1>7, <2>1
    <3> HIDE DEF x
    <3> QED BY <1>4, <3>2, <3>3 DEF LoopKeeps
  <2>2. CASE f \notin Answered(w)
    BY <1>0, <1>7, <2>2, PlainKeeps
  <2> QED BY <2>1, <2>2
<1>10. ASSUME NEW f \in flights, f.w = w
       PROVE  h[f].st # "coming" /\ (h[f].back # "no" => h[f].ending # "none")
  <2>1. CASE f \in Answered(w)
    <3>1. f \in FlightShape /\ f.st = "coming"
      BY <1>0, <1>5, <2>1
    <3>2. f.back = "no"
      BY <1>0, <3>1 DEF Phases
    <3>3. h[f].st = s /\ h[f].back = f.back
      BY <1>7, <2>1, <3>1 DEF FlightShape
    <3> QED BY <1>4, <3>2, <3>3
  <2>2. CASE f \notin Answered(w)
    <3>1. h[f] = f /\ f.st # "coming"
      BY <1>7, <1>10, <2>2 DEF Answered
    <3> QED BY <1>0, <3>1 DEF Phases
  <2> QED BY <2>1, <2>2
<1>11. worker[w].phase \notin {"handing", "stopped"}
  BY <1>0, <1>1 DEF Phases
<1>12. Loops(w, h)
  BY <1>0, <1>1, <1>2, <1>3, <1>6, <1>8, <1>9, <1>10, <1>11 DEF Loops
<1> QED BY <1>12

LEMMA GraceLoops ==
  ASSUME BaseInv, NEW w \in Workers, GraceOver(w)
  PROVE  \E h : Loops(w, h)
<1> DEFINE h == [f \in flights |-> IF f \in InFlight(w) THEN HandBack(f) ELSE f]
           new == [worker[w] EXCEPT !.phase = "handing"]
<1>0. /\ Phases /\ flights \subseteq FlightShape /\ stops \in Nat
      /\ worker \in [Workers -> WorkerShape] /\ worker[w] \in WorkerShape
  BY DEF BaseInv, Shape
<1>1. /\ worker' = [worker EXCEPT ![w] = new] /\ worker[w].phase = "stopping" /\ LoopOver(w)
      /\ UNCHANGED <<rows, client, claims, stops>>
      /\ flights' = (flights \ InFlight(w)) \cup {HandBack(f) : f \in InFlight(w)}
  BY <1>0 DEF GraceOver
<1>2. new \in WorkerShape /\ new.pc = worker[w].pc /\ new.phase = "handing" /\ new.pc = "free"
  BY <1>0, <1>1 DEF WorkerShape, LoopOver
<1> HIDE DEF new
<1>3. /\ worker' \in [Workers -> WorkerShape] /\ worker'[w] = new
      /\ \A v \in Workers : v # w => worker'[v] = worker[v]
  BY <1>0, <1>1, <1>2, WorkerFields
<1>5. InFlight(w) \subseteq flights
      /\ \A f \in InFlight(w) : f.w = w /\ f.st \notin {"coming", "unrun", "done"}
  BY DEF InFlight
<1>6. h = [f \in flights |-> h[f]]
  OBVIOUS
<1>7. \A f \in flights : h[f] = IF f \in InFlight(w) THEN HandBack(f) ELSE f
  OBVIOUS
<1> HIDE DEF h
<1>8. \A x \in flights' : \E f \in flights : x = h[f]
  BY <1>1, <1>5, <1>7
<1>h. ASSUME NEW f \in InFlight(w)
      PROVE  /\ LoopKeeps(w, f, HandBack(f)) /\ HandBack(f).ending # "none"
             /\ HandBack(f).st = f.st
  <2> DEFINE e == IF f.ending = "none" THEN "shutdown" ELSE f.ending
             b == IF f.ending = "none" THEN "sent" ELSE "done"
             x == [f EXCEPT !.ending = e, !.back = b]
  <2>1. f \in FlightShape /\ f.w = w /\ f.st \notin {"coming", "unrun", "done"}
    BY <1>0, <1>5
  <2>2. e \in {"lost", "cancelled", "shutdown"} /\ (e = f.ending \/ f.ending = "none")
        /\ b \in {"sent", "done"}
    BY <2>1 DEF FlightShape
  <2>3. HandBack(f) = x
    BY <2>1 DEF HandBack, Ended, FlightShape
  <2> HIDE DEF e, b
  <2>4. /\ x \in FlightShape /\ x.st = f.st /\ x.ending = e
        /\ x.id = f.id /\ x.token = f.token /\ x.w = f.w /\ x.attempt = f.attempt
        /\ x.lapsed = f.lapsed /\ x.dying = f.dying /\ x.held = f.held /\ x.fresh = f.fresh
        /\ x.renew = f.renew
    BY <2>1, <2>2 DEF FlightShape
  <2> HIDE DEF x
  <2> QED BY <1>1, <2>1, <2>2, <2>3, <2>4 DEF LoopKeeps
<1>9. \A f \in flights : LoopKeeps(w, f, h[f])
  BY <1>0, <1>7, <1>h, PlainKeeps
<1>10. ASSUME NEW f \in flights, f.w = w
       PROVE  h[f].st # "coming" /\ (h[f].st = "done" \/ h[f].ending # "none")
              /\ (h[f].back # "no" => h[f].ending # "none")
  <2>1. CASE f \in InFlight(w)
    BY <1>5, <1>7, <1>h, <2>1
  <2>2. CASE f \notin InFlight(w)
    <3>1. f.st \in {"coming", "unrun", "done"} /\ h[f] = f
      BY <1>7, <1>10, <2>2 DEF InFlight
    <3>2. f.st = "done"
      BY <1>0, <1>1, <1>10, <3>1 DEF LoopOver, Phases
    <3> QED BY <1>0, <3>1, <3>2 DEF Phases
  <2> QED BY <2>1, <2>2
<1>12. Loops(w, h)
  BY <1>0, <1>1, <1>2, <1>3, <1>6, <1>8, <1>9, <1>10 DEF Loops
<1> QED BY <1>12

-----------------------------------------------------------------------------
(* The base invariant. *)

LEMMA BaseStart ==
  ASSUME Init
  PROVE  BaseInv
<1>1. NoRow \in RowShape /\ NoRow.st = "none" /\ NoRow.token = 0
  BY DEF NoRow, RowShape, RowStates, NoToken, Lease
<1>2. Idle("run") \in WorkerShape /\ Idle("run").phase = "run"
  BY DEF Idle, WorkerShape
<1>3. rows \in [Ids -> RowShape] /\ \A i \in Ids : rows[i] = NoRow
  BY <1>1 DEF Init
<1>4. worker \in [Workers -> WorkerShape] /\ \A w \in Workers : worker[w] = Idle("run")
  BY <1>2 DEF Init
<1>5. flights = {} /\ client = NoCancel /\ claims = 0 /\ stops = 0
  BY DEF Init
<1>6. Shape
  BY <1>1, <1>3, <1>4, <1>5, FS_EmptySet DEF Shape
<1>7. TokensAreOwn /\ Phases
  BY <1>1, <1>2, <1>3, <1>4, <1>5 DEF TokensAreOwn, Phases
<1> QED BY <1>6, <1>7 DEF BaseInv

\* The kinds of a step.
LEMMA StepKinds ==
  ASSUME BaseInv, Next
  PROVE  \/ Tick
         \/ RowsMove
         \/ \E w \in Workers : \E S : Takes(w, S)
         \/ \E w \in Workers : \E h : Loops(w, h)
         \/ \E f \in flights : \E g : Delivers(f, g)
<1>0. Shape
  BY DEF BaseInv
<1>1. CASE \/ CancelRequest \/ CancelRead
           \/ \E i \in Ids : Enqueue(i) \/ Visible(i) \/ Expire(i) \/ CancelSettle(i) \/ Requeue(i)
  BY <1>0, <1>1, RowSteps
<1>2. CASE \E w \in Workers : WorkerStep(w) \/ ClaimFails(w) \/ StopBegin(w) \/ Crash(w)
  <2>1. PICK w \in Workers : WorkerStep(w) \/ ClaimFails(w) \/ StopBegin(w) \/ Crash(w)
    BY <1>2
  <2>2. CASE ClaimOnce(w)
    BY <1>0, <2>2, ClaimTakes
  <2>3. CASE Ask(w)
    BY <2>3, AskLoops
  <2>4. CASE Receive(w)
    BY <2>4, ReceiveLoops
  <2>5. CASE GraceOver(w)
    BY <2>5, GraceLoops
  <2>6. CASE ClaimFails(w) \/ StopBegin(w) \/ Stopped(w) \/ Crash(w) \/ Restart(w)
    BY <2>6, QuietLoops
  <2> QED BY <2>1, <2>2, <2>3, <2>4, <2>5, <2>6 DEF WorkerStep
<1>3. CASE \E f \in flights : FlightStep(f) \/ Renewal(f) \/ SettleFails(f) \/ HandBackFails(f)
  BY <1>3, DeliverySteps
<1>4. CASE Tick
  BY <1>4
<1> QED BY <1>1, <1>2, <1>3, <1>4 DEF Next

LEMMA BaseStep ==
  ASSUME BaseInv, [Next]_vars
  PROVE  BaseInv'
<1>1. CASE UNCHANGED vars
  BY <1>1 DEF BaseInv, Shape, TokensAreOwn, Phases, vars
<1>2. CASE Next
  BY <1>2, StepKinds, TickBase, RowsBase, ClaimBase, LoopBase, DeliverBase
<1> QED BY <1>1, <1>2

\* The shapes of rows, deliveries and workers, the claim tokens and the phases of a worker
\* (SqlQueueStore and WorkerLoop) are as BaseInv says, in every state.
THEOREM BaseInvariant == Spec => []BaseInv
<1>1. Init => BaseInv
  BY BaseStart
<1>2. BaseInv /\ [Next]_vars => BaseInv'
  BY BaseStep
<1> QED BY <1>1, <1>2, PTL DEF Spec

LEMMA BaseStops == BaseInv => StopCancels
  BY DEF BaseInv, Phases, StopCancels, Active, Running

\* Once stop() has returned no handler runs that was not told to stop (worker-loop.ts stop:
\* the grace period ends in an abort of whatever is in flight).
THEOREM StopCancelsHandlers == Spec => []StopCancels
  BY BaseStops, BaseInvariant, PTL

-----------------------------------------------------------------------------
(* What may become of a row. *)

LEMMA RowChanges ==
  ASSUME BaseInv, [Next]_vars, NEW i \in Ids
  PROVE  \/ /\ rows'[i].st = rows[i].st /\ rows'[i].token = rows[i].token
            /\ rows'[i].cancel = rows[i].cancel
         \/ RowStep(i, rows'[i])
         \/ /\ rows[i].st = "pending" \/ (Lapsed(rows[i]) /\ rows[i].cancel = FALSE)
            /\ rows'[i].st = "running"
         \/ Lapsed(rows[i]) /\ rows'[i].st = "cancelled"
         \/ \E f \in flights : f.id = i /\ HeldBy(f) /\ Gives(f, rows'[i])
<1>0. rows \in [Ids -> RowShape] /\ rows[i] \in RowShape /\ flights \subseteq FlightShape
  BY DEF BaseInv, Shape
<1>1. CASE UNCHANGED vars
  BY <1>1 DEF vars
<1>2. CASE Tick
  BY <1>0, <1>2, TickRows
<1>3. CASE RowsMove
  BY <1>0, <1>3 DEF RowsMove
<1>4. ASSUME NEW w \in Workers, NEW S, Takes(w, S)
      PROVE  \/ rows'[i] = rows[i]
             \/ /\ rows[i].st = "pending" \/ (Lapsed(rows[i]) /\ rows[i].cancel = FALSE)
                /\ rows'[i].st = "running"
             \/ Lapsed(rows[i]) /\ rows'[i].st = "cancelled"
  <2>1. CASE i \in S
    BY <1>4, <2>1 DEF Takes
  <2>2. CASE i \notin S
    BY <1>4, <2>2 DEF Takes
  <2> QED BY <2>1, <2>2
<1>5. ASSUME NEW w \in Workers, NEW h, Loops(w, h)
      PROVE  rows'[i] = rows[i]
  BY <1>5 DEF Loops
<1>6. ASSUME NEW f \in flights, NEW g, Delivers(f, g)
      PROVE  \/ /\ rows'[i].st = rows[i].st /\ rows'[i].token = rows[i].token
                /\ rows'[i].cancel = rows[i].cancel
             \/ f.id = i /\ HeldBy(f) /\ Gives(f, rows'[i])
  <2>0. f.id \in Ids /\ RowOf(f, g)
    BY <1>0, <1>6 DEF Delivers, FlightShape
  <2>1. CASE rows' = rows
    BY <2>1
  <2>2. CASE rows' = [rows EXCEPT ![f.id].lease = Lease]
    <3> DEFINE row == [rows[f.id] EXCEPT !.lease = Lease]
    <3>1. /\ row.st = rows[f.id].st /\ row.token = rows[f.id].token
          /\ row.cancel = rows[f.id].cancel
      BY <1>0, <2>0 DEF RowShape
    <3>2. rows' = [rows EXCEPT ![f.id] = row]
      BY <2>2
    <3> HIDE DEF row
    <3> QED BY <1>0, <2>0, <3>1, <3>2
  <2>3. CASE HeldBy(f) /\ \E row : Gives(f, row) /\ rows' = [rows EXCEPT ![f.id] = row]
    BY <1>0, <2>0, <2>3
  <2> QED BY <2>0, <2>1, <2>2, <2>3 DEF RowOf
<1> QED BY <1>1, <1>2, <1>3, <1>4, <1>5, <1>6, StepKinds

\* A message is completed only through the claim that holds it, by the delivery whose
\* handler returned (sql-queue-store.ts complete compares the claim token).
THEOREM CompletionIsTheHolders == Spec => CompletedByHolder
<1> DEFINE Property ==
      \A i \in Ids : rows[i].st # "completed" /\ rows'[i].st = "completed" =>
        \E f \in flights : f.id = i /\ f.token = rows[i].token /\ f.st = "complete"
<1>1. BaseInv /\ [Next]_vars => Property
  <2>1. SUFFICES ASSUME BaseInv, [Next]_vars, NEW i \in Ids,
                        rows[i].st # "completed", rows'[i].st = "completed"
                 PROVE  \E f \in flights : f.id = i /\ f.token = rows[i].token /\ f.st = "complete"
    OBVIOUS
  <2>2. \E f \in flights : f.id = i /\ HeldBy(f) /\ Gives(f, rows'[i])
    BY <2>1, RowChanges DEF RowStep
  <2> QED BY <2>1, <2>2 DEF HeldBy, Gives
<1>2. BaseInv /\ [Next]_vars => [Property]_vars
  BY <1>1
<1> QED BY <1>2, BaseInvariant, PTL DEF Spec, CompletedByHolder

\* A completed or cancelled message only expires, a dead one only goes back to work
\* through Requeue with its attempts reset or is cancelled (sql-queue-store.ts: the state
\* conditions of its statements).
THEOREM SettledRowsAreFinal == Spec => SettledIsFinal
<1> DEFINE Property ==
      \A i \in Ids :
        /\ rows[i].st \in {"completed", "cancelled"} => rows'[i].st \in {rows[i].st, "none"}
        /\ rows[i].st = "dead" =>
             \/ rows'[i].st \in {"dead", "cancelled"}
             \/ rows'[i].st = "pending" /\ rows'[i].attempts = 0
<1>1. BaseInv /\ [Next]_vars => Property
  <2>1. SUFFICES ASSUME BaseInv, [Next]_vars, NEW i \in Ids
                 PROVE  /\ rows[i].st \in {"completed", "cancelled"} =>
                             rows'[i].st \in {rows[i].st, "none"}
                        /\ rows[i].st = "dead" =>
                             \/ rows'[i].st \in {"dead", "cancelled"}
                             \/ rows'[i].st = "pending" /\ rows'[i].attempts = 0
    OBVIOUS
  <2> QED BY <2>1, RowChanges DEF RowStep, HeldBy, Lapsed
<1>2. BaseInv /\ [Next]_vars => [Property]_vars
  BY <1>1
<1> QED BY <1>2, BaseInvariant, PTL DEF Spec, SettledIsFinal

\* A requested cancel sticks: a running message that carries it is held by the same claim,
\* completed or cancelled next (renew, release and claim of sql-queue-store.ts look at it).
THEOREM RequestedCancelSticks == Spec => CancelSticks
<1> DEFINE Property ==
      \A i \in Ids : rows[i].cancel /\ rows[i].st = "running" =>
        \/ rows'[i].st = "running" /\ rows'[i].cancel /\ rows'[i].token = rows[i].token
        \/ rows'[i].st \in {"completed", "cancelled"}
<1>1. BaseInv /\ [Next]_vars => Property
  <2>1. SUFFICES ASSUME BaseInv, [Next]_vars, NEW i \in Ids, rows[i].cancel,
                        rows[i].st = "running"
                 PROVE  \/ rows'[i].st = "running" /\ rows'[i].cancel /\ rows'[i].token = rows[i].token
                        \/ rows'[i].st \in {"completed", "cancelled"}
    OBVIOUS
  <2>2. rows[i].cancel = TRUE
    BY <2>1 DEF BaseInv, Shape, RowShape
  <2> QED BY <2>1, <2>2, RowChanges DEF RowStep, Gives, Lapsed
<1>2. BaseInv /\ [Next]_vars => [Property]_vars
  BY <1>1
<1> QED BY <1>2, BaseInvariant, PTL DEF Spec, CancelSticks

-----------------------------------------------------------------------------
(* Concurrency. *)

Load(w) == InFlight(w) \cup Answered(w)

\* What a worker has, together with what the claim under way may bring, fits.
RoomInv ==
  \A w \in Workers :
    /\ Cardinality(Load(w)) <= Concurrency
    /\ worker[w].pc = "asked" => worker[w].room + Cardinality(Load(w)) <= Concurrency

LEMMA LoadFacts ==
  ASSUME BaseInv, NEW w
  PROVE  /\ Load(w) \subseteq flights /\ IsFiniteSet(Load(w)) /\ Cardinality(Load(w)) \in Nat
         /\ \A f \in flights : f \in Load(w) <=> f.w = w /\ f.st \notin {"unrun", "done"}
<1>1. Load(w) \in SUBSET flights
  BY DEF Load, InFlight, Answered
<1>2. IsFiniteSet(flights)
  BY DEF BaseInv, Shape
<1>3. IsFiniteSet(Load(w)) /\ Cardinality(Load(w)) \in Nat
  BY <1>1, <1>2, FS_Subset, FS_CardinalityType
<1>4. \A f \in flights : f \in Load(w) <=> f.w = w /\ f.st \notin {"unrun", "done"}
  BY DEF Load, InFlight, Answered
<1> QED BY <1>1, <1>3, <1>4

\* A step that begins no delivery adds to no worker's load.
LEMMA LoadShrinks ==
  ASSUME BaseInv, BaseInv', NEW h,
         \A x \in flights' : \E f \in flights :
           /\ x = h[f] /\ x.w = f.w
           /\ f.st \in {"unrun", "done"} => x.st \in {"unrun", "done"},
         NEW w \in Workers
  PROVE  Cardinality(Load(w)') <= Cardinality(Load(w))
<1> DEFINE S == Load(w)
           k == [f \in S |-> h[f]]
<1>1. IsFiniteSet(S)
  BY LoadFacts
<1>2. Load(w)' \subseteq flights' /\ \A x \in Load(w)' : x.w = w /\ x.st \notin {"unrun", "done"}
  BY DEF Load, InFlight, Answered
<1>3. \A f \in flights : f.w = w /\ f.st \notin {"unrun", "done"} => f \in S
  BY LoadFacts
<1> HIDE DEF S
<1>4. \A x \in Load(w)' : \E f \in S : x = k[f]
  BY <1>2, <1>3
<1>5. k = [f \in S |-> k[f]]
  OBVIOUS
<1> HIDE DEF k
<1> QED BY <1>1, <1>4, <1>5, ImageBound DEF S

LEMMA RoomKept ==
  ASSUME RoomInv, BaseInv, BaseInv', NEW w \in Workers,
         Cardinality(Load(w)') <= Cardinality(Load(w)),
         worker'[w].pc = "asked" => worker[w].pc = "asked" /\ worker'[w].room = worker[w].room
  PROVE  /\ Cardinality(Load(w)') <= Concurrency
         /\ worker'[w].pc = "asked" => worker'[w].room + Cardinality(Load(w)') <= Concurrency
<1> DEFINE old == Cardinality(Load(w))
           now == Cardinality(Load(w)')
<1>1. old \in Nat /\ Concurrency \in Nat
  BY LoadFacts, QueueConstants
<1>2. now \in Nat
  <2>1. IsFiniteSet(flights') /\ Load(w)' \in SUBSET flights'
    BY DEF BaseInv, Shape, Load, InFlight, Answered
  <2> QED BY <2>1, FS_Subset, FS_CardinalityType
<1>3. worker[w].room \in Nat
  BY DEF BaseInv, Shape, WorkerShape
<1>4. old <= Concurrency /\ (worker[w].pc = "asked" => worker[w].room + old <= Concurrency)
  BY DEF RoomInv
<1>5. now <= old
  OBVIOUS
<1> HIDE DEF old, now
<1>6. now <= Concurrency /\ (worker'[w].pc = "asked" => worker'[w].room + now <= Concurrency)
  BY <1>1, <1>2, <1>3, <1>4, <1>5
<1> QED BY <1>6 DEF now

LEMMA RoomStep ==
  ASSUME RoomInv, BaseInv, BaseInv', [Next]_vars
  PROVE  RoomInv'
<1>0. /\ worker \in [Workers -> WorkerShape] /\ flights \subseteq FlightShape
      /\ \A v \in Workers : worker[v].room \in Nat
  BY DEF BaseInv, Shape, WorkerShape
<1>1. ASSUME UNCHANGED <<flights, worker>>
      PROVE  RoomInv'
  BY <1>1 DEF RoomInv, Load, InFlight, Answered
<1>2. CASE Tick
  <2> DEFINE h == [f \in flights |-> Older(f)]
  <2>1. flights' = {Older(f) : f \in flights}
    BY <1>2 DEF Tick, Older
  <2>2. \A f \in flights : h[f] = Older(f) /\ Older(f).w = f.w /\ Older(f).st = f.st
    BY <1>0, OlderFields
  <2>3. \A x \in flights' : \E f \in flights : x = h[f] /\ x.w = f.w /\ x.st = f.st
    BY <2>1, <2>2
  <2> HIDE DEF h
  <2>4. ASSUME NEW w \in Workers
        PROVE  Cardinality(Load(w)') <= Cardinality(Load(w))
    BY <2>3, LoadShrinks
  <2>5. \A w \in Workers : worker'[w].pc = worker[w].pc /\ worker'[w].room = worker[w].room
    BY <1>0, <1>2, TickWorkers
  <2> QED BY <2>4, <2>5, RoomKept DEF RoomInv
<1>3. CASE RowsMove
  BY <1>1, <1>3 DEF RowsMove
<1>4. ASSUME NEW f \in flights, NEW g, Delivers(f, g)
      PROVE  RoomInv'
  <2> DEFINE h == [x \in flights |-> IF x = f THEN Forget(g) ELSE x]
  <2>1. flights' = With(f, g) /\ worker' = worker /\ Keeps(f, g)
    BY <1>4 DEF Delivers
  <2>2. Forget(g).w = f.w /\ (f.st \in {"unrun", "done"} => Forget(g).st \in {"unrun", "done"})
    BY <2>1, ForgetFields DEF Keeps
  <2>3. \A x \in flights' : (x \in flights /\ x # f) \/ x = Forget(g)
    BY <2>1, WithMembers
  <2>4. \A x \in flights' : \E y \in flights :
          /\ x = h[y] /\ x.w = y.w
          /\ y.st \in {"unrun", "done"} => x.st \in {"unrun", "done"}
    BY <2>2, <2>3
  <2> HIDE DEF h
  <2>5. ASSUME NEW w \in Workers
        PROVE  Cardinality(Load(w)') <= Cardinality(Load(w))
    BY <2>4, LoadShrinks
  <2> QED BY <2>1, <2>5, RoomKept DEF RoomInv
<1>5. ASSUME NEW w \in Workers, NEW h, Loops(w, h)
      PROVE  RoomInv'
  <2>1. \A x \in flights' : \E f \in flights :
          /\ x = h[f] /\ x.w = f.w
          /\ f.st \in {"unrun", "done"} => x.st \in {"unrun", "done"}
    <3>1. \A x \in flights' : \E f \in flights : x = h[f]
      BY <1>5 DEF Loops
    <3>2. \A f \in flights : /\ h[f].w = f.w
                             /\ f.st \in {"unrun", "done"} => h[f].st \in {"unrun", "done"}
      BY <1>5 DEF Loops, LoopKeeps
    <3> QED BY <3>1, <3>2
  <2>2. ASSUME NEW v \in Workers
        PROVE  Cardinality(Load(v)') <= Cardinality(Load(v))
    BY <2>1, LoadShrinks
  <2>3. ASSUME NEW v \in Workers,
               worker'[v].pc = "asked" => worker[v].pc = "asked" /\ worker'[v].room = worker[v].room
        PROVE  /\ Cardinality(Load(v)') <= Concurrency
               /\ worker'[v].pc = "asked" => worker'[v].room + Cardinality(Load(v)') <= Concurrency
    BY <2>2, <2>3, RoomKept
  <2>4. \A v \in Workers : v # w => worker'[v] = worker[v]
    BY <1>5 DEF Loops
  <2>5. CASE worker'[w].pc = "asked" => worker[w].pc = "asked" /\ worker'[w].room = worker[w].room
    BY <2>3, <2>4, <2>5 DEF RoomInv
  <2>6. CASE /\ worker'[w].pc = "asked" /\ worker[w].pc = "free"
             /\ worker'[w].room = Concurrency - Cardinality(InFlight(w)) /\ flights' = flights
    <3>1. Load(w)' = InFlight(w)
      <4>1. Answered(w) = {}
        BY <2>6 DEF BaseInv, Phases, Answered
      <4> QED BY <2>6, <4>1 DEF Load, InFlight, Answered
    <3>2. Load(w) = Load(w)'
      BY <2>6 DEF Load, InFlight, Answered
    <3> DEFINE c == Cardinality(InFlight(w))
    <3>3. c \in Nat /\ Concurrency \in Nat
      BY <3>1, <3>2, LoadFacts, QueueConstants
    <3>4. c <= Concurrency
      BY <3>1, <3>2 DEF RoomInv
    <3> HIDE DEF c
    <3>5. (Concurrency - c) + c <= Concurrency
      BY <3>3
    <3>6. worker'[w].room + Cardinality(Load(w)') <= Concurrency
          /\ Cardinality(Load(w)') <= Concurrency
      BY <2>6, <3>1, <3>4, <3>5 DEF c
    <3> QED BY <2>3, <2>4, <3>6 DEF RoomInv
  <2> QED BY <1>5, <2>5, <2>6 DEF Loops
<1>6. ASSUME NEW w \in Workers, NEW S, Takes(w, S)
      PROVE  RoomInv'
  <2> DEFINE new == {ClaimedOf(i, w, claims + 1, worker[w].age) : i \in S}
  <2>1. flights' = flights \cup new
    BY <1>6 DEF Takes
  <2>2. IsFiniteSet(S) /\ Cardinality(S) <= worker[w].room /\ worker[w].pc = "asked"
        /\ worker'[w].pc # "asked" /\ \A v \in Workers : v # w => worker'[v] = worker[v]
    BY <1>6 DEF Takes
  <2>3. IsFiniteSet(new) /\ Cardinality(new) <= Cardinality(S)
    <3> DEFINE h == [i \in S |-> ClaimedOf(i, w, claims + 1, worker[w].age)]
    <3>1. h = [i \in S |-> h[i]] /\ \A x \in new : \E i \in S : x = h[i]
      OBVIOUS
    <3> HIDE DEF h, new
    <3> QED BY <2>2, <3>1, ImageBound
  <2>4. \A x \in new : x.w = w
    BY DEF ClaimedOf
  <2> HIDE DEF new
  <2>5. ASSUME NEW v \in Workers, v # w
        PROVE  /\ Cardinality(Load(v)') <= Concurrency
               /\ worker'[v].pc = "asked" => worker'[v].room + Cardinality(Load(v)') <= Concurrency
    <3>1. Load(v)' = Load(v)
      BY <2>1, <2>4, <2>5 DEF Load, InFlight, Answered
    <3> QED BY <2>2, <2>5, <3>1 DEF RoomInv
  <2>6. Cardinality(Load(w)') <= Concurrency
    <3> DEFINE a == Cardinality(Load(w))
               b == Cardinality(new)
               c == Cardinality(Load(w) \cup new)
               d == Cardinality(Load(w)')
    <3>1. IsFiniteSet(Load(w)) /\ a \in Nat /\ b \in Nat
      BY <2>3, LoadFacts, FS_CardinalityType
    <3>2. IsFiniteSet(Load(w) \cup new) /\ c <= a + b /\ c \in Nat
      <4>1. Cardinality(Load(w) \cap new) \in Nat
        BY <3>1, FS_Intersection, FS_CardinalityType
      <4>2. c = a + b - Cardinality(Load(w) \cap new) /\ IsFiniteSet(Load(w) \cup new)
        BY <2>3, <3>1, FS_Union
      <4>3. c \in Nat
        BY <4>2, FS_CardinalityType
      <4> HIDE DEF a, b, c
      <4> QED BY <3>1, <4>1, <4>2, <4>3
    <3>3. Load(w)' \in SUBSET (Load(w) \cup new)
      BY <2>1 DEF Load, InFlight, Answered
    <3>4. d <= c /\ d \in Nat
      BY <3>2, <3>3, FS_Subset, FS_CardinalityType
    <3>5. worker[w].room + a <= Concurrency /\ worker[w].room \in Nat /\ Concurrency \in Nat
      BY <1>0, <2>2, QueueConstants DEF RoomInv
    <3>6. b <= Cardinality(S) /\ Cardinality(S) <= worker[w].room /\ Cardinality(S) \in Nat
      BY <2>2, <2>3, FS_CardinalityType
    <3> HIDE DEF a, b, c, d
    <3>7. d <= Concurrency
      BY <3>1, <3>2, <3>4, <3>5, <3>6
    <3> QED BY <3>7 DEF d
  <2> QED BY <2>2, <2>5, <2>6 DEF RoomInv
<1>7. CASE UNCHANGED vars
  BY <1>1, <1>7 DEF vars
<1> QED BY <1>2, <1>3, <1>4, <1>5, <1>6, <1>7, StepKinds

LEMMA RoomStart == Init => RoomInv
<1> SUFFICES ASSUME Init PROVE RoomInv
  OBVIOUS
<1>1. \A w \in Workers : Load(w) = {} /\ worker[w].pc = "free"
  BY DEF Init, Load, InFlight, Answered, Idle
<1>2. Cardinality({}) = 0 /\ 0 <= Concurrency
  BY FS_EmptySet, QueueConstants
<1> QED BY <1>1, <1>2 DEF RoomInv

LEMMA RoomBounds == RoomInv => ConcurrencyBound
  BY DEF RoomInv, Load, ConcurrencyBound

\* A worker never has more deliveries than its concurrency, those on their way from the
\* store included (worker-loop.ts loop asks for the room that is left).
THEOREM WorkerConcurrency == Spec => []ConcurrencyBound
<1>1. RoomInv /\ BaseInv /\ BaseInv' /\ [Next]_vars => RoomInv'
  BY RoomStep
<1> QED BY <1>1, RoomStart, RoomBounds, BaseInvariant, PTL DEF Spec

-----------------------------------------------------------------------------
(* The retry budget. *)

\* The claim of f and the row agree on the attempt and on the dying mark.
Agrees(f) ==
  HeldBy(f) =>
    /\ f.attempt = rows[f.id].attempts
    /\ f.st \in {"coming", "begin"} => f.dying = rows[f.id].dying
    /\ f.st = "handler" => rows[f.id].dying = FALSE

\* How far a delivery got within the budget.
InBudget(f) ==
  /\ f.st \in {"coming", "begin"} => f.lapsed = TRUE \/ f.dying = TRUE \/ f.attempt <= Budget
  /\ f.st = "handler" => f.attempt <= Budget
  /\ f.st = "release" => f.attempt < Budget

\* Whatever waits has an attempt left or is dying.
WaitsInBudget ==
  \A i \in Ids : rows[i].st \in {"pending", "scheduled"} =>
    rows[i].attempts < Budget \/ rows[i].dying = TRUE

\* No attempt was given back: nobody shut down.
NobodyStops ==
  /\ \A w \in Workers : /\ worker[w].phase \in {"run", "stopped"}
                        /\ worker[w].pc # "free" => worker[w].phase = "run"
  /\ \A f \in flights : f.back = "no" /\ f.st # "unrun"

DueInv ==
  stops = 0 => NobodyStops /\ WaitsInBudget /\ \A f \in flights : Agrees(f) /\ InBudget(f)

\* The claims, the attempts and the marks of rows that a step leaves to their deliveries.
LEMMA DueRows ==
  ASSUME DueInv, BaseInv, stops' = 0, UNCHANGED <<flights, worker, stops>>,
         \A i \in Ids :
           \/ RowStep(i, rows'[i])
           \/ /\ rows'[i].st = rows[i].st /\ rows'[i].token = rows[i].token
              /\ rows'[i].attempts = rows[i].attempts /\ rows'[i].dying = rows[i].dying
  PROVE  NobodyStops' /\ WaitsInBudget' /\ \A f \in flights' : (Agrees(f) /\ InBudget(f))'
<1>0. /\ NobodyStops /\ WaitsInBudget /\ \A f \in flights : Agrees(f) /\ InBudget(f)
      /\ flights \subseteq FlightShape
  BY DEF DueInv, BaseInv, Shape
<1>1. NobodyStops' /\ \A f \in flights' : InBudget(f)'
  BY <1>0 DEF NobodyStops, InBudget
<1>2. WaitsInBudget'
  <2>1. 0 < Budget
    BY QueueConstants
  <2> QED BY <1>0, <2>1 DEF WaitsInBudget, RowStep
<1>3. ASSUME NEW f \in flights
      PROVE  Agrees(f)'
  <2>1. f.id \in Ids /\ Agrees(f)
    BY <1>0 DEF FlightShape
  <2>2. HeldBy(f)' => /\ HeldBy(f) /\ rows'[f.id].attempts = rows[f.id].attempts
                      /\ rows'[f.id].dying = rows[f.id].dying
    BY <2>1 DEF HeldBy, RowStep
  <2> QED BY <2>1, <2>2 DEF Agrees
<1> QED BY <1>1, <1>2, <1>3

\* A delivery that moves on keeps to the budget.
LEMMA DueDelivers ==
  ASSUME DueInv, BaseInv, BaseInv', stops' = 0, NEW f \in flights, NEW g, Delivers(f, g)
  PROVE  NobodyStops' /\ WaitsInBudget' /\ \A x \in flights' : (Agrees(x) /\ InBudget(x))'
<1> DEFINE k == Forget(g)
<1>0. /\ stops' = stops /\ worker' = worker /\ flights' = With(f, g)
      /\ Keeps(f, g) /\ GetsItsTurn(f, g) /\ RowOf(f, g)
  BY DEF Delivers
<1>1. /\ NobodyStops /\ WaitsInBudget /\ \A x \in flights : Agrees(x) /\ InBudget(x)
      /\ flights \subseteq FlightShape /\ f \in FlightShape /\ rows \in [Ids -> RowShape]
      /\ Budget \in Nat /\ f.attempt \in Nat /\ f.id \in Ids
  BY <1>0, QueueConstants DEF DueInv, BaseInv, Shape, FlightShape
<1>2. /\ k.id = f.id /\ k.token = f.token /\ k.attempt = f.attempt /\ k.st = g.st /\ k.back = g.back
      /\ g.st \in {"coming", "begin"} => k.lapsed = g.lapsed /\ k.dying = g.dying
      /\ g.st \notin {"coming", "unrun"} /\ g.back \in {"no", "sent", "done"}
      /\ g.back # "no" => f.back # "no"
  BY <1>0, ForgetFields DEF Keeps, FlightShape
<1>3. \A x \in flights' : (x \in flights /\ x # f) \/ x = k
  BY <1>0, WithMembers
<1> HIDE DEF k
<1>4. NobodyStops'
  BY <1>0, <1>1, <1>2, <1>3 DEF NobodyStops
<1>5. \A i \in Ids :
        \/ /\ rows'[i].st = rows[i].st /\ rows'[i].token = rows[i].token
           /\ rows'[i].attempts = rows[i].attempts /\ rows'[i].dying = rows[i].dying
        \/ i = f.id /\ HeldBy(f) /\ Gives(f, rows'[i])
  <2>1. CASE rows' = rows
    BY <2>1
  <2>2. CASE rows' = [rows EXCEPT ![f.id].lease = Lease]
    <3> DEFINE row == [rows[f.id] EXCEPT !.lease = Lease]
    <3>1. /\ row.st = rows[f.id].st /\ row.token = rows[f.id].token
          /\ row.attempts = rows[f.id].attempts /\ row.dying = rows[f.id].dying
      BY <1>1 DEF RowShape
    <3>2. rows' = [rows EXCEPT ![f.id] = row]
      BY <2>2
    <3> HIDE DEF row
    <3> QED BY <1>1, <3>1, <3>2
  <2>3. CASE HeldBy(f) /\ \E row : Gives(f, row) /\ rows' = [rows EXCEPT ![f.id] = row]
    BY <1>1, <2>3
  <2> QED BY <1>0, <2>1, <2>2, <2>3 DEF RowOf
<1>6. WaitsInBudget'
  <2>1. ASSUME NEW i \in Ids, i = f.id, HeldBy(f), Gives(f, rows'[i]),
               rows'[i].st \in {"pending", "scheduled"}
        PROVE  rows'[i].attempts < Budget \/ rows'[i].dying = TRUE
    <3>1. f.back = "no" /\ f.st # "unrun" /\ Agrees(f) /\ InBudget(f)
      BY <1>1 DEF NobodyStops
    <3>2. f.st = "release" => f.attempt < Budget /\ f.attempt = rows[f.id].attempts
      BY <2>1, <3>1 DEF Agrees, InBudget
    <3> QED BY <2>1, <3>1, <3>2 DEF Gives
  <2> QED BY <1>1, <1>5, <2>1 DEF WaitsInBudget
<1>7. ASSUME NEW x \in flights', HeldBy(x)'
      PROVE  /\ rows'[x.id].attempts = rows[x.id].attempts /\ rows'[x.id].dying = rows[x.id].dying
             /\ rows[x.id].st = "running" /\ rows[x.id].token = x.token
  <2>1. x.id \in Ids
    BY DEF BaseInv, Shape, FlightShape
  <2>2. ~Gives(f, rows'[x.id])
    BY <1>7 DEF HeldBy, Gives, Settled
  <2> QED BY <1>5, <1>7, <2>1, <2>2 DEF HeldBy
<1>8. ASSUME NEW x \in flights'
      PROVE  Agrees(x)' /\ InBudget(x)'
  <2>1. CASE x \in flights
    BY <1>1, <1>7, <2>1 DEF Agrees, InBudget, HeldBy
  <2>2. CASE x = k
    <3>1. Agrees(f) /\ InBudget(f)
      BY <1>1
    <3>2. InBudget(x)'
      <4>1. f.lapsed \in BOOLEAN /\ f.dying \in BOOLEAN
        BY <1>1 DEF FlightShape
      <4> QED BY <1>0, <1>1, <1>2, <2>2, <3>1, <4>1 DEF InBudget, GetsItsTurn, LapseUsedUp
    <3>3. ASSUME HeldBy(x)'
          PROVE  /\ x.attempt = rows'[x.id].attempts
                 /\ x.st \in {"coming", "begin"} => x.dying = rows'[x.id].dying
                 /\ x.st = "handler" => rows'[x.id].dying = FALSE
      <4>1. HeldBy(f) /\ rows'[f.id].attempts = rows[f.id].attempts
            /\ rows'[f.id].dying = rows[f.id].dying
        BY <1>2, <1>7, <2>2, <3>3 DEF HeldBy
      <4> QED BY <1>0, <1>2, <2>2, <3>1, <4>1 DEF Agrees, GetsItsTurn
    <3> QED BY <3>2, <3>3 DEF Agrees
  <2> QED BY <1>3, <2>1, <2>2
<1> QED BY <1>4, <1>6, <1>8

LEMMA DueTakes ==
  ASSUME DueInv, BaseInv, BaseInv', stops' = 0, NEW w \in Workers, NEW S, Takes(w, S)
  PROVE  NobodyStops' /\ WaitsInBudget' /\ \A x \in flights' : (Agrees(x) /\ InBudget(x))'
<1> DEFINE token == claims + 1
           age == worker[w].age
<1>0. /\ NobodyStops /\ WaitsInBudget /\ \A x \in flights : Agrees(x) /\ InBudget(x)
      /\ flights \subseteq FlightShape /\ rows \in [Ids -> RowShape] /\ Budget \in Nat
      /\ TokensAreOwn /\ claims \in Nat /\ token \in Nat /\ age \in Nat
  BY QueueConstants DEF DueInv, BaseInv, Shape, WorkerShape, Takes
<1>1. /\ S \subseteq Ids /\ worker[w].pc = "asked"
      /\ flights' = flights \cup {ClaimedOf(i, w, token, age) : i \in S}
      /\ worker'[w].phase = worker[w].phase /\ \A v \in Workers : v # w => worker'[v] = worker[v]
  BY DEF Takes
<1>2. /\ \A i \in S : rows[i].st = "pending" \/ Lapsed(rows[i])
      /\ \A i \in S : /\ rows'[i].st = "running" /\ rows'[i].token = token
                      /\ rows'[i].attempts = rows[i].attempts + 1 /\ rows'[i].dying = rows[i].dying
      /\ \A i \in Ids \ S : rows'[i] = rows[i] \/ rows'[i].st = "cancelled"
  BY DEF Takes
<1>3. ASSUME NEW i \in S
      PROVE  LET x == ClaimedOf(i, w, token, age)
             IN  /\ x.id = i /\ x.st = "coming" /\ x.attempt = rows[i].attempts + 1
                 /\ x.lapsed = (rows[i].st = "running") /\ x.dying = rows[i].dying /\ x.back = "no"
  <2>1. i \in Ids /\ rows[i] \in RowShape
    BY <1>0, <1>1
  <2> HIDE DEF token, age
  <2> QED BY <1>0, <2>1, ClaimedFields
<1>4. \A x \in flights' : x \in flights \/ \E i \in S : x = ClaimedOf(i, w, token, age)
  BY <1>1
<1>5. NobodyStops'
  BY <1>0, <1>1, <1>3, <1>4 DEF NobodyStops
<1>6. WaitsInBudget'
  BY <1>0, <1>2 DEF WaitsInBudget
<1>7. ASSUME NEW x \in flights
      PROVE  Agrees(x)' /\ InBudget(x)'
  <2>1. x.id \in Ids /\ x.token \in Nat /\ x.token <= claims
    BY <1>0 DEF TokensAreOwn, FlightShape
  <2>2. x.token # token
    BY <1>0, <2>1
  <2>3. HeldBy(x)' => rows'[x.id] = rows[x.id]
    BY <1>2, <2>1, <2>2 DEF HeldBy
  <2> QED BY <1>0, <2>3 DEF Agrees, InBudget, HeldBy
<1>8. ASSUME NEW i \in S, NEW x, x = ClaimedOf(i, w, token, age)
      PROVE  Agrees(x)' /\ InBudget(x)'
  <2>1. /\ x.id = i /\ x.st = "coming" /\ x.attempt = rows[i].attempts + 1
        /\ x.lapsed = (rows[i].st = "running") /\ x.dying = rows[i].dying
    BY <1>3, <1>8
  <2>2. Agrees(x)'
    BY <1>2, <2>1 DEF Agrees
  <2>3. CASE rows[i].st = "pending"
    <3>1. rows[i].attempts < Budget \/ rows[i].dying = TRUE
      BY <1>0, <1>1, <2>3 DEF WaitsInBudget
    <3>2. rows[i].attempts \in Nat
      BY <1>0, <1>1 DEF RowShape
    <3>3. x.dying = TRUE \/ x.attempt <= Budget
      BY <1>0, <2>1, <3>1, <3>2
    <3> QED BY <2>1, <2>2, <3>3 DEF InBudget
  <2>4. CASE Lapsed(rows[i])
    BY <2>1, <2>2, <2>4 DEF InBudget, Lapsed
  <2> QED BY <1>2, <2>3, <2>4
<1> QED BY <1>4, <1>5, <1>6, <1>7, <1>8

LEMMA DueStep ==
  ASSUME DueInv, BaseInv, BaseInv', [Next]_vars
  PROVE  DueInv'
<1> SUFFICES ASSUME stops' = 0
             PROVE  NobodyStops' /\ WaitsInBudget' /\ \A f \in flights' : (Agrees(f) /\ InBudget(f))'
  BY DEF DueInv
<1>0. /\ rows \in [Ids -> RowShape] /\ flights \subseteq FlightShape /\ stops \in Nat
      /\ worker \in [Workers -> WorkerShape]
  BY DEF BaseInv, Shape
<1>1. CASE UNCHANGED vars
  BY <1>1, DueRows DEF vars
<1>2. CASE Tick
  <2>1. stops = 0 /\ flights' = {Older(f) : f \in flights}
    BY <1>2 DEF Tick, Older
  <2>2. NobodyStops /\ WaitsInBudget /\ \A f \in flights : Agrees(f) /\ InBudget(f)
    BY <2>1 DEF DueInv
  <2>3. \A i \in Ids : /\ rows'[i].st = rows[i].st /\ rows'[i].token = rows[i].token
                       /\ rows'[i].attempts = rows[i].attempts /\ rows'[i].dying = rows[i].dying
    BY <1>0, <1>2, TickRows
  <2>4. \A w \in Workers : worker'[w].phase = worker[w].phase /\ worker'[w].pc = worker[w].pc
    BY <1>0, <1>2, TickWorkers
  <2>5. ASSUME NEW x \in flights'
        PROVE  x.back = "no" /\ x.st # "unrun" /\ (Agrees(x) /\ InBudget(x))'
    <3>1. PICK f \in flights : x = Older(f)
      BY <2>1
    <3>2. /\ x.id = f.id /\ x.token = f.token /\ x.st = f.st /\ x.attempt = f.attempt
          /\ x.back = f.back /\ x.lapsed = f.lapsed /\ x.dying = f.dying /\ f.id \in Ids
      BY <1>0, <3>1, OlderFields DEF FlightShape
    <3> QED BY <2>2, <2>3, <3>2 DEF Agrees, InBudget, HeldBy, NobodyStops
  <2>6. NobodyStops'
    BY <2>2, <2>4, <2>5 DEF NobodyStops
  <2>7. WaitsInBudget'
    BY <2>2, <2>3 DEF WaitsInBudget
  <2> QED BY <2>5, <2>6, <2>7
<1>3. CASE RowsMove
  <2>1. \A i \in Ids : RowStep(i, rows'[i]) \/ rows'[i] = rows[i]
    BY <1>0, <1>3 DEF RowsMove
  <2> QED BY <1>3, <2>1, DueRows DEF RowsMove
<1>4. ASSUME NEW w \in Workers, NEW h, Loops(w, h)
      PROVE  NobodyStops' /\ WaitsInBudget' /\ \A f \in flights' : (Agrees(f) /\ InBudget(f))'
  <2>1. stops = 0 /\ rows' = rows
    BY <1>0, <1>4 DEF Loops
  <2>2. NobodyStops /\ WaitsInBudget /\ \A f \in flights : Agrees(f) /\ InBudget(f)
    BY <2>1 DEF DueInv
  <2>3. ASSUME NEW x \in flights'
        PROVE  x.back = "no" /\ x.st # "unrun" /\ (Agrees(x) /\ InBudget(x))'
    <3>1. PICK f \in flights : x = h[f]
      BY <1>4 DEF Loops
    <3>2. LoopKeeps(w, f, x) /\ f.back = "no" /\ f.st # "unrun" /\ Agrees(f) /\ InBudget(f)
      BY <1>4, <2>2, <3>1 DEF Loops, NobodyStops
    <3>3. CASE x = f
      BY <2>1, <3>2, <3>3 DEF Agrees, InBudget, HeldBy
    <3>4. CASE f.w = w
      <4>1. worker[w].phase \in {"run", "stopped"} /\ (worker[w].pc # "free" => worker[w].phase = "run")
        BY <2>2 DEF NobodyStops
      <4>2. f.st = "coming" => worker[w].phase = "run"
        BY <3>4, <4>1 DEF BaseInv, Phases
      <4>3. x.st # "unrun" /\ x.back = "no" /\ (x.st = f.st \/ (f.st = "coming" /\ x.st = "begin"))
        BY <3>2, <4>1, <4>2 DEF LoopKeeps, FlightShape
      <4>4. Agrees(x)'
        BY <2>1, <3>2, <4>3 DEF LoopKeeps, Agrees, HeldBy
      <4>5. InBudget(x)'
        BY <3>2, <4>3 DEF LoopKeeps, InBudget
      <4> QED BY <4>3, <4>4, <4>5
    <3> QED BY <3>2, <3>3, <3>4 DEF LoopKeeps
  <2>4. NobodyStops'
    <3>1. \A v \in Workers : v # w => worker'[v] = worker[v]
      BY <1>4 DEF Loops
    <3>2. worker'[w].phase \in {"run", "stopping", "handing", "stopped"}
      BY DEF BaseInv, Shape, WorkerShape
    <3>3. worker'[w].phase \in {"run", "stopped"} /\ (worker'[w].pc # "free" => worker'[w].phase = "run")
      BY <1>4, <2>2, <3>2 DEF Loops, NobodyStops
    <3> QED BY <2>2, <2>3, <3>1, <3>3 DEF NobodyStops
  <2>5. WaitsInBudget'
    BY <2>1, <2>2 DEF WaitsInBudget
  <2> QED BY <2>3, <2>4, <2>5
<1> QED BY <1>1, <1>2, <1>3, <1>4, DueDelivers, DueTakes, StepKinds

\* Without a shutdown the handler is called within its budget, lapsed claims counted, and
\* never for a message that carries the dying mark (worker-loop.ts process, claim of
\* sql-queue-store.ts).
THEOREM HandlersAreDue == Spec => []HandlerIsDue
<1>1. Init => DueInv
  <2>1. SUFFICES ASSUME Init PROVE DueInv
    OBVIOUS
  <2>2. flights = {} /\ \A i \in Ids : rows[i].st = "none"
    BY <2>1 DEF Init, NoRow
  <2>3. \A w \in Workers : worker[w].phase = "run"
    BY <2>1 DEF Init, Idle
  <2> QED BY <2>2, <2>3 DEF DueInv, NobodyStops, WaitsInBudget
<1>2. DueInv /\ BaseInv /\ BaseInv' /\ [Next]_vars => DueInv'
  BY DueStep
<1>3. DueInv => HandlerIsDue
  BY DEF DueInv, HandlerIsDue, Agrees, InBudget
<1> QED BY <1>1, <1>2, <1>3, BaseInvariant, PTL DEF Spec

-----------------------------------------------------------------------------
(* The lease. *)

\* The claim whose lease the delivery f reckons with is in force, or its message cancelled.
Covered(f) ==
  \/ /\ HeldBy(f) /\ rows[f.id].lease >= f.held
     /\ f.renew = "held" => rows[f.id].lease >= f.fresh
  \/ rows[f.id].st = "cancelled"

LeaseInv ==
  /\ \A w \in Workers : worker[w].pc # "free" => worker[w].age <= MaxClaimWait
  /\ \A f \in flights : Alive(f) =>
       /\ f.held >= 1
       /\ f.st = "coming" => f.held + worker[f.w].age >= Lease
       /\ f.renew \in {"sent", "held"} => f.fresh >= f.held
       /\ Covered(f)
  /\ \A f, g \in flights : Alive(f) /\ Alive(g) /\ f.id = g.id => f = g

\* A living delivery's message is not to be had: its lease is in force or it is cancelled.
LEMMA CoveredIsTaken ==
  ASSUME LeaseInv, BaseInv, NEW f \in flights, Alive(f)
  PROVE  /\ rows[f.id].st \in {"running", "cancelled"} /\ ~Lapsed(rows[f.id])
         /\ rows[f.id].st = "running" => HeldBy(f) /\ rows[f.id].lease >= 1
<1>1. f.held >= 1 /\ Covered(f)
  BY DEF LeaseInv
<1>2. f.held \in Nat /\ rows[f.id].lease \in Nat
  <2>1. f.id \in Ids /\ f.held \in 0..Lease
    BY DEF BaseInv, Shape, FlightShape
  <2>2. rows[f.id].lease \in 0..Lease
    BY <2>1 DEF BaseInv, Shape, RowShape
  <2> QED BY <2>1, <2>2 DEF Lease
<1> QED BY <1>1, <1>2 DEF Covered, HeldBy, Lapsed

\* The claims that a step leaves alone, or settles as cancelled, go on covering.
LEMMA LeaseRows ==
  ASSUME LeaseInv, BaseInv, UNCHANGED <<flights, worker>>,
         \A i \in Ids :
           \/ rows[i].st = "cancelled" /\ rows'[i].st = "cancelled"
           \/ rows'[i].st = "cancelled"
           \/ rows[i].st \notin {"running", "cancelled"}
           \/ /\ rows'[i].st = rows[i].st /\ rows'[i].token = rows[i].token
              /\ rows'[i].lease = rows[i].lease
  PROVE  LeaseInv'
<1>1. ASSUME NEW f \in flights, Alive(f)
      PROVE  Covered(f)'
  <2>1. f.id \in Ids /\ Covered(f) /\ rows[f.id].st \in {"running", "cancelled"}
    BY <1>1, CoveredIsTaken DEF BaseInv, Shape, FlightShape, LeaseInv
  <2> QED BY <2>1 DEF Covered, HeldBy
<1> QED BY <1>1 DEF LeaseInv

LEMMA LeaseTick ==
  ASSUME LeaseInv, BaseInv, Tick, Punctual = TRUE, MaxClaimWait <= 1
  PROVE  LeaseInv'
<1>0. /\ rows \in [Ids -> RowShape] /\ flights \subseteq FlightShape
      /\ worker \in [Workers -> WorkerShape] /\ MaxClaimWait \in Nat
  BY QueueConstants DEF BaseInv, Shape
<1>1. flights' = {Older(f) : f \in flights}
  BY DEF Tick, Older
<1>2. \A f \in flights : ~GiveUpDue(f) /\ f.st # "begin"
  BY DEF Tick
<1>3. ASSUME NEW w \in Workers, worker[w].pc # "free"
      PROVE  worker'[w].pc = worker[w].pc /\ worker[w].age = 0 /\ worker'[w].age = 1
             /\ worker'[w].age <= MaxClaimWait
  <2>1. worker[w].age \in Nat
    BY <1>0 DEF WorkerShape
  <2>2. worker'[w].pc = worker[w].pc /\ worker'[w].age = worker[w].age + 1
        /\ worker[w].age < MaxClaimWait
    BY <1>0, <1>3, TickWorkers
  <2> QED BY <1>0, <2>1, <2>2
<1>4. ASSUME NEW f \in flights, Alive(f)
      PROVE  LET x == Older(f)
             IN  /\ x.held >= 1
                 /\ x.st = "coming" => x.held + worker'[x.w].age >= Lease
                 /\ x.renew \in {"sent", "held"} => x.fresh >= x.held
                 /\ Covered(x)'
  <2> DEFINE x == Older(f)
             l == rows[f.id].lease
  <2>1. /\ f \in FlightShape /\ f.id \in Ids /\ f.w \in Workers
        /\ f.held \in 0..3 /\ f.fresh \in 0..3 /\ l \in 0..3 /\ Lease = 3 /\ Margin = 1
    BY <1>0 DEF FlightShape, RowShape, Lease, Margin
  <2>2. /\ x.id = f.id /\ x.token = f.token /\ x.w = f.w /\ x.st = f.st /\ x.renew = f.renew
        /\ x.held = Less(f.held) /\ x.fresh = Less(f.fresh)
    BY <2>1, OlderFields
  <2>3. /\ rows'[f.id].st = rows[f.id].st /\ rows'[f.id].token = rows[f.id].token
        /\ rows'[f.id].lease = Less(l)
    BY <1>0, <2>1, TickRows
  <2>4. /\ f.held >= 1 /\ (f.st = "coming" => f.held + worker[f.w].age >= Lease)
        /\ (f.renew \in {"sent", "held"} => f.fresh >= f.held) /\ Covered(f)
    BY <1>4 DEF LeaseInv
  <2> HIDE DEF x, l
  <2>5. CASE f.st = "coming"
    <3>1. worker[f.w].age = 0 /\ worker'[f.w].age = 1
      BY <1>3, <2>1, <2>5 DEF BaseInv, Phases
    <3>2. f.held = 3
      BY <2>1, <2>4, <2>5, <3>1
    <3>3. x.held = 2
      BY <2>2, <3>2 DEF Less
    <3>4. f.renew = "none"
      BY <2>5 DEF BaseInv, Phases
    <3>5. Covered(x)'
      <4>1. CASE HeldBy(f) /\ l >= f.held
        <5>1. Less(l) >= x.held
          BY <2>1, <3>2, <3>3, <4>1 DEF Less
        <5> QED BY <2>2, <2>3, <3>4, <4>1, <5>1 DEF Covered, HeldBy
      <4>2. CASE rows[f.id].st = "cancelled"
        BY <2>2, <2>3, <4>2 DEF Covered
      <4> QED BY <2>4, <4>1, <4>2 DEF Covered, l
    <3> QED BY <2>1, <2>2, <3>1, <3>3, <3>4, <3>5 DEF x
  <2>6. CASE f.st # "coming"
    <3>1. f.back = "no"
      BY <1>4, <2>1 DEF BaseInv, Phases, Alive, FlightShape
    <3>2. f.held > 1
      BY <1>2, <1>4, <2>1, <2>6, <3>1 DEF GiveUpDue, Alive
    <3>3. x.held = f.held - 1 /\ x.held >= 1
      BY <2>1, <2>2, <3>2 DEF Less
    <3>4. f.fresh >= f.held => x.fresh >= x.held
      BY <2>1, <2>2, <3>2 DEF Less
    <3>5. Covered(x)'
      <4>1. CASE HeldBy(f) /\ l >= f.held /\ (f.renew = "held" => l >= f.fresh)
        <5>1. Less(l) >= x.held
          BY <2>1, <3>2, <3>3, <4>1 DEF Less
        <5>2. l >= f.fresh => Less(l) >= x.fresh
          BY <2>1, <2>2 DEF Less
        <5> QED BY <2>2, <2>3, <4>1, <5>1, <5>2 DEF Covered, HeldBy
      <4>2. CASE rows[f.id].st = "cancelled"
        BY <2>2, <2>3, <4>2 DEF Covered
      <4> QED BY <2>4, <4>1, <4>2 DEF Covered, l
    <3> QED BY <2>2, <2>4, <2>6, <3>3, <3>4, <3>5 DEF x
  <2> QED BY <2>5, <2>6
<1>5. \A f \in flights : /\ Alive(Older(f)) <=> Alive(f)
                         /\ Older(f).id = f.id
  BY <1>0, OlderFields DEF Alive
<1>6. \A w \in Workers : worker'[w].pc # "free" => worker'[w].age <= MaxClaimWait
  <2>1. \A w \in Workers : worker'[w].pc = worker[w].pc
    BY <1>0, TickWorkers
  <2> QED BY <1>3, <2>1
<1>7. \A x \in flights' : \E f \in flights : x = Older(f)
  BY <1>1
<1>8. \A x, y \in flights' : Alive(x) /\ Alive(y) /\ x.id = y.id => x = y
  BY <1>5, <1>7 DEF LeaseInv
<1> QED BY <1>4, <1>5, <1>6, <1>7, <1>8 DEF LeaseInv

LEMMA LeaseDelivers ==
  ASSUME LeaseInv, BaseInv, NEW f \in flights, NEW g, Delivers(f, g)
  PROVE  LeaseInv'
<1> DEFINE k == Forget(g)
<1>0. /\ worker' = worker /\ flights' = With(f, g)
      /\ Keeps(f, g) /\ Reckons(f, g) /\ RowOf(f, g)
  BY DEF Delivers
<1>1. /\ flights \subseteq FlightShape /\ f \in FlightShape /\ rows \in [Ids -> RowShape]
      /\ f.id \in Ids /\ g \in FlightShape /\ TokensAreOwn
      /\ f.held \in 0..3 /\ f.fresh \in 0..3 /\ g.held \in 0..3 /\ g.fresh \in 0..3 /\ Lease = 3
  BY <1>0 DEF BaseInv, Shape, FlightShape, Keeps, Lease
<1>2. /\ k.id = f.id /\ k.token = f.token /\ k.w = f.w /\ k.st = g.st /\ k.renew = g.renew
      /\ k.ending = g.ending
      /\ Alive(g) => k.held = g.held /\ k.fresh = g.fresh
      /\ g.st \notin {"coming", "unrun"} /\ (Alive(g) => Alive(f)) /\ (Alive(k) => Alive(g))
  BY <1>0, ForgetFields DEF Keeps, Alive
<1>3. \A x \in flights' : (x \in flights /\ x # f) \/ x = k
  BY <1>0, WithMembers
<1> HIDE DEF k
<1>4. ASSUME NEW x \in flights, x # f, Alive(x)
      PROVE  Covered(x)'
  <2>1. x.id \in Ids /\ Covered(x) /\ rows[x.id].st \in {"running", "cancelled"}
    BY <1>1, <1>4, CoveredIsTaken DEF FlightShape, LeaseInv
  <2>2. x.id = f.id => ~HeldBy(f) \/ ~HeldBy(x)
    BY <1>1, <1>4 DEF HeldBy, TokensAreOwn
  <2>3. HeldBy(f) /\ x.id = f.id => rows[x.id].st # "cancelled"
    BY DEF HeldBy
  <2>4. rows'[x.id] = rows[x.id]
    BY <1>0, <1>1, <2>1, <2>2, <2>3 DEF RowOf, Covered
  <2> QED BY <2>1, <2>4 DEF Covered, HeldBy
<1>5. ASSUME Alive(k)
      PROVE  /\ k.held >= 1 /\ k.st # "coming"
             /\ k.renew \in {"sent", "held"} => k.fresh >= k.held
             /\ Covered(k)'
  <2>1. /\ f.held >= 1 /\ (f.renew \in {"sent", "held"} => f.fresh >= f.held) /\ Covered(f)
        /\ Alive(g) /\ k.held = g.held /\ k.fresh = g.fresh
    BY <1>2, <1>5 DEF LeaseInv
  <2>2. /\ g.held = f.held \/ (f.renew = "held" /\ g.renew = "none" /\ g.held = f.fresh)
        /\ g.renew \in {"sent", "held"} =>
             /\ g.held = f.held
             /\ g.fresh = 3 \/ (f.renew \in {"sent", "held"} /\ g.fresh = f.fresh)
    BY <1>0, <1>1, <2>1 DEF Reckons
  <2>3. g.held >= 1 /\ (g.renew \in {"sent", "held"} => g.fresh >= g.held)
    BY <1>1, <2>1, <2>2
  <2>4. Covered(k)'
    <3>1. CASE rows' = rows /\ (g.renew = "held" => f.renew = "held" /\ g.fresh = f.fresh)
      <4>1. rows[f.id].lease \in 0..3
        BY <1>1 DEF RowShape
      <4>2. CASE rows[f.id].st = "cancelled"
        BY <1>2, <3>1, <4>2 DEF Covered
      <4>3. CASE HeldBy(f) /\ rows[f.id].lease >= f.held
                 /\ (f.renew = "held" => rows[f.id].lease >= f.fresh)
        <5>1. rows[f.id].lease >= k.held
          BY <2>1, <2>2, <4>3
        <5>2. k.renew = "held" => rows[f.id].lease >= k.fresh
          BY <1>2, <2>1, <3>1, <4>3
        <5> QED BY <1>2, <3>1, <4>3, <5>1, <5>2 DEF Covered, HeldBy
      <4> QED BY <2>1, <4>2, <4>3 DEF Covered
    <3>2. CASE HeldBy(f) /\ g.renew = "held" /\ rows' = [rows EXCEPT ![f.id].lease = Lease]
      <4> DEFINE row == [rows[f.id] EXCEPT !.lease = Lease]
      <4>1. row.st = rows[f.id].st /\ row.token = rows[f.id].token /\ row.lease = Lease
        BY <1>1 DEF RowShape
      <4>2. rows' = [rows EXCEPT ![f.id] = row]
        BY <3>2
      <4> HIDE DEF row
      <4>3. rows'[f.id] = row
        BY <1>1, <4>2
      <4> QED BY <1>1, <1>2, <2>1, <3>2, <4>1, <4>3 DEF Covered, HeldBy
    <3>3. CASE \E row : /\ Gives(f, row) /\ rows' = [rows EXCEPT ![f.id] = row]
                        /\ Alive(g) => row.st = "cancelled"
      <4>1. rows'[f.id].st = "cancelled"
        BY <1>1, <2>1, <3>3
      <4> QED BY <1>2, <4>1 DEF Covered
    <3> QED BY <1>0, <3>1, <3>2, <3>3 DEF RowOf
  <2> QED BY <1>2, <2>1, <2>3, <2>4
<1>6. \A x, y \in flights' : Alive(x) /\ Alive(y) /\ x.id = y.id => x = y
  BY <1>2, <1>3 DEF LeaseInv
<1> QED BY <1>0, <1>3, <1>4, <1>5, <1>6 DEF LeaseInv

LEMMA LeaseLoops ==
  ASSUME LeaseInv, BaseInv, BaseInv', NEW w \in Workers, NEW h, Loops(w, h)
  PROVE  LeaseInv'
<1>0. MaxClaimWait \in Nat /\ flights \subseteq FlightShape
  BY QueueConstants DEF BaseInv, Shape
<1>1. /\ rows' = rows /\ \A v \in Workers : v # w => worker'[v] = worker[v]
      /\ \A x \in flights' : \E f \in flights : x = h[f]
      /\ \A f \in flights : LoopKeeps(w, f, h[f])
  BY DEF Loops
<1>2. worker'[w].pc # "free" =>
        \/ worker'[w].pc = worker[w].pc /\ worker'[w].age = worker[w].age
        \/ worker'[w].pc = "asked" /\ worker'[w].age = 0
  BY DEF Loops
<1>3. \A v \in Workers : worker'[v].pc # "free" => worker'[v].age <= MaxClaimWait
  BY <1>0, <1>1, <1>2 DEF LeaseInv
<1>4. ASSUME NEW f \in flights
      PROVE  /\ h[f].id = f.id /\ h[f].token = f.token /\ h[f].w = f.w /\ h[f].held = f.held
             /\ h[f].fresh = f.fresh /\ h[f].renew = f.renew
             /\ h[f].st = "coming" => f.st = "coming"
             /\ Alive(h[f]) => Alive(f)
  BY <1>1 DEF LoopKeeps, Alive
<1>5. ASSUME NEW x \in flights', Alive(x)
      PROVE  /\ x.held >= 1
             /\ x.st = "coming" => x.held + worker'[x.w].age >= Lease
             /\ x.renew \in {"sent", "held"} => x.fresh >= x.held
             /\ Covered(x)'
  <2>1. PICK f \in flights : x = h[f]
    BY <1>1
  <2>2. /\ f.held >= 1 /\ (f.st = "coming" => f.held + worker[f.w].age >= Lease)
        /\ (f.renew \in {"sent", "held"} => f.fresh >= f.held) /\ Covered(f)
    BY <1>4, <1>5, <2>1 DEF LeaseInv
  <2>3. x.st = "coming" => worker'[x.w].age = worker[x.w].age
    <3>1. x.st = "coming" => worker'[x.w].pc = "answered" /\ x.w \in Workers
      BY DEF BaseInv, Phases, Shape, FlightShape
    <3> QED BY <1>1, <1>2, <3>1
  <2>4. Covered(x)'
    BY <1>1, <1>4, <2>1, <2>2 DEF Covered, HeldBy
  <2> QED BY <1>4, <2>1, <2>2, <2>3, <2>4
<1>6. \A x, y \in flights' : Alive(x) /\ Alive(y) /\ x.id = y.id => x = y
  BY <1>1, <1>4 DEF LeaseInv
<1> QED BY <1>3, <1>5, <1>6 DEF LeaseInv

LEMMA LeaseTakes ==
  ASSUME LeaseInv, BaseInv, BaseInv', MaxClaimWait <= 1, NEW w \in Workers, NEW S, Takes(w, S)
  PROVE  LeaseInv'
<1> DEFINE token == claims + 1
           age == worker[w].age
<1>0. /\ flights \subseteq FlightShape /\ rows \in [Ids -> RowShape] /\ MaxClaimWait \in Nat
      /\ claims \in Nat /\ token \in Nat /\ age \in Nat
  BY QueueConstants DEF BaseInv, Shape, WorkerShape
<1>1. /\ S \subseteq Ids /\ worker[w].pc = "asked"
      /\ flights' = flights \cup {ClaimedOf(i, w, token, age) : i \in S}
      /\ (S # {} => worker'[w].age = age) /\ (S = {} => worker'[w].pc = "free")
      /\ \A v \in Workers : v # w => worker'[v] = worker[v]
  BY DEF Takes
<1>2. /\ \A i \in S : rows[i].st = "pending" \/ Lapsed(rows[i])
      /\ \A i \in S : rows'[i].st = "running" /\ rows'[i].token = token /\ rows'[i].lease = Lease
      /\ \A i \in Ids \ S : rows'[i] = rows[i] \/ rows'[i].st = "cancelled"
  BY DEF Takes
<1>3. age <= 1 /\ age <= MaxClaimWait
  BY <1>0, <1>1 DEF LeaseInv
<1>4. ASSUME NEW i \in S
      PROVE  LET x == ClaimedOf(i, w, token, age)
             IN  /\ x.id = i /\ x.token = token /\ x.w = w /\ x.st = "coming" /\ x.renew = "none"
                 /\ x.held = 3 - age
  <2>1. i \in Ids /\ rows[i] \in RowShape
    BY <1>0, <1>1
  <2>2. (IF age > Lease THEN 0 ELSE Lease - age) = 3 - age
    BY <1>0, <1>3 DEF Lease
  <2> HIDE DEF token, age
  <2> QED BY <1>0, <2>1, <2>2, ClaimedFields
<1>5. \A x \in flights' : x \in flights \/ \E i \in S : x = ClaimedOf(i, w, token, age)
  BY <1>1
<1>6. \A f \in flights : Alive(f) => f.id \notin S
  BY <1>2, CoveredIsTaken
<1>7. ASSUME NEW x \in flights, Alive(x)
      PROVE  /\ x.held >= 1
             /\ x.st = "coming" => x.held + worker'[x.w].age >= Lease
             /\ x.renew \in {"sent", "held"} => x.fresh >= x.held
             /\ Covered(x)'
  <2>1. /\ x.held >= 1 /\ (x.st = "coming" => x.held + worker[x.w].age >= Lease)
        /\ (x.renew \in {"sent", "held"} => x.fresh >= x.held) /\ Covered(x)
        /\ x.id \in Ids /\ x.w \in Workers
    BY <1>0, <1>7 DEF LeaseInv, FlightShape
  <2>2. x.st = "coming" => x.w # w
    BY <1>1 DEF BaseInv, Phases
  <2>3. rows'[x.id] = rows[x.id] \/ rows'[x.id].st = "cancelled"
    BY <1>2, <1>6, <1>7, <2>1
  <2>4. Covered(x)'
    BY <2>1, <2>3 DEF Covered, HeldBy
  <2> QED BY <1>1, <2>1, <2>2, <2>4
<1>8. ASSUME NEW i \in S, NEW x, x = ClaimedOf(i, w, token, age)
      PROVE  /\ x.held >= 1
             /\ x.st = "coming" => x.held + worker'[x.w].age >= Lease
             /\ x.renew \in {"sent", "held"} => x.fresh >= x.held
             /\ Covered(x)'
  <2>1. /\ x.id = i /\ x.token = token /\ x.w = w /\ x.renew = "none" /\ x.held = 3 - age
    BY <1>4, <1>8
  <2>2. worker'[w].age = age
    BY <1>1
  <2> HIDE DEF age
  <2>3. x.held >= 1 /\ x.held + age >= 3 /\ 3 >= x.held /\ Lease = 3
    BY <1>0, <1>3, <2>1 DEF Lease
  <2>4. Covered(x)'
    BY <1>2, <2>1, <2>3 DEF Covered, HeldBy
  <2> QED BY <2>1, <2>2, <2>3, <2>4
<1>9. \A x, y \in flights' : Alive(x) /\ Alive(y) /\ x.id = y.id => x = y
  <2>1. \A x, y \in flights : Alive(x) /\ Alive(y) /\ x.id = y.id => x = y
    BY DEF LeaseInv
  <2>2. \A i \in S : ClaimedOf(i, w, token, age).id = i
    BY <1>4
  <2> HIDE DEF token, age
  <2> QED BY <1>5, <1>6, <2>1, <2>2
<1>10. \A v \in Workers : worker'[v].pc # "free" => worker'[v].age <= MaxClaimWait
  BY <1>1, <1>3 DEF LeaseInv
<1> QED BY <1>5, <1>7, <1>8, <1>9, <1>10 DEF LeaseInv

LEMMA LeaseStep ==
  ASSUME LeaseInv, BaseInv, BaseInv', [Next]_vars,
         Punctual = TRUE, MaxClaimWait <= 1, "expire" \notin Ops
  PROVE  LeaseInv'
<1>0. rows \in [Ids -> RowShape]
  BY DEF BaseInv, Shape
<1>1. CASE UNCHANGED vars
  BY <1>1, LeaseRows DEF vars
<1>2. CASE RowsMove
  <2>1. \A i \in Ids : rows'[i] = rows[i] \/ RowStep(i, rows'[i])
    BY <1>0, <1>2 DEF RowsMove
  <2>2. \A i \in Ids : RowStep(i, rows'[i]) =>
          \/ rows'[i].st = "cancelled"
          \/ rows[i].st \notin {"running", "cancelled"}
          \/ /\ rows'[i].st = rows[i].st /\ rows'[i].token = rows[i].token
             /\ rows'[i].lease = rows[i].lease
    BY DEF RowStep
  <2> QED BY <1>2, <2>1, <2>2, LeaseRows DEF RowsMove
<1> QED BY <1>1, <1>2, LeaseTick, LeaseDelivers, LeaseLoops, LeaseTakes, StepKinds

\* With timers that fire when due, claims answered within a third of the lease and messages
\* kept longer than it, the lease of a running handler's own claim is in force at the store,
\* for as long at least as the worker reckons (worker-loop.ts renewLease and its give-up timer).
THEOREM LeaseCovers ==
  ASSUME Punctual = TRUE, MaxClaimWait <= 1, "expire" \notin Ops
  PROVE  Spec => [](LeaseCoversHandler /\ SoleDelivery)
<1>1. Init => LeaseInv
  <2>1. SUFFICES ASSUME Init PROVE LeaseInv
    OBVIOUS
  <2>2. flights = {} /\ \A w \in Workers : worker[w].pc = "free"
    BY <2>1 DEF Init, Idle
  <2> QED BY <2>2 DEF LeaseInv
<1>2. LeaseInv /\ BaseInv /\ BaseInv' /\ [Next]_vars => LeaseInv'
  BY LeaseStep
<1>3. LeaseInv /\ BaseInv => LeaseCoversHandler /\ SoleDelivery
  <2>1. SUFFICES ASSUME LeaseInv, BaseInv PROVE LeaseCoversHandler /\ SoleDelivery
    OBVIOUS
  <2>2. \A f \in flights : Active(f) => Alive(f)
    BY DEF Active, Alive, Running
  <2>3. ASSUME NEW f \in flights, Alive(f)
        PROVE  \/ HeldBy(f) /\ rows[f.id].lease > 0 /\ rows[f.id].lease >= f.held
               \/ rows[f.id].st = "cancelled"
    <3>1. Covered(f) /\ f.held >= 1 /\ f.held \in 0..3 /\ f.id \in Ids
      BY <2>1, <2>3 DEF LeaseInv, BaseInv, Shape, FlightShape, Lease
    <3>2. rows[f.id].lease \in 0..3
      BY <2>1, <3>1 DEF BaseInv, Shape, RowShape, Lease
    <3> QED BY <3>1, <3>2 DEF Covered
  <2> QED BY <2>1, <2>2, <2>3 DEF LeaseCoversHandler, SoleDelivery, LeaseInv
<1> QED BY <1>1, <1>2, <1>3, BaseInvariant, PTL DEF Spec
=============================================================================
