--------------------------- MODULE IdempotencyOnce ---------------------------
(***************************************************************************)
(* Idempotency.Once over one key of a KvStore.Store: claim, run the body   *)
(* under a heartbeat that renews the claim, then settle or release.        *)
(*                                                                         *)
(* A store operation is one step.  A renewal is a read, a write and an     *)
(* answer, sent by a timer nobody waits for, so it overlaps the end of the *)
(* body and the settlement.  Every call is in a process of its own.        *)
(***************************************************************************)
EXTENDS Naturals, FiniteSets, KvStore

CONSTANTS
  Calls,         \* calls of Idempotency.Once with one key
  MaxBeats,      \* bound on the heartbeats of one call
  MaxLapses,     \* bound on claims lapsing under a call that works
  MaxExpiries,   \* bound on settled records reaching the end of their retention
  MaxFaults      \* bound on processes dying and store calls failing

Beats == 1..MaxBeats

ASSUME OnceConstants ==
  /\ {MaxBeats, MaxLapses, MaxExpiries, MaxFaults} \subseteq Nat
  /\ Nobody \notin Calls
  /\ NoCell \notin Cells(Calls, Calls \X (0..(MaxBeats + 1)))

VARIABLES
  cell,       \* the key's record in the store
  call,       \* call[c]: where the invocation stands
  beat,       \* beat[c][i]: the i-th renewal of c's heartbeat
  performed,  \* history: the calls whose body returned
  spent       \* lapses, expiries and faults so far

onceVars == <<cell, call, beat, performed, spent>>

\* The revisions a call writes: its claim, its renewals, its settlement.
Versions == Calls \X (0..(MaxBeats + 1))
ClaimVersion(c)   == <<c, 0>>
BeatVersion(c, i) == <<c, i>>
SettleVersion(c)  == <<c, MaxBeats + 1>>

\* "body", "settle", "release": the call acts on a claim it won.
Working == {"body", "settle", "release"}
Answers == {"fresh", "replayed", "inflight", "threw", "lost", "failed"}
CallStates == {"idle", "read", "dead"} \cup Working \cup Answers

OnceInit ==
  /\ cell = NoCell
  /\ call = [c \in Calls |-> [st |-> "idle", version |-> ClaimVersion(c), value |-> Nobody]]
  /\ beat = [c \in Calls |-> [i \in Beats |-> [st |-> "none", version |-> ClaimVersion(c)]]]
  /\ performed = {}
  /\ spent = [lapses |-> 0, expiries |-> 0, faults |-> 0]

Goes(c, st) == call' = [call EXCEPT ![c].st = st]
Spend(what, max) == spent[what] < max /\ spent' = [spent EXCEPT ![what] = @ + 1]

-----------------------------------------------------------------------------
(* KeyedClaim.claim. *)

\* One conditional write decides who owns the key.
Claim(c) ==
  /\ call[c].st = "idle"
  /\ cell' = PutIfAbsent(cell, Cell(c, FALSE, ClaimVersion(c)))
  /\ Goes(c, IF Live(cell) THEN "read" ELSE "body")
  /\ UNCHANGED <<beat, performed, spent>>

\* The claim may have been taken when its answer is lost: nobody works under it.
ClaimFails(c) ==
  /\ call[c].st = "idle"
  /\ cell' \in {cell, PutIfAbsent(cell, Cell(c, FALSE, ClaimVersion(c)))}
  /\ Goes(c, "failed")
  /\ Spend("faults", MaxFaults)
  /\ UNCHANGED <<beat, performed>>

\* Mutant: the value of a claim that is not settled is replayed.
ReadWinner_AnyRecord(c) ==
  /\ call[c].st = "read"
  /\ call' = [call EXCEPT ![c].st = IF Live(cell) THEN "replayed" ELSE "inflight",
                          ![c].value = IF Live(cell) THEN cell.holder ELSE Nobody]
  /\ UNCHANGED <<cell, beat, performed, spent>>

\* Mutant: a record gone by now is taken for a claim won.
ReadWinner_Proceeds(c) ==
  /\ call[c].st = "read"
  /\ call' = [call EXCEPT ![c].st = IF ~Live(cell) THEN "body"
                                   ELSE IF cell.settled THEN "replayed" ELSE "inflight",
                          ![c].value = IF Live(cell) THEN cell.holder ELSE Nobody]
  /\ UNCHANGED <<cell, beat, performed, spent>>

\* A loser reads who won.  A record gone by now reads as held.
ReadWinner(c) ==
  /\ call[c].st = "read"
  /\ call' = [call EXCEPT ![c].st = IF Live(cell) /\ cell.settled
                                   THEN "replayed" ELSE "inflight",
                          ![c].value = IF Live(cell) THEN cell.holder ELSE Nobody]
  /\ UNCHANGED <<cell, beat, performed, spent>>

-----------------------------------------------------------------------------
(* The heartbeat.  It is cleared when the body returned, and when the release *)
(* after a failed body has been answered.                                     *)

FireBeat(c) ==
  /\ call[c].st \in {"body", "release"}
  /\ \E i \in Beats :
       /\ beat[c][i].st = "none"
       /\ \A j \in 1..(i - 1) : beat[c][j].st # "none"
       /\ beat' = [beat EXCEPT ![c][i] = [st |-> "get", version |-> call[c].version]]
  /\ UNCHANGED <<cell, call, performed, spent>>

BeatBecomes(c, i, st) == beat' = [beat EXCEPT ![c][i].st = st]

\* renew reads the record first, and stops when it is not the one it knows ...
BeatRead(c, i) ==
  /\ beat[c][i].st = "get"
  /\ BeatBecomes(c, i, IF Current(cell, beat[c][i].version) /\ ~cell.settled
                       THEN "set" ELSE "over")
  /\ UNCHANGED <<cell, call, performed, spent>>

\* ... then rewrites it, if it still is.
BeatWrite(c, i) ==
  LET v == beat[c][i].version IN
  /\ beat[c][i].st = "set"
  /\ cell' = CompareAndSet(cell, v, Cell(c, FALSE, BeatVersion(c, i)))
  /\ BeatBecomes(c, i, IF Current(cell, v) THEN "answer" ELSE "over")
  /\ UNCHANGED <<call, performed, spent>>

\* The answer threads the revision forward.
BeatAnswer(c, i) ==
  /\ beat[c][i].st = "answer"
  /\ BeatBecomes(c, i, "over")
  /\ call' = [call EXCEPT ![c].version = BeatVersion(c, i)]
  /\ UNCHANGED <<cell, performed, spent>>

\* A renewal fails, before or after the store executed its write: only logged.
BeatFails(c, i) ==
  /\ beat[c][i].st \in {"get", "set", "answer"}
  /\ BeatBecomes(c, i, "over")
  /\ Spend("faults", MaxFaults)
  /\ UNCHANGED <<cell, call, performed>>

-----------------------------------------------------------------------------
(* The body, and how it ends. *)

BodyReturns(c) ==
  /\ call[c].st = "body"
  /\ performed' = performed \cup {c}
  /\ Goes(c, "settle")
  /\ UNCHANGED <<cell, beat, spent>>

BodyThrows(c) ==
  /\ call[c].st = "body"
  /\ Goes(c, "release")
  /\ UNCHANGED <<cell, beat, performed, spent>>

\* Mutant: a settlement that failed is taken for a success.
Settle_Unchecked(c) ==
  /\ call[c].st = "settle"
  /\ cell' = CompareAndSet(cell, call[c].version, Cell(c, TRUE, SettleVersion(c)))
  /\ Goes(c, "fresh")
  /\ UNCHANGED <<beat, performed, spent>>

\* The record is the caller's last word, or ERR_CLAIM_LOST.
Settle(c) ==
  /\ call[c].st = "settle"
  /\ cell' = CompareAndSet(cell, call[c].version, Cell(c, TRUE, SettleVersion(c)))
  /\ Goes(c, IF Current(cell, call[c].version) THEN "fresh" ELSE "lost")
  /\ UNCHANGED <<beat, performed, spent>>

\* The store fails while settling: the key is not released.
SettleFails(c) ==
  /\ call[c].st = "settle"
  /\ cell' \in {cell, CompareAndSet(cell, call[c].version, Cell(c, TRUE, SettleVersion(c)))}
  /\ Goes(c, "failed")
  /\ Spend("faults", MaxFaults)
  /\ UNCHANGED <<beat, performed>>

\* Mutant: the key is deleted whoever holds it.
ReleaseKey_Anyones(c) ==
  /\ call[c].st = "release"
  /\ cell' = NoCell
  /\ Goes(c, "threw")
  /\ UNCHANGED <<beat, performed, spent>>

\* A failed body frees the key and its error reaches the caller.
ReleaseKey(c) ==
  /\ call[c].st = "release"
  /\ cell' = CompareAndDelete(cell, call[c].version)
  /\ Goes(c, "threw")
  /\ UNCHANGED <<beat, performed, spent>>

ReleaseFails(c) ==
  /\ call[c].st = "release"
  /\ cell' \in {cell, CompareAndDelete(cell, call[c].version)}
  /\ Goes(c, "failed")
  /\ Spend("faults", MaxFaults)
  /\ UNCHANGED <<beat, performed>>

-----------------------------------------------------------------------------
(* Time and processes. *)

\* claimTtl passes.  Under a call that works it takes late or failed renewals.
LapseClaim ==
  /\ Claimant(cell) # Nobody
  /\ cell' = Lapsed(cell)
  /\ IF call[cell.holder].st \in Working THEN Spend("lapses", MaxLapses) ELSE UNCHANGED spent
  /\ UNCHANGED <<call, beat, performed>>

\* The retention `ttl` of a settled record passes.
ExpireRecord ==
  /\ Live(cell) /\ cell.settled
  /\ cell' = Lapsed(cell)
  /\ Spend("expiries", MaxExpiries)
  /\ UNCHANGED <<call, beat, performed>>

\* What its process's death leaves of a renewal: a write that was sent may still be executed.
Orphaned(b) == [b EXCEPT !.st = IF @ \in {"get", "answer"} THEN "over" ELSE @]

\* The process dies.
Die(c) ==
  /\ call[c].st \in {"read"} \cup Working
  /\ Goes(c, "dead")
  /\ beat' = [beat EXCEPT ![c] = [i \in Beats |-> Orphaned(beat[c][i])]]
  /\ Spend("faults", MaxFaults)
  /\ UNCHANGED <<cell, performed>>

OnceNext ==
  \/ \E c \in Calls :
       \/ Claim(c) \/ ClaimFails(c) \/ ReadWinner(c) \/ FireBeat(c)
       \/ BodyReturns(c) \/ BodyThrows(c) \/ Settle(c) \/ SettleFails(c)
       \/ ReleaseKey(c) \/ ReleaseFails(c) \/ Die(c)
       \/ \E i \in Beats : \/ BeatRead(c, i) \/ BeatWrite(c, i)
                          \/ BeatAnswer(c, i) \/ BeatFails(c, i)
  \/ LapseClaim \/ ExpireRecord

OnceSpec == OnceInit /\ [][OnceNext]_onceVars

-----------------------------------------------------------------------------
(* Properties. *)

OnceTypeOK ==
  /\ cell \in Cells(Calls, Versions) \cup {NoCell}
  /\ call \in [Calls -> [st : CallStates, version : Versions, value : Calls \cup {Nobody}]]
  /\ beat \in [Calls -> [Beats -> [st : {"none", "get", "set", "answer", "over"},
                                   version : Versions]]]
  /\ performed \subseteq Calls
  /\ spent \in [lapses : 0..MaxLapses, expiries : 0..MaxExpiries, faults : 0..MaxFaults]

\* As long as the retention lasts, one call is told `fresh`, and whoever replays gets
\* that call's result (or one whose answer was lost on the way), whatever lapses,
\* crashes or is renewed late (once.ts settle, "the guarantee is already broken and
\* the caller must hear about it").  A replayed result is in any case one whose body
\* really returned: no claim, and no failed body, is ever replayed (once.ts, "Failure is
\* never settled").
OnceAnswers ==
  /\ \A c \in Calls : call[c].st = "replayed" => call[c].value \in performed
  /\ spent.expiries = 0 =>
    /\ \A c, d \in Calls : call[c].st = "fresh" /\ call[d].st = "fresh" => c = d
    /\ \A c, d \in Calls : call[c].st = "replayed" /\ call[d].st = "replayed"
                             => call[c].value = call[d].value
    /\ \A c, d \in Calls : call[c].st = "replayed" /\ call[d].st = "fresh"
                             => call[c].value = d

\* Without a lapse no two calls act on the key together: neither a renewal in flight
\* nor the release of a call whose claim is over lets a second body in.
SoleWorker ==
  spent.lapses = 0 =>
    \A c, d \in Calls : call[c].st \in Working /\ call[d].st \in Working => c = d

\* A live claim ends by its own holder's hand or not at all (KeyedClaim, "a holder
\* whose claim lapsed cannot touch a record its successor has since written").
SuccessorIsSafe ==
  [][\A c \in Calls : Claimant(cell) = c /\ Claimant(cell') # c /\ Live(cell) =>
       \/ cell' = Lapsed(cell)
       \/ call[c].st \in {"settle", "release"}]_onceVars

-----------------------------------------------------------------------------
(* Statements of the source that the code does not keep. *)

\* once.ts: ERR_CLAIM_LOST says the claim was no longer held.
LostMeansLost ==
  [][\A c \in Calls : call[c].st = "settle" /\ call'[c].st = "lost"
                       => Claimant(cell) # c]_onceVars

\* telo.yaml, README: at most once per key.  When nothing fails, lapses under a
\* working call or expires, no body runs after one has returned.
AtMostOnce ==
  spent = [lapses |-> 0, expiries |-> 0, faults |-> 0] => Cardinality(performed) <= 1

\* once.ts: a body that throws releases the key so the operation stays retryable.
ThrowFrees ==
  [][\A c \in Calls : call[c].st = "release" /\ call'[c].st = "threw"
                       => Claimant(cell') # c]_onceVars
==============================================================================
