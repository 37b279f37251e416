---------------------------- MODULE QueueGroups ----------------------------
(***************************************************************************)
(* One group of a grouped SqlQueueStore on an engine that runs             *)
(* transactions concurrently (READ COMMITTED, row locks).  An enqueue gets *)
(* its place, seq, when it inserts and becomes visible when its            *)
(* transaction commits; a claim reads its candidate and locks it, and      *)
(* marks it running when it commits.                                       *)
(***************************************************************************)
EXTENDS Naturals

CONSTANTS
  N,         \* messages of the group
  Claimers,  \* claim transactions under way at once
  InOrder,   \* whether enqueues commit in the order they inserted
  LateRenew  \* whether a renewal may be executed after its lease lapsed

ASSUME GroupConstants == N \in Nat /\ {InOrder, LateRenew} \subseteq BOOLEAN

Seqs == 1..N
Nothing == 0

VARIABLES
  st,      \* st[s]: the committed state of the message with place s
  open,    \* the places inserted by transactions that have not committed
  last,    \* the last place given
  picked   \* picked[c]: the row claim c has locked

vars == <<st, open, last, picked>>

\* "scheduled" waits for its visibility time; "lapsed" is running with its lease over.
States == {"none", "scheduled", "pending", "running", "lapsed", "dead", "settled"}
Unsettled == {"scheduled", "pending", "running", "lapsed", "dead"}

Init ==
  /\ st = [s \in Seqs |-> "none"] /\ open = {} /\ last = 0
  /\ picked = [c \in Claimers |-> Nothing]

-----------------------------------------------------------------------------
(* Enqueueing transactions. *)

Insert ==
  /\ last < N
  /\ last' = last + 1 /\ open' = open \cup {last + 1}
  /\ UNCHANGED <<st, picked>>

Commit(s) ==
  /\ s \in open /\ (InOrder => \A t \in open : s <= t)
  /\ open' = open \ {s}
  /\ \E new \in {"pending", "scheduled"} : st' = [st EXCEPT ![s] = new]
  /\ UNCHANGED <<last, picked>>

Rollback(s) ==
  /\ s \in open
  /\ open' = open \ {s}
  /\ UNCHANGED <<st, last, picked>>

-----------------------------------------------------------------------------
(* Claiming transactions. *)

Locked == {picked[c] : c \in Claimers}

\* Wrong form: a dead message does not hold its group.
Oldest_SkipsDead(s) ==
  \A t \in Seqs : st[t] \in Unsettled \ {"dead"} => s <= t

\* The first probe: the oldest unsettled message of the group.
Oldest(s) == \A t \in Seqs : st[t] \in Unsettled => s <= t

\* Wrong form: later messages are not looked at.
NoLaterHeld_Unasked(s) == TRUE

\* The second probe: no later message of the group under a live lease.
NoLaterHeld(s) == \A t \in Seqs : t > s => st[t] # "running"

\* candidatesIn, and the row lock: a row another claim holds is passed over.
Select(c, s) ==
  /\ picked[c] = Nothing /\ s \notin Locked
  /\ st[s] \in {"pending", "lapsed"} /\ Oldest(s) /\ NoLaterHeld(s)
  /\ picked' = [picked EXCEPT ![c] = s]
  /\ UNCHANGED <<st, open, last>>

\* markRunning and the commit.
MarkRunning(c) ==
  /\ picked[c] # Nothing
  /\ st' = [st EXCEPT ![picked[c]] = "running"]
  /\ picked' = [picked EXCEPT ![c] = Nothing]
  /\ UNCHANGED <<open, last>>

\* The claim fails or its process dies: the transaction rolls back.
ClaimRollback(c) ==
  /\ picked[c] # Nothing
  /\ picked' = [picked EXCEPT ![c] = Nothing]
  /\ UNCHANGED <<st, open, last>>

-----------------------------------------------------------------------------
(* Statements on one row: they wait for its lock. *)

Becomes(s, from, to) ==
  /\ s \notin Locked /\ st[s] \in from
  /\ st' = [st EXCEPT ![s] = to]
  /\ UNCHANGED <<open, last, picked>>

\* complete, and kill; through a claim that may have lapsed meanwhile.
Complete(s) == Becomes(s, {"running", "lapsed"}, "settled")
Kill(s) == Becomes(s, {"running", "lapsed"}, "dead")
\* release: back to pending, at once or after a backoff.
Release(s) == \E to \in {"pending", "scheduled"} : Becomes(s, {"running", "lapsed"}, to)
\* renew: a lapsed claim nobody took over is extended all the same; one in time
\* changes nothing here.
Renew(s) == LateRenew /\ Becomes(s, {"lapsed"}, "running")
Cancel(s) == Becomes(s, {"scheduled", "pending", "dead", "lapsed"}, "settled")
Requeue(s) == Becomes(s, {"dead"}, "pending")

\* Time passes: not a statement, so no lock delays it.
Time(s, from, to) ==
  /\ st[s] = from
  /\ st' = [st EXCEPT ![s] = to]
  /\ UNCHANGED <<open, last, picked>>
Visible(s) == Time(s, "scheduled", "pending")
Lapse(s) == Time(s, "running", "lapsed")

Next ==
  \/ Insert
  \/ \E s \in Seqs :
       \/ Commit(s) \/ Rollback(s) \/ Visible(s) \/ Lapse(s)
       \/ Complete(s) \/ Kill(s) \/ Release(s) \/ Renew(s) \/ Cancel(s) \/ Requeue(s)
       \/ \E c \in Claimers : Select(c, s)
  \/ \E c \in Claimers : MarkRunning(c) \/ ClaimRollback(c)

Spec == Init /\ [][Next]_vars

-----------------------------------------------------------------------------
(* Properties. *)

\* Every place, state and lock has its type; only places already given are open.
TypeOK ==
  /\ st \in [Seqs -> States] /\ open \subseteq 1..last /\ last \in 0..N
  /\ picked \in [Claimers -> Seqs \cup {Nothing}]

\* A group's messages run one at a time (candidatesIn): never two of them under live
\* leases, although a message that committed late is older than the one running.
\* Holds while claims do not overlap and renewals are not executed late.
OneAtATime ==
  \A s, t \in Seqs : st[s] = "running" /\ st[t] = "running" => s = t

\* In enqueue order: while enqueues commit in order, a message runs, or is about to,
\* only after every earlier one was settled; a dead one parks its group.
InGroupOrder ==
  \A s, t \in Seqs :
    s < t /\ st[s] \in Unsettled => st[t] \notin {"running", "lapsed"} /\ t \notin Locked
=============================================================================
