------------------------- MODULE QueueGroups_proofs -------------------------
(***************************************************************************)
(* Proofs about QueueGroups, for every number of messages and claims.      *)
(***************************************************************************)
EXTENDS QueueGroups, TLAPS

\* What is stored has its place, and its transaction is over.
PlacesOK == \A s \in Seqs : st[s] # "none" => s <= last /\ s \notin open

\* Enqueues that commit in order leave nothing older to appear later.
NothingOlder == \A s \in Seqs, t \in open : st[s] # "none" => s < t

\* A row a claim has locked is not settled before the claim ends.
LockedUnsettled == \A c \in Claimers : picked[c] # Nothing => st[picked[c]] \in Unsettled

OrderInv == TypeOK /\ PlacesOK /\ NothingOlder /\ LockedUnsettled /\ InGroupOrder

\* The inductive invariant behind the order of a group: with commits in order, no
\* message older than a stored one can still appear, so the message the first probe
\* finds oldest stays the oldest until it is settled.
THEOREM OrderInvariant == ASSUME InOrder PROVE Spec => []OrderInv
<1>1. Init => OrderInv
  BY GroupConstants DEF Init, OrderInv, TypeOK, PlacesOK, NothingOlder, LockedUnsettled,
     InGroupOrder, Seqs, States, Unsettled, Locked, Nothing
<1>2. OrderInv /\ [Next]_vars => OrderInv'
  <2> SUFFICES ASSUME OrderInv, [Next]_vars PROVE OrderInv'
    OBVIOUS
  <2> USE GroupConstants DEF OrderInv, TypeOK, PlacesOK, NothingOlder, InGroupOrder, Seqs,
          States, Unsettled, Locked, Nothing, LockedUnsettled
  <2>1. CASE Insert
    BY <2>1 DEF Insert
  <2>2. ASSUME NEW s \in Seqs, Commit(s) PROVE OrderInv'
    <3>1. PICK new \in {"pending", "scheduled"} : st' = [st EXCEPT ![s] = new]
      BY <2>2 DEF Commit
    <3>2. \A t \in Seqs : st'[t] = IF t = s THEN new ELSE st[t]
      BY <3>1
    <3>3. \A t \in Seqs : t > s => st[t] = "none"
      BY <2>2 DEF Commit
    <3>4. s <= last /\ open' = open \ {s} /\ \A t \in open \ {s} : s < t
      BY <2>2 DEF Commit
    <3>5. TypeOK' /\ PlacesOK'
      BY <2>2, <3>1, <3>2, <3>4 DEF Commit
    <3>6. NothingOlder'
      BY <3>2, <3>4
    <3>7. \A t \in Seqs : t \in Locked' => st[t] # "none"
      BY <2>2 DEF Commit
    <3>8. LockedUnsettled' /\ InGroupOrder'
      BY <2>2, <3>2, <3>3, <3>7 DEF Commit
    <3>9. QED
      BY <3>5, <3>6, <3>8
  <2>3. ASSUME NEW s \in Seqs, Rollback(s) PROVE OrderInv'
    BY <2>3 DEF Rollback
  <2>4. ASSUME NEW s \in Seqs, NEW c \in Claimers, Select(c, s) PROVE OrderInv'
    BY <2>4 DEF Select, Oldest
  <2>5. ASSUME NEW c \in Claimers, MarkRunning(c) PROVE OrderInv'
    <3>1. picked[c] \in Seqs /\ st[picked[c]] \in Unsettled
      BY <2>5 DEF MarkRunning
    <3>2. \A t \in Seqs : st'[t] = IF t = picked[c] THEN "running" ELSE st[t]
      BY <2>5, <3>1 DEF MarkRunning
    <3>3. \A d \in Claimers : picked'[d] = IF d = c THEN Nothing ELSE picked[d]
      BY <2>5 DEF MarkRunning
    <3>4. TypeOK' /\ PlacesOK' /\ NothingOlder'
      BY <2>5, <3>1, <3>2 DEF MarkRunning
    <3>5. LockedUnsettled'
      BY <3>2, <3>3
    <3>6. InGroupOrder'
      BY <3>1, <3>2, <3>3
    <3>7. QED
      BY <3>4, <3>5, <3>6
  <2>6. ASSUME NEW c \in Claimers, ClaimRollback(c) PROVE OrderInv'
    BY <2>6 DEF ClaimRollback
  <2>7. ASSUME NEW s \in Seqs, NEW to \in States \ {"none"}, NEW from \in SUBSET Unsettled,
               Becomes(s, from, to), to \in {"running", "lapsed"} => from = {"lapsed"}
        PROVE  OrderInv'
    <3>1. \A t \in Seqs : st'[t] = IF t = s THEN to ELSE st[t]
      BY <2>7 DEF Becomes
    <3>2. TypeOK' /\ PlacesOK' /\ NothingOlder'
      BY <2>7, <3>1 DEF Becomes
    <3>3. LockedUnsettled'
      BY <2>7, <3>1 DEF Becomes
    <3>4. InGroupOrder'
      BY <2>7, <3>1 DEF Becomes
    <3>5. QED
      BY <3>2, <3>3, <3>4
  <2>8. ASSUME NEW s \in Seqs,
               Complete(s) \/ Kill(s) \/ Release(s) \/ Renew(s) \/ Cancel(s) \/ Requeue(s)
        PROVE  OrderInv'
    BY <2>7, <2>8 DEF Complete, Kill, Release, Renew, Cancel, Requeue
  <2>9. ASSUME NEW s \in Seqs, Visible(s) \/ Lapse(s) PROVE OrderInv'
    <3>1. PICK to \in {"pending", "lapsed"} :
            Time(s, IF to = "pending" THEN "scheduled" ELSE "running", to)
      BY <2>9 DEF Visible, Lapse
    <3>2. \A t \in Seqs : st'[t] = IF t = s THEN to ELSE st[t]
      BY <3>1 DEF Time
    <3>3. TypeOK' /\ PlacesOK' /\ NothingOlder'
      BY <3>1, <3>2 DEF Time
    <3>4. LockedUnsettled' /\ InGroupOrder'
      BY <3>1, <3>2 DEF Time
    <3>5. QED
      BY <3>3, <3>4
  <2>10. CASE UNCHANGED vars
    BY <2>10 DEF vars
  <2>11. QED
    BY <2>1, <2>2, <2>3, <2>4, <2>5, <2>6, <2>8, <2>9, <2>10 DEF Next
<1>3. QED
  BY <1>1, <1>2, PTL DEF Spec

\* With enqueues committing in order, a message is claimed only after every earlier one
\* of its group was settled, however many claims overlap.
THEOREM GroupOrder == ASSUME InOrder PROVE Spec => []InGroupOrder
<1>1. OrderInv => InGroupOrder
  BY DEF OrderInv
<1>2. QED
  BY <1>1, OrderInvariant, PTL

\* A claim that has picked its message found nothing running.
PickedAlone == \A c \in Claimers, t \in Seqs : picked[c] # Nothing => st[t] # "running"

OneInv == TypeOK /\ PickedAlone /\ OneAtATime

\* With one claim transaction at a time and no late renewal, the two probes keep a
\* group to one running message, even when older messages commit late.
THEOREM OneRunning ==
  ASSUME \A c, d \in Claimers : c = d, ~LateRenew
  PROVE  Spec => []OneAtATime
<1>1. Init => OneInv
  BY GroupConstants DEF Init, OneInv, TypeOK, PickedAlone, OneAtATime, Seqs, States, Nothing
<1>2. OneInv /\ [Next]_vars => OneInv'
  <2> SUFFICES ASSUME OneInv, [Next]_vars PROVE OneInv'
    OBVIOUS
  <2> USE GroupConstants DEF OneInv, TypeOK, PickedAlone, OneAtATime, Seqs, States, Nothing
  <2>1. CASE Insert
    BY <2>1 DEF Insert
  <2>2. ASSUME NEW s \in Seqs, Commit(s) PROVE OneInv'
    BY <2>2 DEF Commit
  <2>3. ASSUME NEW s \in Seqs, Rollback(s) PROVE OneInv'
    BY <2>3 DEF Rollback
  <2>4. ASSUME NEW s \in Seqs, NEW c \in Claimers, Select(c, s) PROVE OneInv'
    <3>1. \A t \in Seqs : st[t] # "running"
      BY <2>4 DEF Select, Oldest, NoLaterHeld, Unsettled
    <3>2. QED
      BY <2>4, <3>1 DEF Select
  <2>5. ASSUME NEW c \in Claimers, MarkRunning(c) PROVE OneInv'
    BY <2>5 DEF MarkRunning
  <2>6. ASSUME NEW c \in Claimers, ClaimRollback(c) PROVE OneInv'
    BY <2>6 DEF ClaimRollback
  <2>7. ASSUME NEW s \in Seqs, NEW to \in States \ {"running"}, NEW from,
               Becomes(s, from, to)
        PROVE  OneInv'
    BY <2>7 DEF Becomes
  <2>8. ASSUME NEW s \in Seqs,
               Complete(s) \/ Kill(s) \/ Release(s) \/ Renew(s) \/ Cancel(s) \/ Requeue(s)
        PROVE  OneInv'
    BY <2>7, <2>8 DEF Complete, Kill, Release, Renew, Cancel, Requeue
  <2>9. ASSUME NEW s \in Seqs, Visible(s) \/ Lapse(s) PROVE OneInv'
    BY <2>9 DEF Visible, Lapse, Time
  <2>10. CASE UNCHANGED vars
    BY <2>10 DEF vars
  <2>11. QED
    BY <2>1, <2>2, <2>3, <2>4, <2>5, <2>6, <2>8, <2>9, <2>10 DEF Next
<1>3. OneInv => OneAtATime
  BY DEF OneInv
<1>4. QED
  BY <1>1, <1>2, <1>3, PTL DEF Spec
=============================================================================
