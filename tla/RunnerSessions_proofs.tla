------------------------- MODULE RunnerSessions_proofs -------------------------
(***************************************************************************)
(* Proofs about RunnerSessions, for any sessions and any bounds.           *)
(*                                                                         *)
(* Neither property is inductive.  A workload a session no longer holds is *)
(* known to go only because something that is still to come names it: a    *)
(* fail() removing it, or the write at the head of the session's queue.    *)
(* What the session shows is known to come true only because of the writes *)
(* that are queued, and of their order.  So the invariant speaks of the    *)
(* queue of record writes, and the proofs begin with what an append, a     *)
(* completed write and storeFailed leave of a queue.                       *)
(***************************************************************************)
EXTENDS RunnerSessions, SequenceTheorems, FiniteSetTheorems, TLAPS

-----------------------------------------------------------------------------
(* Queues of record writes. *)

Write == [status : Statuses \cup {"same"}, by : {"op", "none", "late"}, removes : Nat]

\* A write that will show the session failed or suspended.
Bad(j) == j.by # "late" /\ j.status \in {"failed", "suspended"}

\* Of a queue q: which writes an operation waits for ("op"), which show a failure or a
\* suspension, which one storeFailed removes a workload for, and which give a status.
NoOp(q)       == \A i \in 1..Len(q) : q[i].by # "op"
OneOp(q)      == \A i, j \in 1..Len(q) : q[i].by = "op" /\ q[j].by = "op" => i = j
NoBad(q)      == \A i \in 1..Len(q) : ~Bad(q[i])
HasBad(q)     == \E i \in 1..Len(q) : Bad(q[i])
OpStarts(q)   == \A i \in 1..Len(q) : q[i].by = "op" => q[i].status = "starting"
AfterOp(q)    == \A i, j \in 1..Len(q) : i < j /\ q[i].by = "op" => ~Bad(q[j])
NoRemoval(q)  == \A i \in 1..Len(q) : q[i].removes = 0
OnlyHead(q)   == \A i \in 1..Len(q) : i # 1 => q[i].removes = 0
Plain(q)      == \A i \in 1..Len(q) : q[i].by # "late" /\ q[i].removes = 0
HasStatus(q)  == \E i \in 1..Len(q) : q[i].status # "same"
HasRunning(q) == \E i \in 1..Len(q) : q[i].status = "running"
NoStart(q)    == \A i \in 1..Len(q) : q[i].status # "starting"
StartsByOp(q) == \A i \in 1..Len(q) : q[i].status = "starting" => q[i].by = "op"
Answered(q)   == \A i \in 1..Len(q) : q[i].status = "running" =>
                                        \E j \in 1..Len(q) : i < j /\ Bad(q[j])
RemovalOf(q)  == IF q = <<>> THEN 0 ELSE Head(q).removes

\* An empty queue.
LEMMA EmptyQ ==
  /\ <<>> \in Seq(Write)
  /\ NoOp(<<>>) /\ OneOp(<<>>) /\ NoBad(<<>>) /\ AfterOp(<<>>) /\ NoRemoval(<<>>)
  /\ OpStarts(<<>>) /\ OnlyHead(<<>>) /\ Plain(<<>>) /\ NoStart(<<>>)
  /\ StartsByOp(<<>>) /\ Answered(<<>>)
  /\ ~HasStatus(<<>>) /\ ~HasBad(<<>>) /\ ~HasRunning(<<>>) /\ RemovalOf(<<>>) = 0
BY EmptySeq DEF NoOp, OneOp, NoBad, OpStarts, AfterOp, NoRemoval, OnlyHead, Plain, NoStart, StartsByOp,
   Answered, HasStatus, HasBad, HasRunning, RemovalOf

\* What some of these say of the others.
LEMMA AnyQ ==
  ASSUME NEW q \in Seq(Write)
  PROVE  /\ NoRemoval(q) => OnlyHead(q) /\ RemovalOf(q) = 0
         /\ OnlyHead(q) /\ RemovalOf(q) = 0 => NoRemoval(q)
         /\ NoOp(q) => OneOp(q) /\ AfterOp(q) /\ OpStarts(q)
         /\ NoOp(q) /\ StartsByOp(q) => NoStart(q)
         /\ NoBad(q) => ~HasBad(q)
         /\ Plain(q) => NoRemoval(q)
         /\ RemovalOf(q) \in Nat
<1>1. Len(q) \in Nat /\ (q # <<>> => Head(q) = q[1] /\ 1 \in 1..Len(q))
  BY EmptySeq
<1>2. \A i \in 1..Len(q) : q[i] \in Write
  BY ElementOfSeq
<1>3. NoRemoval(q) => OnlyHead(q) /\ RemovalOf(q) = 0
  BY <1>1 DEF NoRemoval, OnlyHead, RemovalOf
<1>4. OnlyHead(q) /\ RemovalOf(q) = 0 => NoRemoval(q)
  <2> SUFFICES ASSUME OnlyHead(q), RemovalOf(q) = 0, NEW i \in 1..Len(q) PROVE q[i].removes = 0
    BY DEF NoRemoval
  <2>1. q # <<>>
    BY EmptySeq
  <2> QED BY <1>1, <2>1 DEF OnlyHead, RemovalOf
<1>5. NoOp(q) => OneOp(q) /\ AfterOp(q) /\ OpStarts(q)
  BY DEF NoOp, OneOp, AfterOp, OpStarts
<1>6. NoOp(q) /\ StartsByOp(q) => NoStart(q)
  BY DEF NoOp, StartsByOp, NoStart
<1>7. (NoBad(q) => ~HasBad(q)) /\ (Plain(q) => NoRemoval(q))
  BY DEF NoBad, HasBad, Plain, NoRemoval
<1>8. RemovalOf(q) \in Nat
  BY <1>1, <1>2 DEF RemovalOf, Write
<1> QED BY <1>3, <1>4, <1>5, <1>6, <1>7, <1>8

\* A write joins the end of a queue.
LEMMA AppendQ ==
  ASSUME NEW q \in Seq(Write), NEW j \in Write, j.removes = 0
  PROVE  /\ Append(q, j) \in Seq(Write)
         /\ NoOp(q) /\ j.by # "op" => NoOp(Append(q, j))
         /\ OneOp(q) /\ (NoOp(q) \/ j.by # "op") => OneOp(Append(q, j))
         /\ NoBad(q) /\ ~Bad(j) => NoBad(Append(q, j))
         /\ HasBad(q) \/ Bad(j) => HasBad(Append(q, j))
         /\ NoOp(q) \/ (AfterOp(q) /\ ~Bad(j)) => AfterOp(Append(q, j))
         /\ OpStarts(q) /\ (j.by = "op" => j.status = "starting") => OpStarts(Append(q, j))
         /\ NoRemoval(q) => NoRemoval(Append(q, j))
         /\ OnlyHead(q) => OnlyHead(Append(q, j))
         /\ Plain(q) /\ j.by # "late" => Plain(Append(q, j))
         /\ HasStatus(q) \/ j.status # "same" => HasStatus(Append(q, j))
         /\ HasRunning(q) \/ j.status = "running" => HasRunning(Append(q, j))
         /\ NoStart(q) /\ j.status # "starting" => NoStart(Append(q, j))
         /\ StartsByOp(q) /\ (j.status = "starting" => j.by = "op") => StartsByOp(Append(q, j))
         /\ Bad(j) \/ (Answered(q) /\ j.status # "running") => Answered(Append(q, j))
         /\ RemovalOf(Append(q, j)) = RemovalOf(q)
<1> DEFINE r == Append(q, j)
           n == Len(q)
<1>1. r \in Seq(Write) /\ Len(r) = n + 1 /\ n \in Nat /\ r[n + 1] = j
      /\ \A i \in 1..n : r[i] = q[i]
  BY AppendProperties, LenProperties
<1>2. \A i \in 1..(n + 1) : i \in 1..n \/ i = n + 1
  BY <1>1
<1>3. \A i \in 1..n : i \in 1..(n + 1) /\ i < n + 1
  BY <1>1
<1>4. n + 1 \in 1..(n + 1) /\ ~ n + 1 < n + 1
  BY <1>1
<1>5. r # <<>> /\ Head(r) = r[1] /\ (q # <<>> => Head(q) = q[1] /\ 1 \in 1..n) /\ (q = <<>> => n = 0)
  BY <1>1, EmptySeq
<1> HIDE DEF r, n
<1>6. NoOp(q) /\ j.by # "op" => NoOp(r)
  BY <1>1, <1>2 DEF NoOp, n
<1>7. OneOp(q) /\ (NoOp(q) \/ j.by # "op") => OneOp(r)
  BY <1>1, <1>2 DEF NoOp, OneOp, n
<1>8. NoBad(q) /\ ~Bad(j) => NoBad(r)
  BY <1>1, <1>2 DEF NoBad, n
<1>9. HasBad(q) \/ Bad(j) => HasBad(r)
  BY <1>1, <1>3, <1>4 DEF HasBad, n
<1>10. NoOp(q) \/ (AfterOp(q) /\ ~Bad(j)) => AfterOp(r)
  BY <1>1, <1>2 DEF NoOp, AfterOp, n
<1>11. (NoRemoval(q) => NoRemoval(r)) /\ (OnlyHead(q) => OnlyHead(r))
  BY <1>1, <1>2 DEF NoRemoval, OnlyHead, n
<1>12. Plain(q) /\ j.by # "late" => Plain(r)
  BY <1>1, <1>2 DEF Plain, n
<1>13. HasStatus(q) \/ j.status # "same" => HasStatus(r)
  BY <1>1, <1>3, <1>4 DEF HasStatus, n
<1>14. HasRunning(q) \/ j.status = "running" => HasRunning(r)
  BY <1>1, <1>3, <1>4 DEF HasRunning, n
<1>15. NoStart(q) /\ j.status # "starting" => NoStart(r)
  BY <1>1, <1>2 DEF NoStart, n
<1>16. StartsByOp(q) /\ (j.status = "starting" => j.by = "op") => StartsByOp(r)
  BY <1>1, <1>2 DEF StartsByOp, n
<1>17. Bad(j) \/ (Answered(q) /\ j.status # "running") => Answered(r)
  <2>1. ASSUME Bad(j), NEW i \in 1..(n + 1), r[i].status = "running"
        PROVE  i < n + 1 /\ Bad(r[n + 1])
    BY <1>1, <1>2, <1>3, <2>1 DEF Bad
  <2>2. ASSUME Answered(q), j.status # "running", NEW i \in 1..(n + 1), r[i].status = "running"
        PROVE  \E k \in 1..(n + 1) : i < k /\ Bad(r[k])
    <3>1. i \in 1..n /\ q[i].status = "running"
      BY <1>1, <1>2, <2>2
    <3>2. PICK k \in 1..n : i < k /\ Bad(q[k])
      BY <2>2, <3>1 DEF Answered, n
    <3> QED BY <1>1, <1>3, <3>2
  <2> QED BY <1>1, <1>4, <2>1, <2>2 DEF Answered
<1>18. RemovalOf(r) = RemovalOf(q)
  BY <1>1, <1>5 DEF RemovalOf
<1>19. OpStarts(q) /\ (j.by = "op" => j.status = "starting") => OpStarts(r)
  BY <1>1, <1>2 DEF OpStarts, n
<1> QED BY <1>1, <1>6, <1>7, <1>8, <1>9, <1>10, <1>11, <1>12, <1>13, <1>14, <1>15, <1>16,
           <1>17, <1>18, <1>19 DEF r

\* The first write of a queue is done.
LEMMA TailQ ==
  ASSUME NEW q \in Seq(Write), q # <<>>
  PROVE  /\ Tail(q) \in Seq(Write) /\ Head(q) \in Write /\ RemovalOf(q) = Head(q).removes
         /\ NoOp(q) => NoOp(Tail(q)) /\ Head(q).by # "op"
         /\ OneOp(q) => OneOp(Tail(q)) /\ (Head(q).by = "op" => NoOp(Tail(q)))
         /\ NoBad(q) => NoBad(Tail(q)) /\ ~Bad(Head(q))
         /\ HasBad(q) => HasBad(Tail(q)) \/ Bad(Head(q))
         /\ AfterOp(q) => AfterOp(Tail(q)) /\ (Head(q).by = "op" => NoBad(Tail(q)))
         /\ OpStarts(q) => OpStarts(Tail(q)) /\ (Head(q).by = "op" => Head(q).status = "starting")
         /\ OnlyHead(q) => NoRemoval(Tail(q))
         /\ Plain(q) => Plain(Tail(q)) /\ Head(q).by # "late"
         /\ HasStatus(q) => HasStatus(Tail(q)) \/ Head(q).status # "same"
         /\ HasRunning(q) => HasRunning(Tail(q)) \/ Head(q).status = "running"
         /\ NoStart(q) => NoStart(Tail(q)) /\ Head(q).status # "starting"
         /\ StartsByOp(q) => StartsByOp(Tail(q)) /\ (Head(q).status = "starting" => Head(q).by = "op")
         /\ Answered(q) => Answered(Tail(q)) /\ (Head(q).status = "running" => HasBad(Tail(q)))
<1> DEFINE r == Tail(q)
           h == Head(q)
           n == Len(q)
<1>1. /\ r \in Seq(Write) /\ h \in Write /\ n \in Nat \ {0} /\ Len(r) = n - 1 /\ h = q[1]
      /\ \A i \in 1..(n - 1) : r[i] = q[i + 1]
  BY HeadTailProperties, EmptySeq
<1>2. \A i \in 1..(n - 1) : i + 1 \in 1..n /\ i + 1 # 1 /\ 1 < i + 1
  BY <1>1
<1>3. \A i \in 1..n : i = 1 \/ (i - 1 \in 1..(n - 1) /\ (i - 1) + 1 = i)
  BY <1>1
<1>4. 1 \in 1..n
  BY <1>1
<1>5. RemovalOf(q) = h.removes
  BY DEF RemovalOf
<1>6. \A i, j \in 1..(n - 1) : (i < j <=> i + 1 < j + 1) /\ (i + 1 = j + 1 => i = j)
  BY <1>1
<1> HIDE DEF r, h, n
<1>7. NoOp(q) => NoOp(r) /\ h.by # "op"
  BY <1>1, <1>2, <1>4 DEF NoOp, n
<1>8. OneOp(q) => OneOp(r) /\ (h.by = "op" => NoOp(r))
  <2>1. ASSUME OneOp(q), NEW i \in 1..(n - 1), NEW k \in 1..(n - 1), r[i].by = "op", r[k].by = "op"
        PROVE  i = k
    <3>1. i + 1 \in 1..n /\ k + 1 \in 1..n /\ q[i + 1].by = "op" /\ q[k + 1].by = "op"
      BY <1>1, <1>2, <2>1
    <3> QED BY <1>6, <2>1, <3>1 DEF OneOp, n
  <2>2. ASSUME OneOp(q), h.by = "op", NEW i \in 1..(n - 1) PROVE r[i].by # "op"
    BY <1>1, <1>2, <1>4, <2>2 DEF OneOp, n
  <2> QED BY <1>1, <2>1, <2>2 DEF OneOp, NoOp
<1>9. NoBad(q) => NoBad(r) /\ ~Bad(h)
  BY <1>1, <1>2, <1>4 DEF NoBad, n
<1>10. HasBad(q) => HasBad(r) \/ Bad(h)
  BY <1>1, <1>3 DEF HasBad, n
<1>11. AfterOp(q) => AfterOp(r) /\ (h.by = "op" => NoBad(r))
  BY <1>1, <1>2, <1>4, <1>6, SMTT(30) DEF AfterOp, NoBad, n
<1>12. OnlyHead(q) => NoRemoval(r)
  BY <1>1, <1>2 DEF OnlyHead, NoRemoval, n
<1>13. Plain(q) => Plain(r) /\ h.by # "late"
  BY <1>1, <1>2, <1>4 DEF Plain, n
<1>14. HasStatus(q) => HasStatus(r) \/ h.status # "same"
  <2> SUFFICES ASSUME NEW i \in 1..n, q[i].status # "same"
               PROVE  HasStatus(r) \/ h.status # "same"
    BY DEF HasStatus, n
  <2>1. CASE i = 1
    BY <1>1, <2>1
  <2>2. CASE i # 1
    <3>1. i - 1 \in 1..(n - 1) /\ r[i - 1] = q[i]
      BY <1>1, <1>3, <2>2
    <3> QED BY <1>1, <3>1 DEF HasStatus
  <2> QED BY <2>1, <2>2
<1>15. HasRunning(q) => HasRunning(r) \/ h.status = "running"
  <2> SUFFICES ASSUME NEW i \in 1..n, q[i].status = "running"
               PROVE  HasRunning(r) \/ h.status = "running"
    BY DEF HasRunning, n
  <2>1. CASE i = 1
    BY <1>1, <2>1
  <2>2. CASE i # 1
    <3>1. i - 1 \in 1..(n - 1) /\ r[i - 1] = q[i]
      BY <1>1, <1>3, <2>2
    <3> QED BY <1>1, <3>1 DEF HasRunning
  <2> QED BY <2>1, <2>2
<1>16. NoStart(q) => NoStart(r) /\ h.status # "starting"
  BY <1>1, <1>2, <1>4 DEF NoStart, n
<1>17. StartsByOp(q) => StartsByOp(r) /\ (h.status = "starting" => h.by = "op")
  BY <1>1, <1>2, <1>4 DEF StartsByOp, n
<1>18. ASSUME Answered(q) PROVE Answered(r) /\ (h.status = "running" => HasBad(r))
  <2>1. ASSUME NEW i \in 1..(n - 1), r[i].status = "running"
        PROVE  \E k \in 1..(n - 1) : i < k /\ Bad(r[k])
    <3>1. PICK k \in 1..n : i + 1 < k /\ Bad(q[k])
      BY <1>1, <1>2, <1>18, <2>1 DEF Answered, n
    <3>2. k - 1 \in 1..(n - 1) /\ i < k - 1 /\ (k - 1) + 1 = k
      BY <1>1, <3>1
    <3> QED BY <1>1, <3>1, <3>2
  <2>2. ASSUME h.status = "running" PROVE \E k \in 1..(n - 1) : Bad(r[k])
    <3>1. PICK k \in 1..n : 1 < k /\ Bad(q[k])
      BY <1>1, <1>4, <1>18, <2>2 DEF Answered, n
    <3>2. k - 1 \in 1..(n - 1) /\ (k - 1) + 1 = k
      BY <1>1, <3>1
    <3> QED BY <1>1, <3>1, <3>2
  <2> QED BY <1>1, <2>1, <2>2 DEF Answered, HasBad
<1>19. OpStarts(q) => OpStarts(r) /\ (h.by = "op" => h.status = "starting")
  BY <1>1, <1>2, <1>4 DEF OpStarts, n
<1> QED BY <1>1, <1>5, <1>7, <1>8, <1>9, <1>10, <1>11, <1>12, <1>13, <1>14, <1>15, <1>16,
           <1>17, <1>18, <1>19 DEF r, h

\* What is kept of q when storeFailed marks its first write with the workload w.
Marks(q, r, w) ==
  /\ r \in Seq(Write) /\ r # <<>> /\ RemovalOf(r) = w
  /\ NoOp(q) => NoOp(r)
  /\ OneOp(q) => OneOp(r)
  /\ NoBad(q) => NoBad(r)
  /\ AfterOp(q) => AfterOp(r)
  /\ OpStarts(q) => OpStarts(r)
  /\ OnlyHead(q) => OnlyHead(r)

LEMMA MarkQ ==
  ASSUME NEW q \in Seq(Write), q # <<>>, NEW w \in Nat, NEW r, r = [q EXCEPT ![1].removes = w]
  PROVE  Marks(q, r, w)
<1> DEFINE e == [q[1] EXCEPT !.removes = w]
<1>1. 1 \in 1..Len(q) /\ q[1] \in Write /\ Len(q) \in Nat
  BY EmptySeq, ElementOfSeq
<1>2. e \in Write /\ e.by = q[1].by /\ e.status = q[1].status /\ e.removes = w
  BY <1>1 DEF Write
<1>3. r = [q EXCEPT ![1] = e]
  OBVIOUS
<1> HIDE DEF e
<1>4. /\ r \in Seq(Write) /\ Len(r) = Len(q)
      /\ \A j \in 1..Len(q) : r[j] = IF j = 1 THEN e ELSE q[j]
  BY <1>1, <1>2, <1>3, ExceptSeq
<1>5. \A j \in 1..Len(q) : r[j].by = q[j].by /\ r[j].status = q[j].status /\ (Bad(r[j]) <=> Bad(q[j]))
  BY <1>2, <1>4 DEF Bad
<1>6. r # <<>> /\ Head(r) = r[1]
  BY <1>1, <1>4, EmptySeq
<1>7. RemovalOf(r) = w
  BY <1>1, <1>2, <1>4, <1>6 DEF RemovalOf
<1>8. OnlyHead(q) => OnlyHead(r)
  BY <1>4 DEF OnlyHead
<1> QED BY <1>4, <1>5, <1>6, <1>7, <1>8 DEF Marks, NoOp, OneOp, NoBad, AfterOp, OpStarts

-----------------------------------------------------------------------------
(* Types. *)

Wear == [failures : Nat, writes : Nat, restarts : Nat]
Entry == [status : Statuses \cup {"new", "gone"}, busy : Busy, workload : Nat, epoch : Nat]
Types == SessionsTypeOK /\ wear \in Wear

\* The type of the state, variable by variable.
LEMMA Typed ==
  Types <=> /\ record \in [Hosted -> Statuses \cup {"none"}]
            /\ entry \in [Hosted -> Entry]
            /\ about \in [Hosted -> Nat]
            /\ outbox \in [Hosted -> Seq(Write)]
            /\ removing \in [Hosted -> SUBSET [w : Nat, by : {"op", "none"}]]
            /\ pods \in [Hosted -> SUBSET Nat]
            /\ reserved \subseteq Hosted
            /\ stray \in [Hosted -> SUBSET Strays]
            /\ wear \in Wear
BY DEF Types, SessionsTypeOK, Write, Entry

\* The entry of one session takes a new value, the others keep theirs.
LEMMA EntryGets ==
  ASSUME entry \in [Hosted -> Entry], NEW s \in Hosted, NEW e \in Entry
  PROVE  /\ [entry EXCEPT ![s] = e] \in [Hosted -> Entry]
         /\ [entry EXCEPT ![s] = e][s] = e
         /\ \A t \in Hosted : t # s => [entry EXCEPT ![s] = e][t] = entry[t]
OBVIOUS

\* The entry of a session after a step: its fields, and every other entry as it was.
Becomes(f, s, status, busy, workload, epoch) ==
  /\ f \in [Hosted -> Entry]
  /\ f[s].status = status /\ f[s].busy = busy
  /\ f[s].workload = workload /\ f[s].epoch = epoch
  /\ \A t \in Hosted : t # s => f[t] = entry[t]

\* An entry has its fields.
LEMMA Fields ==
  ASSUME entry \in [Hosted -> Entry], NEW s \in Hosted
  PROVE  /\ entry[s].status \in Statuses \cup {"new", "gone"} /\ entry[s].busy \in Busy
         /\ entry[s].workload \in Nat /\ entry[s].epoch \in Nat
BY DEF Entry

LEMMA GoesTo ==
  ASSUME entry \in [Hosted -> Entry], NEW s \in Hosted, NEW b \in Busy
  PROVE  Becomes([entry EXCEPT ![s].busy = b], s, entry[s].status, b, entry[s].workload, entry[s].epoch)
<1> DEFINE e == [entry[s] EXCEPT !.busy = b]
<1>1. e \in Entry
  BY DEF Entry
<1>2. e.status = entry[s].status /\ e.busy = b /\ e.workload = entry[s].workload /\ e.epoch = entry[s].epoch
  BY DEF Entry
<1>3. [entry EXCEPT ![s].busy = b] = [entry EXCEPT ![s] = e]
  OBVIOUS
<1> HIDE DEF e
<1> QED BY <1>1, <1>2, <1>3, EntryGets DEF Becomes

LEMMA DropsTo ==
  ASSUME entry \in [Hosted -> Entry], NEW s \in Hosted, NEW b \in Busy
  PROVE  Becomes(Dropped(s, b), s, entry[s].status, b, 0, entry[s].epoch + 1)
<1> DEFINE n == entry[s].epoch + 1
           c == [entry[s] EXCEPT !.workload = 0]
           d == [c EXCEPT !.epoch = n]
           e == [d EXCEPT !.busy = b]
<1>1. c \in Entry /\ n \in Nat
  BY DEF Entry
<1>2. c.status = entry[s].status /\ c.workload = 0
  BY DEF Entry
<1>3. Dropped(s, b) = [entry EXCEPT ![s] = e]
  BY DEF Dropped
<1> HIDE DEF c, n
<1>4. d \in Entry
  BY <1>1 DEF Entry
<1>5. d.status = c.status /\ d.workload = c.workload /\ d.epoch = n
  BY <1>1 DEF Entry
<1> HIDE DEF d
<1>6. e \in Entry
  BY <1>4 DEF Entry
<1>7. e.status = d.status /\ e.workload = d.workload /\ e.epoch = d.epoch /\ e.busy = b
  BY <1>4 DEF Entry
<1> HIDE DEF e
<1> QED BY <1>2, <1>3, <1>5, <1>6, <1>7, EntryGets DEF Becomes, n

LEMMA StartsTo ==
  ASSUME entry \in [Hosted -> Entry], NEW s \in Hosted
  PROVE  /\ Becomes(Started(s), s, entry[s].status, "creating", entry[s].workload, entry[s].epoch + 1)
         /\ Becomes([Started(s) EXCEPT ![s].status = "starting"], s, "starting", "creating",
                    entry[s].workload, entry[s].epoch + 1)
<1> DEFINE n == entry[s].epoch + 1
           c == [entry[s] EXCEPT !.busy = "creating"]
           d == [c EXCEPT !.epoch = n]
           e == [d EXCEPT !.status = "starting"]
<1>1. "creating" \in Busy /\ "starting" \in Statuses /\ n \in Nat
  BY DEF Busy, Statuses, Entry
<1>2. c \in Entry
  BY <1>1 DEF Entry
<1>3. c.status = entry[s].status /\ c.workload = entry[s].workload /\ c.busy = "creating"
  BY DEF Entry
<1>4. Started(s) = [entry EXCEPT ![s] = d]
  BY DEF Started
<1>5. [Started(s) EXCEPT ![s].status = "starting"] = [entry EXCEPT ![s] = e]
  BY <1>4
<1> HIDE DEF c, n
<1>6. d \in Entry
  BY <1>1, <1>2 DEF Entry
<1>7. d.status = c.status /\ d.workload = c.workload /\ d.busy = c.busy /\ d.epoch = n
  BY <1>2 DEF Entry
<1> HIDE DEF d
<1>8. e \in Entry
  BY <1>1, <1>6 DEF Entry
<1>9. e.status = "starting" /\ e.workload = d.workload /\ e.busy = d.busy /\ e.epoch = d.epoch
  BY <1>6 DEF Entry
<1> HIDE DEF e
<1> QED BY <1>3, <1>4, <1>5, <1>6, <1>7, <1>8, <1>9, EntryGets DEF Becomes, n

\* A creation that resolves, and an adoption.
LEMMA TakesUp ==
  ASSUME entry \in [Hosted -> Entry], NEW s \in Hosted, NEW w \in Nat
  PROVE  Becomes([entry EXCEPT ![s].workload = w, ![s].busy = "idle"], s, entry[s].status, "idle", w,
                 entry[s].epoch)
<1> DEFINE e == [entry[s] EXCEPT !.workload = w, !.busy = "idle"]
<1>1. e \in Entry
  BY DEF Entry, Busy
<1>2. e.status = entry[s].status /\ e.busy = "idle" /\ e.workload = w /\ e.epoch = entry[s].epoch
  BY DEF Entry
<1>3. [entry EXCEPT ![s].workload = w, ![s].busy = "idle"] = [entry EXCEPT ![s] = e]
  OBVIOUS
<1> HIDE DEF e
<1> QED BY <1>1, <1>2, <1>3, EntryGets DEF Becomes

LEMMA GoneTo ==
  ASSUME entry \in [Hosted -> Entry], NEW s \in Hosted
  PROVE  Becomes([entry EXCEPT ![s].status = "gone", ![s].busy = "idle"], s, "gone", "idle",
                 entry[s].workload, entry[s].epoch)
<1> DEFINE e == [entry[s] EXCEPT !.status = "gone", !.busy = "idle"]
<1>1. e \in Entry
  BY DEF Entry, Busy
<1>2. e.status = "gone" /\ e.busy = "idle" /\ e.workload = entry[s].workload /\ e.epoch = entry[s].epoch
  BY DEF Entry
<1>3. [entry EXCEPT ![s].status = "gone", ![s].busy = "idle"] = [entry EXCEPT ![s] = e]
  OBVIOUS
<1> HIDE DEF e
<1> QED BY <1>1, <1>2, <1>3, EntryGets DEF Becomes

LEMMA ShownTo ==
  ASSUME entry \in [Hosted -> Entry], NEW s \in Hosted, NEW status \in Statuses \cup {"same"}
  PROVE  Becomes(Shown(s, status), s,
                 IF Registered(s) /\ status # "same" THEN status ELSE entry[s].status,
                 entry[s].busy, entry[s].workload, entry[s].epoch)
<1> DEFINE e == [entry[s] EXCEPT !.status = status]
<1>1. CASE Registered(s) /\ status # "same"
  <2>1. status \in Statuses
    BY <1>1
  <2>2. e \in Entry
    BY <2>1 DEF Entry
  <2>3. e.status = status /\ e.busy = entry[s].busy /\ e.workload = entry[s].workload /\ e.epoch = entry[s].epoch
    BY DEF Entry
  <2>4. Shown(s, status) = [entry EXCEPT ![s] = e]
    BY <1>1 DEF Shown
  <2> HIDE DEF e
  <2> QED BY <1>1, <2>2, <2>3, <2>4, EntryGets DEF Becomes
<1>2. CASE ~(Registered(s) /\ status # "same")
  BY <1>2 DEF Shown, Becomes
<1> QED BY <1>1, <1>2

\* The operation at `busy` goes on, in the epoch `n`.
NextBusy(busy, w) ==
  IF busy = "resuming" THEN "creating"
  ELSE IF busy = "recording" /\ w # 0 THEN "changing"
  ELSE IF busy = "unadopted" THEN "sweeping" ELSE "idle"

LEMMA ContinuedTo ==
  ASSUME NEW s \in Hosted, NEW f, NEW st, NEW b, NEW w, NEW n, Becomes(f, s, st, b, w, n)
  PROVE  Becomes(Continued(s, f), s, st, NextBusy(b, w), w, IF b = "resuming" THEN n + 1 ELSE n)
<1> DEFINE e == f[s]
           k == e.epoch + 1
           nb == NextBusy(b, w)
           c == [e EXCEPT !.busy = nb]
           d == [c EXCEPT !.epoch = k]
<1>1. e \in Entry /\ e.status = st /\ e.busy = b /\ e.workload = w /\ e.epoch = n /\ f \in [Hosted -> Entry]
      /\ \A t \in Hosted : t # s => f[t] = entry[t]
  BY DEF Becomes
<1>2. nb \in Busy
  BY DEF NextBusy, Busy
<1>3. CASE b = "resuming"
  <2>1. Continued(s, f) = [f EXCEPT ![s] = d]
    BY <1>1, <1>3, Zenon DEF Continued, NextBusy
  <2> HIDE DEF e, nb
  <2>2. c \in Entry /\ k \in Nat
    BY <1>1, <1>2 DEF Entry
  <2>3. c.status = st /\ c.busy = nb /\ c.workload = w
    BY <1>1 DEF Entry
  <2> HIDE DEF c
  <2>4. d \in Entry
    BY <2>2 DEF Entry
  <2>5. d.status = st /\ d.busy = nb /\ d.workload = w /\ d.epoch = k
    BY <2>2, <2>3 DEF Entry
  <2> HIDE DEF d
  <2> QED BY <1>1, <1>3, <2>1, <2>4, <2>5 DEF Becomes, nb
<1>4. CASE b # "resuming"
  <2>1. Continued(s, f) = [f EXCEPT ![s] = c]
    BY <1>1, <1>4 DEF Continued, NextBusy
  <2> HIDE DEF e, nb
  <2>2. c \in Entry
    BY <1>1, <1>2 DEF Entry
  <2>3. c.status = st /\ c.busy = nb /\ c.workload = w /\ c.epoch = n
    BY <1>1 DEF Entry
  <2> HIDE DEF c
  <2> QED BY <1>1, <1>4, <2>1, <2>2, <2>3 DEF Becomes, nb
<1> QED BY <1>3, <1>4

\* What the end of storeFailed makes of an entry.
GivenUp(s, f) ==
  [f EXCEPT ![s].status = IF Registered(s) THEN "failed" ELSE @,
            ![s].busy = IF Head(outbox[s]).by # "op" THEN @
                        ELSE IF @ = "unadopted" THEN "sweeping" ELSE "idle"]

GivenBusy(busy, by) ==
  IF by # "op" THEN busy ELSE IF busy = "unadopted" THEN "sweeping" ELSE "idle"

LEMMA GivenUpTo ==
  ASSUME NEW s \in Hosted, NEW f, NEW st, NEW b, NEW w, NEW n, Becomes(f, s, st, b, w, n)
  PROVE  Becomes(GivenUp(s, f), s, IF Registered(s) THEN "failed" ELSE st,
                 GivenBusy(b, Head(outbox[s]).by), w, n)
<1> DEFINE e == f[s]
           ns == IF Registered(s) THEN "failed" ELSE e.status
           nb == GivenBusy(e.busy, Head(outbox[s]).by)
           c == [e EXCEPT !.status = ns]
           d == [c EXCEPT !.busy = nb]
<1>1. e \in Entry /\ e.status = st /\ e.busy = b /\ e.workload = w /\ e.epoch = n /\ f \in [Hosted -> Entry]
      /\ \A t \in Hosted : t # s => f[t] = entry[t]
  BY DEF Becomes
<1>2. nb \in Busy /\ ns \in Statuses \cup {"new", "gone"}
  BY <1>1 DEF GivenBusy, Busy, Entry, Statuses
<1>3. c.busy = e.busy
  BY <1>1 DEF Entry
<1>4. GivenUp(s, f) = [f EXCEPT ![s] = d]
  BY <1>1, <1>3 DEF GivenUp, GivenBusy
<1> HIDE DEF e, nb, ns
<1>5. c \in Entry
  BY <1>1, <1>2 DEF Entry
<1>6. c.status = ns /\ c.workload = w /\ c.epoch = n
  BY <1>1 DEF Entry
<1> HIDE DEF c
<1>7. d \in Entry
  BY <1>2, <1>5 DEF Entry
<1>8. d.status = ns /\ d.busy = nb /\ d.workload = w /\ d.epoch = n
  BY <1>5, <1>6 DEF Entry
<1> HIDE DEF d
<1> QED BY <1>1, <1>4, <1>7, <1>8 DEF Becomes, nb, ns

\* A new write is one, and removes nothing.
LEMMA WriteOfIs ==
  ASSUME NEW status \in Statuses \cup {"same"}, NEW by \in {"op", "none", "late"}
  PROVE  /\ WriteOf(status, by) \in Write
         /\ WriteOf(status, by).status = status /\ WriteOf(status, by).by = by
         /\ WriteOf(status, by).removes = 0
         /\ Bad(WriteOf(status, by)) <=> by # "late" /\ status \in {"failed", "suspended"}
BY DEF WriteOf, Write, Bad

-----------------------------------------------------------------------------
(* The inductive invariant.  Its parts say, of one session: the numbers of its     *)
(* workloads; what one that is not registered has; the order its writes, removals  *)
(* and operations keep, as long as no resume met a removal and no adoption was     *)
(* taken over after its failure; where its workloads are, as long as nothing       *)
(* strayed; and what its record and its status say, as long as no write was lost.  *)

Boot == {"adopting", "unadopted", "sweeping"}
Making == {"resuming", "creating", "up", "discarding"}
Leaving == {"destroy", "forget", "drain"}
Waiting == {"resuming", "recording", "settling", "unadopted"}
Works == {"suspending", "destroyRemove", "changing", "rebuilding"}

Bsy(s) == entry[s].busy
Current(s) == entry[s].epoch = about[s]
Orderly(s) == Bsy(s) \in Boot \/ {"adopted", "outrun"} \cap stray[s] = {}
Tame(s) == stray[s] \subseteq {"undeleted"}
Known(s) ==
  wear.writes = 0 /\ (Bsy(s) \in Boot \/ {"undeleted", "adopted", "outrun"} \cap stray[s] = {})
Live(s) == entry[s].workload # 0 \/ (Bsy(s) \in {"creating", "up"} /\ Current(s))

\* The workloads and the epoch an operation works on are of epochs that have begun.
Numbers(s) ==
  /\ about[s] <= entry[s].epoch /\ entry[s].workload <= entry[s].epoch
  /\ \A p \in pods[s] : 0 < p /\ p <= entry[s].epoch
  /\ Bsy(s) \in {"creating", "up", "changing", "rebuilding"} => about[s] > 0

\* A session that is not registered has at most the orphan sweep ahead of it, a new one
\* nothing at all.
Outside(s) ==
  /\ ~Registered(s) => Bsy(s) \in {"idle", "sweeping"}
  /\ entry[s].status = "new" =>
       entry[s].workload = 0 /\ removing[s] = {} /\ outbox[s] = <<>> /\ pods[s] = {} /\ stray[s] = {}
  /\ s \in reserved => entry[s].status = "new" /\ Bsy(s) = "idle"

\* Who is still to do what: an operation at one of its awaits excludes the removals, writes
\* and workloads that would cross it.
Ordered(s) ==
  /\ entry[s].epoch \in pods[s] =>
       entry[s].workload = entry[s].epoch \/ (Bsy(s) \in {"up", "adopting"} /\ Current(s))
  /\ Bsy(s) \in {"changing", "rebuilding"} /\ Current(s) => entry[s].workload = entry[s].epoch
  /\ Bsy(s) \in Works /\ entry[s].workload # 0 => about[s] = entry[s].workload
  /\ Bsy(s) \in Making \cup Boot \cup Leaving \cup {"settling"} => entry[s].workload = 0
  /\ Bsy(s) \in Making \cup Boot \/ entry[s].workload # 0 =>
       removing[s] = {} /\ NoRemoval(outbox[s])
  /\ entry[s].workload # 0 => entry[s].workload = entry[s].epoch
  /\ Live(s) => entry[s].status \in {"starting", "running"} /\ NoBad(outbox[s])
  /\ Bsy(s) = "resuming" => AfterOp(outbox[s]) /\ OpStarts(outbox[s])
  /\ RemovalOf(outbox[s]) # 0 => entry[s].status \in {"starting", "running"}
  /\ OnlyHead(outbox[s]) /\ OneOp(outbox[s])
  /\ Bsy(s) \notin Waiting => NoOp(outbox[s]) /\ \A x \in removing[s] : x.by # "op"
  /\ \A x, y \in removing[s] : x = y
  /\ (\E x \in removing[s] : x.by = "op") => NoOp(outbox[s])
  /\ Bsy(s) = "adopting" /\ Current(s) => entry[s].status = "starting" /\ outbox[s] = <<>>

\* Where the one workload is: with the session, with the fail() or the write that removes
\* it, or with the creation that has not been told of it.
Held(s) ==
  /\ \A p, q \in pods[s] : p = q
  /\ Bsy(s) \notin Boot \cup {"up", "discarding"} =>
       \A p \in pods[s] : \/ p = entry[s].workload \/ p = RemovalOf(outbox[s])
                          \/ \E x \in removing[s] : p = x.w
  /\ Bsy(s) \in {"up", "discarding"} => pods[s] \subseteq {about[s]}
  /\ Bsy(s) = "up" => about[s] \in pods[s]
  /\ entry[s].workload # 0 /\ Bsy(s) # "rebuilding" => entry[s].workload \in pods[s]

\* What the session shows is in the store or in a write that is queued, and a session left
\* without its workload has the write that will say so behind every write that would not.
Told(s) ==
  /\ Plain(outbox[s]) /\ StartsByOp(outbox[s])
  /\ Registered(s) /\ Bsy(s) # "drain" =>
       /\ record[s] # "none"
       /\ record[s] = entry[s].status \/ (Bsy(s) = "adopting" /\ Current(s)) \/ HasStatus(outbox[s])
  /\ entry[s].status = "starting" =>
       \/ removing[s] # {} \/ HasStatus(outbox[s])
       \/ Bsy(s) \in {"creating", "up", "adopting"} /\ Current(s)
  /\ Bsy(s) # "resuming" => NoStart(outbox[s])
  /\ entry[s].workload = 0 /\ Bsy(s) \notin Leaving =>
       /\ entry[s].status = "running" => removing[s] # {} \/ HasBad(outbox[s])
       /\ removing[s] = {} => Answered(outbox[s])
  /\ entry[s].workload # 0 /\ entry[s].status # "running" => HasRunning(outbox[s])

Good(s) ==
  /\ Numbers(s) /\ Outside(s)
  /\ Orderly(s) => Ordered(s)
  /\ Tame(s) => Held(s)
  /\ Known(s) => Told(s)

Inv ==
  /\ Types
  /\ reserved # {} => Listening
  /\ \A s \in Hosted : Good(s)

\* A step of one session leaves what the others have.
Alone(s) ==
  /\ \A t \in Hosted : t # s =>
       /\ record'[t] = record[t] /\ entry'[t] = entry[t] /\ about'[t] = about[t]
       /\ outbox'[t] = outbox[t] /\ removing'[t] = removing[t] /\ pods'[t] = pods[t]
       /\ stray'[t] = stray[t] /\ (t \in reserved' => t \in reserved)
  /\ wear'.writes = 0 => wear.writes = 0
  /\ entry'[s].busy \in Boot => entry[s].busy \in Boot
  /\ reserved' \subseteq reserved \/ Listening

\* A step of one session keeps the invariant if that session's part holds after it.
LEMMA StepOK ==
  ASSUME Inv, NEW s \in Hosted, Types', Alone(s), Good(s)'
  PROVE  Inv'
<1>1. ASSUME NEW t \in Hosted, t # s PROVE Good(t)'
  <2>1. /\ record'[t] = record[t] /\ entry'[t] = entry[t] /\ about'[t] = about[t]
        /\ outbox'[t] = outbox[t] /\ removing'[t] = removing[t] /\ pods'[t] = pods[t]
        /\ stray'[t] = stray[t] /\ (t \in reserved' => t \in reserved)
        /\ wear'.writes = 0 => wear.writes = 0
    BY <1>1 DEF Alone
  <2>2. Good(t)
    BY DEF Inv
  <2>3. Numbers(t)' /\ Outside(t)'
    BY <2>1, <2>2, Zenon DEF Good, Numbers, Outside, Bsy, Registered
  <2>4. (Orderly(t) => Ordered(t))'
    <3>1. Orderly(t)' <=> Orderly(t)
      BY <2>1, Zenon DEF Orderly, Bsy
    <3>2. Ordered(t)' <=> Ordered(t)
      BY <2>1, Zenon DEF Ordered, Bsy, Live, Current
    <3> QED BY <2>2, <3>1, <3>2 DEF Good
  <2>5. (Tame(t) => Held(t))'
    <3>1. (Tame(t)' <=> Tame(t)) /\ (Held(t)' <=> Held(t))
      BY <2>1, SMTT(30) DEF Tame, Held, Bsy
    <3> QED BY <2>2, <3>1 DEF Good
  <2>6. (Known(t) => Told(t))'
    <3>1. Known(t)' => Known(t)
      BY <2>1, Zenon DEF Known, Bsy
    <3>2. Told(t)' <=> Told(t)
      BY <2>1, Zenon DEF Told, Bsy, Registered, Current
    <3> QED BY <2>2, <3>1, <3>2 DEF Good
  <2> QED BY <2>3, <2>4, <2>5, <2>6 DEF Good
<1>2. reserved' # {} => Listening'
  <2> SUFFICES ASSUME reserved' # {} PROVE Listening'
    OBVIOUS
  <2>1. Listening
    BY DEF Alone, Inv
  <2>2. \A t \in Hosted : entry[t].busy \notin Boot
    BY <2>1 DEF Listening, Boot
  <2>3. \A t \in Hosted : entry'[t].busy \notin Boot
    BY <2>2 DEF Alone
  <2> QED BY <2>3 DEF Listening, Boot
<1> QED BY <1>1, <1>2 DEF Inv

-----------------------------------------------------------------------------
(* The steps of one session. *)

\* Failures, lost writes and restarts are only counted up.
LEMMA Worn ==
  ASSUME wear \in Wear, NEW what \in {"failures", "writes", "restarts"}, NEW max, Wears(what, max)
  PROVE  /\ wear' \in Wear /\ (wear'.writes = 0 => wear.writes = 0)
         /\ what = "writes" => wear'.writes # 0
<1> DEFINE n == wear[what] + 1
           v == [wear EXCEPT ![what] = n]
<1>1. wear' = v
  BY DEF Wears
<1>2. n \in Nat /\ n # 0
  BY DEF Wear
<1> HIDE DEF n
<1>3. v \in Wear
  BY <1>2 DEF Wear
<1>4. (what = "writes" => v.writes = n) /\ (what # "writes" => v.writes = wear.writes)
  BY DEF Wear
<1> QED BY <1>1, <1>2, <1>3, <1>4

\* The invariant, for one session.
LEMMA Local ==
  ASSUME Inv, NEW s \in Hosted
  PROVE  /\ Good(s)
         /\ entry[s].status \in Statuses \cup {"new", "gone"} /\ entry[s].busy \in Busy
         /\ entry[s].workload \in Nat /\ entry[s].epoch \in Nat /\ about[s] \in Nat
         /\ record[s] \in Statuses \cup {"none"} /\ outbox[s] \in Seq(Write) /\ pods[s] \subseteq Nat
         /\ removing[s] \subseteq [w : Nat, by : {"op", "none"}] /\ stray[s] \subseteq Strays
         /\ entry \in [Hosted -> Entry]
BY Typed, Fields DEF Inv

\* What a step of one session leaves of it.
Entries(s, status, busy, workload, epoch) ==
  /\ entry'[s].status = status /\ entry'[s].busy = busy
  /\ entry'[s].workload = workload /\ entry'[s].epoch = epoch

\* What the queue r that q becomes by a write at its end keeps of q.
Grows(q, r, status, by) ==
  /\ r \in Seq(Write) /\ r # <<>>
  /\ NoOp(q) /\ by # "op" => NoOp(r)
  /\ OneOp(q) /\ (NoOp(q) \/ by # "op") => OneOp(r)
  /\ NoBad(q) /\ ~(by # "late" /\ status \in {"failed", "suspended"}) => NoBad(r)
  /\ HasBad(q) \/ (by # "late" /\ status \in {"failed", "suspended"}) => HasBad(r)
  /\ NoOp(q) \/ (AfterOp(q) /\ ~(by # "late" /\ status \in {"failed", "suspended"})) => AfterOp(r)
  /\ OpStarts(q) /\ (by = "op" => status = "starting") => OpStarts(r)
  /\ NoRemoval(q) => NoRemoval(r)
  /\ OnlyHead(q) => OnlyHead(r)
  /\ Plain(q) /\ by # "late" => Plain(r)
  /\ HasStatus(q) \/ status # "same" => HasStatus(r)
  /\ HasRunning(q) \/ status = "running" => HasRunning(r)
  /\ NoStart(q) /\ status # "starting" => NoStart(r)
  /\ StartsByOp(q) /\ (status = "starting" => by = "op") => StartsByOp(r)
  /\ (by # "late" /\ status \in {"failed", "suspended"}) \/ (Answered(q) /\ status # "running")
       => Answered(r)
  /\ RemovalOf(r) = RemovalOf(q)
  /\ NoOp(q) => OneOp(q) /\ AfterOp(q) /\ OpStarts(q)

LEMMA Enqueued ==
  ASSUME Types, NEW s \in Hosted, NEW status \in Statuses \cup {"same"},
         NEW by \in {"op", "none", "late"}, Enqueue(s, status, by)
  PROVE  /\ outbox' \in [Hosted -> Seq(Write)]
         /\ \A t \in Hosted : t # s => outbox'[t] = outbox[t]
         /\ Grows(outbox[s], outbox'[s], status, by)
<1> DEFINE q == outbox[s]
           j == WriteOf(status, by)
           r == Append(q, j)
<1>1. /\ q \in Seq(Write) /\ j \in Write /\ j.status = status /\ j.by = by /\ j.removes = 0
      /\ Bad(j) <=> by # "late" /\ status \in {"failed", "suspended"}
  BY Typed, WriteOfIs
<1>2. outbox' = [outbox EXCEPT ![s] = r] /\ outbox \in [Hosted -> Seq(Write)]
  BY Typed DEF Enqueue, Queued
<1> HIDE DEF q, j
<1>3. r \in Seq(Write) /\ r # <<>> /\ Grows(q, r, status, by)
  BY <1>1, AppendQ, AnyQ, AppendProperties, EmptySeq DEF Grows
<1> QED BY <1>2, <1>3 DEF q

\* What the queue r that q becomes when its first write, h, is done keeps of q.
Shrinks(q, r, h) ==
  /\ r \in Seq(Write) /\ h \in Write /\ RemovalOf(q) = h.removes /\ q # <<>>
  /\ NoOp(q) => NoOp(r) /\ h.by # "op"
  /\ OneOp(q) => OneOp(r) /\ (h.by = "op" => NoOp(r))
  /\ NoBad(q) => NoBad(r) /\ ~Bad(h)
  /\ HasBad(q) => HasBad(r) \/ Bad(h)
  /\ AfterOp(q) => AfterOp(r) /\ (h.by = "op" => NoBad(r))
  /\ OpStarts(q) => OpStarts(r) /\ (h.by = "op" => h.status = "starting")
  /\ OnlyHead(q) => NoRemoval(r) /\ OnlyHead(r) /\ RemovalOf(r) = 0
  /\ Plain(q) => Plain(r) /\ h.by # "late"
  /\ HasStatus(q) => HasStatus(r) \/ h.status # "same"
  /\ HasRunning(q) => HasRunning(r) \/ h.status = "running"
  /\ NoStart(q) => NoStart(r) /\ h.status # "starting"
  /\ StartsByOp(q) => StartsByOp(r) /\ (h.status = "starting" => h.by = "op")
  /\ StartsByOp(q) /\ NoOp(r) => NoStart(r)
  /\ Answered(q) => Answered(r) /\ (h.status = "running" => HasBad(r))

LEMMA Shrunk ==
  ASSUME Types, NEW s \in Hosted, outbox[s] # <<>>, outbox' = [outbox EXCEPT ![s] = Tail(outbox[s])]
  PROVE  /\ outbox' \in [Hosted -> Seq(Write)]
         /\ \A t \in Hosted : t # s => outbox'[t] = outbox[t]
         /\ Shrinks(outbox[s], outbox'[s], Head(outbox[s]))
<1> DEFINE q == outbox[s]
           r == Tail(q)
           h == Head(q)
<1>1. q \in Seq(Write) /\ outbox \in [Hosted -> Seq(Write)] /\ q # <<>>
  BY Typed
<1>2. r \in Seq(Write) /\ h \in Write
  BY <1>1, TailQ
<1>3. outbox' = [outbox EXCEPT ![s] = r]
  OBVIOUS
<1> HIDE DEF q
<1>4. Shrinks(q, r, h)
  <2>1. (NoRemoval(r) => OnlyHead(r) /\ RemovalOf(r) = 0) /\ (NoOp(r) /\ StartsByOp(r) => NoStart(r))
    BY <1>2, AnyQ
  <2> QED BY <1>1, <1>2, <2>1, TailQ DEF Shrinks
<1> QED BY <1>1, <1>2, <1>3, <1>4 DEF q

\* What is kept of q when its first write, h, is done and the late one joins it.
Yields(q, r, h) ==
  /\ r \in Seq(Write) /\ h \in Write /\ RemovalOf(q) = h.removes /\ q # <<>> /\ r # <<>>
  /\ NoOp(q) => NoOp(r) /\ h.by # "op"
  /\ OneOp(q) => OneOp(r) /\ (h.by = "op" => NoOp(r))
  /\ NoBad(q) => NoBad(r)
  /\ AfterOp(q) => AfterOp(r)
  /\ OpStarts(q) => OpStarts(r)
  /\ OnlyHead(q) => NoRemoval(r) /\ OnlyHead(r) /\ RemovalOf(r) = 0
  /\ Plain(q) => h.removes = 0

LEMMA Yielded ==
  ASSUME Types, NEW s \in Hosted, outbox[s] # <<>>,
         outbox' = [outbox EXCEPT ![s] = Append(Tail(outbox[s]), WriteOf("failed", "late"))]
  PROVE  /\ outbox' \in [Hosted -> Seq(Write)]
         /\ \A t \in Hosted : t # s => outbox'[t] = outbox[t]
         /\ Yields(outbox[s], outbox'[s], Head(outbox[s]))
<1> DEFINE q == outbox[s]
           h == Head(q)
           j == WriteOf("failed", "late")
           m == Tail(q)
           r == Append(m, j)
<1>1. q \in Seq(Write) /\ outbox \in [Hosted -> Seq(Write)] /\ q # <<>>
  BY Typed
<1>2. j \in Write /\ j.by = "late" /\ j.status = "failed" /\ j.removes = 0 /\ ~Bad(j)
  BY WriteOfIs DEF Statuses
<1>3. outbox' = [outbox EXCEPT ![s] = r]
  OBVIOUS
<1>4. m \in Seq(Write) /\ h \in Write
  BY <1>1, TailQ
<1>5. Plain(q) => h.removes = 0
  BY <1>1, AnyQ, TailQ
<1> HIDE DEF j, q
<1>6. r \in Seq(Write) /\ r # <<>>
  <2> HIDE DEF m
  <2> QED BY <1>2, <1>4, AppendProperties
<1>7. NoRemoval(m) => NoRemoval(r) /\ OnlyHead(r) /\ RemovalOf(r) = 0
  BY <1>2, <1>4, <1>6, AppendQ, AnyQ
<1>8. Yields(q, r, h)
  <2>1. /\ NoOp(m) => NoOp(r)
        /\ OneOp(m) => OneOp(r)
        /\ NoBad(m) => NoBad(r)
        /\ AfterOp(m) => AfterOp(r)
        /\ OpStarts(m) => OpStarts(r)
    BY <1>2, <1>4, AppendQ
  <2>2. /\ RemovalOf(q) = h.removes
        /\ NoOp(q) => NoOp(m) /\ h.by # "op"
        /\ OneOp(q) => OneOp(m) /\ (h.by = "op" => NoOp(m))
        /\ NoBad(q) => NoBad(m)
        /\ AfterOp(q) => AfterOp(m)
        /\ OpStarts(q) => OpStarts(m)
        /\ OnlyHead(q) => NoRemoval(m)
    BY <1>1, TailQ
  <2> HIDE DEF m, r, h
  <2> QED BY <1>1, <1>4, <1>5, <1>6, <1>7, <2>1, <2>2 DEF Yields
<1> QED BY <1>1, <1>3, <1>6, <1>8 DEF q

LEMMA Marked ==
  ASSUME Types, NEW s \in Hosted, outbox[s] # <<>>,
         outbox' = [outbox EXCEPT ![s][1].removes = entry[s].workload]
  PROVE  /\ outbox' \in [Hosted -> Seq(Write)]
         /\ \A t \in Hosted : t # s => outbox'[t] = outbox[t]
         /\ Marks(outbox[s], outbox'[s], entry[s].workload)
<1> DEFINE q == outbox[s]
           w == entry[s].workload
           r == [q EXCEPT ![1].removes = w]
<1>1. q \in Seq(Write) /\ outbox \in [Hosted -> Seq(Write)] /\ q # <<>> /\ w \in Nat
  BY Typed, Fields
<1>2. outbox' = [outbox EXCEPT ![s] = r]
  OBVIOUS
<1> HIDE DEF q, w
<1>3. r = [q EXCEPT ![1].removes = w]
  OBVIOUS
<1> HIDE DEF r
<1>4. Marks(q, r, w)
  BY <1>1, <1>3, MarkQ
<1>5. r \in Seq(Write)
  BY <1>4 DEF Marks
<1> QED BY <1>1, <1>2, <1>4, <1>5 DEF q, w

\* The write at the head of a queue, and what the session shows and its record says when
\* it is done.
First(s) == Head(outbox[s])
Shows(s) == IF Registered(s) /\ First(s).status # "same" THEN First(s).status ELSE entry[s].status
Stores(s) == IF record[s] = "none" \/ First(s).status = "same" THEN record[s] ELSE First(s).status

USE DEF Bsy, Current, Entries, Making, Boot, Leaving, Waiting, Works

\* A create is admitted, and its slot reserved (create).
LEMMA AskCreateStep ==
  ASSUME Inv, NEW s \in Hosted, AskCreate(s)
  PROVE  Inv'
<1>1. /\ Types /\ Good(s) /\ entry[s].workload \in Nat /\ entry[s].epoch \in Nat /\ about[s] \in Nat
      /\ pods[s] \subseteq Nat /\ outbox[s] \in Seq(Write)
      /\ entry[s].status = "new" /\ entry[s].busy # "sweeping" /\ Listening
  BY Local DEF Inv, AskCreate, At, Listening
<1>2. Becomes(entry', s, entry[s].status, entry[s].busy, entry[s].workload, entry[s].epoch)
  BY <1>1, Typed, Fields DEF AskCreate, Becomes
<1>3. /\ reserved' = reserved \cup {s}
      /\ UNCHANGED <<record, about, outbox, removing, pods, stray, wear>>
  BY <1>1 DEF AskCreate
<1>4. Types'
  BY <1>1, <1>2, <1>3, Typed DEF Types, SessionsTypeOK, Becomes, Entry, Write, Statuses
<1>5. /\ Alone(s) /\ Entries(s, entry[s].status, entry[s].busy, entry[s].workload, entry[s].epoch)
      /\ record'[s] = record[s]
      /\ about'[s] = about[s]
      /\ outbox'[s] = outbox[s]
      /\ removing'[s] = removing[s]
      /\ pods'[s] = pods[s]
      /\ stray'[s] = stray[s]
      /\ wear'.writes = 0 => wear.writes = 0
  BY <1>1, <1>2, <1>3, Typed DEF Alone, Becomes
<1>6. Numbers(s)'
  BY <1>1, <1>5 DEF Good, Numbers
<1>7. Outside(s)'
  BY <1>1, <1>5 DEF Good, Outside, Registered, Statuses
<1>8. (Orderly(s) => Ordered(s))'
  BY <1>1, <1>5 DEF Good, Numbers, Orderly, Ordered, Live
<1>9. (Tame(s) => Held(s))'
  BY <1>1, <1>5 DEF Good, Numbers, Orderly, Ordered, Tame, Held
<1>10. (Known(s) => Told(s))'
  BY <1>1, <1>5 DEF Good, Orderly, Ordered, Known, Told, Registered, Statuses
<1> QED BY <1>4, <1>5, <1>6, <1>7, <1>8, <1>9, <1>10, StepOK DEF Good

\* The backend has the workload up.
LEMMA ComesUpStep ==
  ASSUME Inv, NEW s \in Hosted, ComesUp(s)
  PROVE  Inv'
<1>1. /\ Types /\ Good(s) /\ entry[s].workload \in Nat /\ entry[s].epoch \in Nat /\ about[s] \in Nat
      /\ pods[s] \subseteq Nat /\ outbox[s] \in Seq(Write)
      /\ entry[s].busy = "creating" /\ "up" \in Busy
  BY Local DEF Inv, ComesUp, At, Busy
<1>2. Becomes(entry', s, entry[s].status, "up", entry[s].workload, entry[s].epoch)
  BY <1>1, Typed, GoesTo DEF ComesUp, Goto
<1>3. /\ pods' = [pods EXCEPT ![s] = pods[s] \cup {about[s]}]
      /\ UNCHANGED <<record, about, outbox, removing, stray, reserved, wear>>
  BY <1>1 DEF ComesUp
<1>4. Types'
  BY <1>1, <1>2, <1>3, Typed DEF Types, SessionsTypeOK, Becomes, Entry, Write, Statuses
<1>5. /\ Alone(s) /\ Entries(s, entry[s].status, "up", entry[s].workload, entry[s].epoch)
      /\ record'[s] = record[s]
      /\ about'[s] = about[s]
      /\ outbox'[s] = outbox[s]
      /\ removing'[s] = removing[s]
      /\ pods'[s] = pods[s] \cup {about[s]}
      /\ stray'[s] = stray[s]
      /\ reserved' = reserved
      /\ wear'.writes = 0 => wear.writes = 0
  BY <1>1, <1>2, <1>3, Typed DEF Alone, Becomes
<1>6. Numbers(s)'
  BY <1>1, <1>5 DEF Good, Numbers
<1>7. Outside(s)'
  BY <1>1, <1>5 DEF Good, Outside, Registered, Statuses
<1>8. (Orderly(s) => Ordered(s))'
  BY <1>1, <1>5 DEF Good, Numbers, Orderly, Ordered, Live
<1>9. (Tame(s) => Held(s))'
  <2>1. CASE Tame(s)
    <3>1. Held(s) /\ Ordered(s) /\ Numbers(s)
      BY <1>1, <2>1 DEF Good, Tame, Orderly
    <3>2. RemovalOf(outbox[s]) = 0 /\ removing[s] = {} /\ entry[s].workload = 0
      BY <1>1, <3>1, AnyQ DEF Ordered
    <3>3. pods[s] = {}
      BY <1>1, <3>1, <3>2 DEF Held, Numbers
    <3> QED BY <1>1, <1>5, <3>1, <3>2, <3>3 DEF Held, Ordered
  <2>2. CASE ~Tame(s)
    BY <2>2, <1>5 DEF Tame
  <2> QED BY <2>1, <2>2
<1>10. (Known(s) => Told(s))'
  BY <1>1, <1>5 DEF Good, Orderly, Ordered, Known, Told, Registered, Statuses
<1> QED BY <1>4, <1>5, <1>6, <1>7, <1>8, <1>9, <1>10, StepOK DEF Good

\* A resume is admitted, and its write queued (resume).
LEMMA AskResumeStep ==
  ASSUME Inv, NEW s \in Hosted, AskResume(s)
  PROVE  Inv'
<1>1. /\ Types /\ Good(s) /\ entry[s].workload \in Nat /\ entry[s].epoch \in Nat /\ about[s] \in Nat
      /\ pods[s] \subseteq Nat /\ outbox[s] \in Seq(Write)
      /\ entry[s].status \in {"suspended", "failed"} /\ entry[s].busy = "idle" /\ "resuming" \in Busy
      /\ Listening
  BY Local DEF Inv, AskResume, At, Idle, Busy
<1>2. Becomes(entry', s, entry[s].status, "resuming", entry[s].workload, entry[s].epoch)
  BY <1>1, Typed, GoesTo DEF AskResume, Goto
<1>3. /\ stray' = [stray EXCEPT ![s] = IF removing[s] = {} THEN stray[s] ELSE stray[s] \cup {"outrun"}]
      /\ Enqueue(s, "starting", "op")
      /\ UNCHANGED <<record, about, removing, pods, reserved, wear>>
  BY <1>1 DEF AskResume
<1>4. Types'
  BY <1>1, <1>2, <1>3, Typed, Enqueued DEF Types, SessionsTypeOK, Becomes, Entry, Write,
     Statuses, Strays
<1>5. /\ Alone(s) /\ Entries(s, entry[s].status, "resuming", entry[s].workload, entry[s].epoch)
      /\ record'[s] = record[s]
      /\ about'[s] = about[s]
      /\ Grows(outbox[s], outbox'[s], "starting", "op")
      /\ removing'[s] = removing[s]
      /\ pods'[s] = pods[s]
      /\ stray'[s] = IF removing[s] = {} THEN stray[s] ELSE stray[s] \cup {"outrun"}
      /\ reserved' = reserved
      /\ wear'.writes = 0 => wear.writes = 0
  BY <1>1, <1>2, <1>3, Typed, Enqueued DEF Alone, Becomes, Statuses
<1>6. Numbers(s)'
  BY <1>1, <1>5 DEF Good, Numbers, Grows
<1>7. Outside(s)'
  BY <1>1, <1>5 DEF Good, Outside, Registered, Statuses, Grows
<1>8. (Orderly(s) => Ordered(s))'
  <2>1. CASE removing[s] = {} /\ Orderly(s)
    <3>1. Ordered(s)
      BY <1>1, <2>1 DEF Good
    <3>2. NoRemoval(outbox[s]) /\ entry[s].workload = 0
      BY <1>1, <3>1, AnyQ DEF Ordered, Live
    <3> QED BY <1>1, <1>5, <2>1, <3>1, <3>2 DEF Ordered, Live, Grows
  <2>2. CASE ~(removing[s] = {} /\ Orderly(s))
    BY <1>1, <1>5, <2>2 DEF Orderly
  <2> QED BY <2>1, <2>2
<1>9. (Tame(s) => Held(s))'
  BY <1>1, <1>5 DEF Good, Numbers, Orderly, Ordered, Tame, Held, Grows
<1>10. (Known(s) => Told(s))'
  BY <1>1, <1>5 DEF Good, Orderly, Ordered, Known, Told, Registered, Statuses, Grows
<1> QED BY <1>4, <1>5, <1>6, <1>7, <1>8, <1>9, <1>10, StepOK DEF Good

\* The store has the record of a create, or refused it (create).
LEMMA RegisterStep ==
  ASSUME Inv, NEW s \in Hosted, Register(s)
  PROVE  Inv'
<1>1. CASE /\ record' = [record EXCEPT ![s] = "starting"]
           /\ entry' = [Started(s) EXCEPT ![s].status = "starting"]
           /\ about' = [about EXCEPT ![s] = entry[s].epoch + 1]
  <2>1. /\ Types /\ Good(s) /\ entry[s].workload \in Nat /\ entry[s].epoch \in Nat /\ about[s] \in Nat
        /\ pods[s] \subseteq Nat /\ outbox[s] \in Seq(Write)
        /\ s \in reserved
    BY <1>1, Local DEF Inv, Register, At
  <2>2. Becomes(entry', s, "starting", "creating", entry[s].workload, entry[s].epoch + 1)
    BY <1>1, <2>1, Typed, StartsTo DEF Register
  <2>3. /\ record' = [record EXCEPT ![s] = "starting"]
        /\ about' = [about EXCEPT ![s] = entry[s].epoch + 1]
        /\ reserved' = reserved \ {s}
        /\ UNCHANGED <<outbox, removing, pods, stray, wear>>
    BY <1>1, <2>1 DEF Register
  <2>4. Types'
    BY <2>1, <2>2, <2>3, Typed DEF Types, SessionsTypeOK, Becomes, Entry, Write, Statuses
  <2>5. /\ Alone(s) /\ Entries(s, "starting", "creating", entry[s].workload, entry[s].epoch + 1)
        /\ record'[s] = "starting"
        /\ about'[s] = entry[s].epoch + 1
        /\ outbox'[s] = outbox[s]
        /\ removing'[s] = removing[s]
        /\ pods'[s] = pods[s]
        /\ stray'[s] = stray[s]
        /\ s \notin reserved'
        /\ wear'.writes = 0 => wear.writes = 0
    BY <1>1, <2>1, <2>2, <2>3, Typed DEF Alone, Becomes
  <2>6. Numbers(s)'
    BY <1>1, <2>1, <2>5 DEF Good, Numbers
  <2>7. Outside(s)'
    BY <1>1, <2>1, <2>5 DEF Good, Outside, Registered, Statuses
  <2>8. (Orderly(s) => Ordered(s))'
    BY <1>1, <2>1, <2>5, EmptyQ DEF Good, Numbers, Orderly, Ordered, Live, Outside
  <2>9. (Tame(s) => Held(s))'
    BY <1>1, <2>1, <2>5, EmptyQ DEF Good, Numbers, Orderly, Ordered, Tame, Held, Outside
  <2>10. (Known(s) => Told(s))'
    BY <1>1, <2>1, <2>5, EmptyQ DEF Good, Orderly, Ordered, Known, Told, Registered, Statuses, Outside
  <2> QED BY <2>4, <2>5, <2>6, <2>7, <2>8, <2>9, <2>10, StepOK DEF Good
<1>2. CASE UNCHANGED <<record, entry, about>>
  <2>1. /\ Types /\ Good(s) /\ entry[s].workload \in Nat /\ entry[s].epoch \in Nat /\ about[s] \in Nat
        /\ pods[s] \subseteq Nat /\ outbox[s] \in Seq(Write)
        /\ s \in reserved
    BY <1>2, Local DEF Inv, Register, At
  <2>2. Becomes(entry', s, entry[s].status, entry[s].busy, entry[s].workload, entry[s].epoch)
    BY <1>2, <2>1, Typed, Fields DEF Register, Becomes
  <2>3. /\ reserved' = reserved \ {s}
        /\ UNCHANGED <<record, about, outbox, removing, pods, stray, wear>>
    BY <1>2, <2>1 DEF Register
  <2>4. Types'
    BY <2>1, <2>2, <2>3, Typed DEF Types, SessionsTypeOK, Becomes, Entry, Write, Statuses
  <2>5. /\ Alone(s) /\ Entries(s, entry[s].status, entry[s].busy, entry[s].workload, entry[s].epoch)
        /\ record'[s] = record[s]
        /\ about'[s] = about[s]
        /\ outbox'[s] = outbox[s]
        /\ removing'[s] = removing[s]
        /\ pods'[s] = pods[s]
        /\ stray'[s] = stray[s]
        /\ s \notin reserved'
        /\ wear'.writes = 0 => wear.writes = 0
    BY <1>2, <2>1, <2>2, <2>3, Typed DEF Alone, Becomes
  <2>6. Numbers(s)'
    BY <1>2, <2>1, <2>5 DEF Good, Numbers
  <2>7. Outside(s)'
    BY <1>2, <2>1, <2>5 DEF Good, Outside, Registered, Statuses
  <2>8. (Orderly(s) => Ordered(s))'
    BY <1>2, <2>1, <2>5 DEF Good, Numbers, Orderly, Ordered, Live
  <2>9. (Tame(s) => Held(s))'
    BY <1>2, <2>1, <2>5 DEF Good, Numbers, Orderly, Ordered, Tame, Held
  <2>10. (Known(s) => Told(s))'
    BY <1>2, <2>1, <2>5 DEF Good, Orderly, Ordered, Known, Told, Registered, Statuses
  <2> QED BY <2>4, <2>5, <2>6, <2>7, <2>8, <2>9, <2>10, StepOK DEF Good
<1> QED BY <1>1, <1>2 DEF Register

\* A creation resolves, in its epoch or given up on (startWorkload).
LEMMA ResolvesStep ==
  ASSUME Inv, NEW s \in Hosted, Resolves(s)
  PROVE  Inv'
<1>1. CASE /\ entry[s].epoch = about[s]
           /\ entry' = [entry EXCEPT ![s].workload = about[s], ![s].busy = "idle"]
           /\ Enqueue(s, "running", "none")
  <2>1. /\ Types /\ Good(s) /\ entry[s].workload \in Nat /\ entry[s].epoch \in Nat /\ about[s] \in Nat
        /\ pods[s] \subseteq Nat /\ outbox[s] \in Seq(Write)
        /\ entry[s].busy = "up"
    BY <1>1, Local DEF Inv, Resolves, At
  <2>2. Becomes(entry', s, entry[s].status, "idle", about[s], entry[s].epoch)
    BY <1>1, <2>1, Typed, TakesUp
  <2>3. /\ Enqueue(s, "running", "none")
        /\ UNCHANGED <<record, about, removing, pods, stray, reserved, wear>>
    BY <1>1, <2>1 DEF Resolves
  <2>4. Types'
    BY <2>1, <2>2, <2>3, Typed, Enqueued DEF Types, SessionsTypeOK, Becomes, Entry, Write, Statuses
  <2>5. /\ Alone(s) /\ Entries(s, entry[s].status, "idle", about[s], entry[s].epoch)
        /\ record'[s] = record[s]
        /\ about'[s] = about[s]
        /\ Grows(outbox[s], outbox'[s], "running", "none")
        /\ removing'[s] = removing[s]
        /\ pods'[s] = pods[s]
        /\ stray'[s] = stray[s]
        /\ reserved' = reserved
        /\ wear'.writes = 0 => wear.writes = 0
    BY <1>1, <2>1, <2>2, <2>3, Typed, Enqueued DEF Alone, Becomes, Statuses
  <2>6. Numbers(s)'
    BY <1>1, <2>1, <2>5 DEF Good, Numbers, Grows
  <2>7. Outside(s)'
    BY <1>1, <2>1, <2>5 DEF Good, Outside, Registered, Statuses, Grows
  <2>8. (Orderly(s) => Ordered(s))'
    BY <1>1, <2>1, <2>5 DEF Good, Numbers, Orderly, Ordered, Live, Grows
  <2>9. (Tame(s) => Held(s))'
    BY <1>1, <2>1, <2>5 DEF Good, Numbers, Orderly, Ordered, Tame, Held, Grows
  <2>10. (Known(s) => Told(s))'
    BY <1>1, <2>1, <2>5 DEF Good, Orderly, Ordered, Known, Told, Registered, Statuses, Grows,
       Numbers, Live
  <2> QED BY <2>4, <2>5, <2>6, <2>7, <2>8, <2>9, <2>10, StepOK DEF Good
<1>2. CASE entry[s].epoch # about[s] /\ Goto(s, "discarding") /\ UNCHANGED outbox
  <2>1. /\ Types /\ Good(s) /\ entry[s].workload \in Nat /\ entry[s].epoch \in Nat /\ about[s] \in Nat
        /\ pods[s] \subseteq Nat /\ outbox[s] \in Seq(Write)
        /\ entry[s].busy = "up" /\ "discarding" \in Busy
    BY <1>2, Local DEF Inv, Resolves, At, Busy
  <2>2. Becomes(entry', s, entry[s].status, "discarding", entry[s].workload, entry[s].epoch)
    BY <1>2, <2>1, Typed, GoesTo DEF Resolves, Goto
  <2>3. /\ UNCHANGED <<record, about, outbox, removing, pods, stray, reserved, wear>>
    BY <1>2, <2>1 DEF Resolves
  <2>4. Types'
    BY <2>1, <2>2, <2>3, Typed DEF Types, SessionsTypeOK, Becomes, Entry, Write, Statuses
  <2>5. /\ Alone(s) /\ Entries(s, entry[s].status, "discarding", entry[s].workload, entry[s].epoch)
        /\ record'[s] = record[s]
        /\ about'[s] = about[s]
        /\ outbox'[s] = outbox[s]
        /\ removing'[s] = removing[s]
        /\ pods'[s] = pods[s]
        /\ stray'[s] = stray[s]
        /\ reserved' = reserved
        /\ wear'.writes = 0 => wear.writes = 0
    BY <1>2, <2>1, <2>2, <2>3, Typed DEF Alone, Becomes
  <2>6. Numbers(s)'
    BY <1>2, <2>1, <2>5 DEF Good, Numbers
  <2>7. Outside(s)'
    BY <1>2, <2>1, <2>5 DEF Good, Outside, Registered, Statuses
  <2>8. (Orderly(s) => Ordered(s))'
    BY <1>2, <2>1, <2>5 DEF Good, Numbers, Orderly, Ordered, Live
  <2>9. (Tame(s) => Held(s))'
    BY <1>2, <2>1, <2>5 DEF Good, Numbers, Orderly, Ordered, Tame, Held
  <2>10. (Known(s) => Told(s))'
    BY <1>2, <2>1, <2>5 DEF Good, Orderly, Ordered, Known, Told, Registered, Statuses
  <2> QED BY <2>4, <2>5, <2>6, <2>7, <2>8, <2>9, <2>10, StepOK DEF Good
<1> QED BY <1>1, <1>2 DEF Resolves

\* The workload of a creation given up on is removed (startWorkload).
LEMMA DiscardsStep ==
  ASSUME Inv, NEW s \in Hosted, Discards(s)
  PROVE  Inv'
<1>1. CASE pods' = [pods EXCEPT ![s] = pods[s] \ {about[s]}] /\ UNCHANGED <<stray, wear>>
  <2>1. /\ Types /\ Good(s) /\ entry[s].workload \in Nat /\ entry[s].epoch \in Nat /\ about[s] \in Nat
        /\ pods[s] \subseteq Nat /\ outbox[s] \in Seq(Write)
        /\ entry[s].busy = "discarding" /\ "idle" \in Busy
    BY <1>1, Local DEF Inv, Discards, At, Busy
  <2>2. Becomes(entry', s, entry[s].status, "idle", entry[s].workload, entry[s].epoch)
    BY <1>1, <2>1, Typed, GoesTo DEF Discards, Goto
  <2>3. /\ pods' = [pods EXCEPT ![s] = pods[s] \ {about[s]}]
        /\ UNCHANGED <<record, about, outbox, removing, stray, reserved, wear>>
    BY <1>1, <2>1 DEF Discards
  <2>4. Types'
    BY <2>1, <2>2, <2>3, Typed DEF Types, SessionsTypeOK, Becomes, Entry, Write, Statuses
  <2>5. /\ Alone(s) /\ Entries(s, entry[s].status, "idle", entry[s].workload, entry[s].epoch)
        /\ record'[s] = record[s]
        /\ about'[s] = about[s]
        /\ outbox'[s] = outbox[s]
        /\ removing'[s] = removing[s]
        /\ pods'[s] = pods[s] \ {about[s]}
        /\ stray'[s] = stray[s]
        /\ reserved' = reserved
        /\ wear'.writes = 0 => wear.writes = 0
    BY <1>1, <2>1, <2>2, <2>3, Typed DEF Alone, Becomes
  <2>6. Numbers(s)'
    BY <1>1, <2>1, <2>5 DEF Good, Numbers
  <2>7. Outside(s)'
    BY <1>1, <2>1, <2>5 DEF Good, Outside, Registered, Statuses
  <2>8. (Orderly(s) => Ordered(s))'
    BY <1>1, <2>1, <2>5 DEF Good, Numbers, Orderly, Ordered, Live
  <2>9. (Tame(s) => Held(s))'
    BY <1>1, <2>1, <2>5 DEF Good, Numbers, Orderly, Ordered, Tame, Held
  <2>10. (Known(s) => Told(s))'
    BY <1>1, <2>1, <2>5 DEF Good, Orderly, Ordered, Known, Told, Registered, Statuses
  <2> QED BY <2>4, <2>5, <2>6, <2>7, <2>8, <2>9, <2>10, StepOK DEF Good
<1>2. CASE /\ Wears("failures", MaxFailures)
           /\ stray' = [stray EXCEPT ![s] = stray[s] \cup {"refused"}]
           /\ UNCHANGED pods
  <2>1. /\ Types /\ Good(s) /\ entry[s].workload \in Nat /\ entry[s].epoch \in Nat /\ about[s] \in Nat
        /\ pods[s] \subseteq Nat /\ outbox[s] \in Seq(Write)
        /\ entry[s].busy = "discarding" /\ "idle" \in Busy
    BY <1>2, Local DEF Inv, Discards, At, Busy
  <2>2. Becomes(entry', s, entry[s].status, "idle", entry[s].workload, entry[s].epoch)
    BY <1>2, <2>1, Typed, GoesTo DEF Discards, Goto
  <2>3. /\ stray' = [stray EXCEPT ![s] = stray[s] \cup {"refused"}]
        /\ Wears("failures", MaxFailures)
        /\ UNCHANGED <<record, about, outbox, removing, pods, reserved>>
    BY <1>2, <2>1 DEF Discards
  <2>4. Types'
    BY <2>1, <2>2, <2>3, Typed, Worn DEF Types, SessionsTypeOK, Becomes, Entry, Write, Statuses, Strays
  <2>5. /\ Alone(s) /\ Entries(s, entry[s].status, "idle", entry[s].workload, entry[s].epoch)
        /\ record'[s] = record[s]
        /\ about'[s] = about[s]
        /\ outbox'[s] = outbox[s]
        /\ removing'[s] = removing[s]
        /\ pods'[s] = pods[s]
        /\ stray'[s] = stray[s] \cup {"refused"}
        /\ reserved' = reserved
        /\ wear'.writes = 0 => wear.writes = 0
    BY <1>2, <2>1, <2>2, <2>3, Typed, Worn DEF Alone, Becomes
  <2>6. Numbers(s)'
    BY <1>2, <2>1, <2>5 DEF Good, Numbers
  <2>7. Outside(s)'
    BY <1>2, <2>1, <2>5 DEF Good, Outside, Registered, Statuses
  <2>8. (Orderly(s) => Ordered(s))'
    BY <1>2, <2>1, <2>5 DEF Good, Numbers, Orderly, Ordered, Live
  <2>9. (Tame(s) => Held(s))'
    BY <1>2, <2>1, <2>5 DEF Good, Numbers, Orderly, Ordered, Tame, Held
  <2>10. (Known(s) => Told(s))'
    BY <1>2, <2>1, <2>5 DEF Good, Orderly, Ordered, Known, Told, Registered, Statuses
  <2> QED BY <2>4, <2>5, <2>6, <2>7, <2>8, <2>9, <2>10, StepOK DEF Good
<1> QED BY <1>1, <1>2 DEF Discards, Remove

\* A suspend begins (suspend).
LEMMA AskSuspendStep ==
  ASSUME Inv, NEW s \in Hosted, AskSuspend(s)
  PROVE  Inv'
<1>1. /\ Types /\ Good(s) /\ entry[s].workload \in Nat /\ entry[s].epoch \in Nat /\ about[s] \in Nat
      /\ pods[s] \subseteq Nat /\ outbox[s] \in Seq(Write)
      /\ entry[s].busy = "idle" /\ entry[s].status = "running" /\ entry[s].workload # 0
      /\ "suspending" \in Busy
  BY Local DEF Inv, AskSuspend, At, Busy, Idle
<1>2. Becomes(entry', s, entry[s].status, "suspending", entry[s].workload, entry[s].epoch)
  BY <1>1, Typed, GoesTo DEF AskSuspend, Goto
<1>3. /\ about' = [about EXCEPT ![s] = entry[s].workload]
      /\ UNCHANGED <<record, outbox, removing, pods, stray, reserved, wear>>
  BY <1>1 DEF AskSuspend
<1>4. Types'
  BY <1>1, <1>2, <1>3, Typed DEF Types, SessionsTypeOK, Becomes, Entry, Write, Statuses
<1>5. /\ Alone(s) /\ Entries(s, entry[s].status, "suspending", entry[s].workload, entry[s].epoch)
      /\ record'[s] = record[s]
      /\ about'[s] = entry[s].workload
      /\ outbox'[s] = outbox[s]
      /\ removing'[s] = removing[s]
      /\ pods'[s] = pods[s]
      /\ stray'[s] = stray[s]
      /\ reserved' = reserved
      /\ wear'.writes = 0 => wear.writes = 0
  BY <1>1, <1>2, <1>3, Typed DEF Alone, Becomes
<1>6. Numbers(s)'
  BY <1>1, <1>5 DEF Good, Numbers
<1>7. Outside(s)'
  BY <1>1, <1>5 DEF Good, Outside, Registered, Statuses
<1>8. (Orderly(s) => Ordered(s))'
  BY <1>1, <1>5 DEF Good, Numbers, Orderly, Ordered, Live
<1>9. (Tame(s) => Held(s))'
  BY <1>1, <1>5 DEF Good, Numbers, Orderly, Ordered, Tame, Held
<1>10. (Known(s) => Told(s))'
  BY <1>1, <1>5 DEF Good, Orderly, Ordered, Known, Told, Registered, Statuses
<1> QED BY <1>4, <1>5, <1>6, <1>7, <1>8, <1>9, <1>10, StepOK DEF Good

\* The backend suspends a workload, or refuses (suspend).
LEMMA SuspendsStep ==
  ASSUME Inv, NEW s \in Hosted, Suspends(s)
  PROVE  Inv'
<1>1. CASE /\ pods' = [pods EXCEPT ![s] = pods[s] \ {about[s]}]
           /\ entry' = Dropped(s, "settling")
           /\ Enqueue(s, "suspended", "op")
           /\ UNCHANGED wear
  <2>1. /\ Types /\ Good(s) /\ entry[s].workload \in Nat /\ entry[s].epoch \in Nat /\ about[s] \in Nat
        /\ pods[s] \subseteq Nat /\ outbox[s] \in Seq(Write)
        /\ entry[s].busy = "suspending" /\ "settling" \in Busy
    BY <1>1, Local DEF Inv, Suspends, At, Busy
  <2>2. Becomes(entry', s, entry[s].status, "settling", 0, entry[s].epoch + 1)
    BY <1>1, <2>1, Typed, DropsTo DEF Suspends
  <2>3. /\ pods' = [pods EXCEPT ![s] = pods[s] \ {about[s]}]
        /\ Enqueue(s, "suspended", "op")
        /\ UNCHANGED <<record, about, removing, stray, reserved, wear>>
    BY <1>1, <2>1 DEF Suspends
  <2>4. Types'
    BY <2>1, <2>2, <2>3, Typed, Enqueued DEF Types, SessionsTypeOK, Becomes, Entry, Write, Statuses
  <2>5. /\ Alone(s) /\ Entries(s, entry[s].status, "settling", 0, entry[s].epoch + 1)
        /\ record'[s] = record[s]
        /\ about'[s] = about[s]
        /\ Grows(outbox[s], outbox'[s], "suspended", "op")
        /\ removing'[s] = removing[s]
        /\ pods'[s] = pods[s] \ {about[s]}
        /\ stray'[s] = stray[s]
        /\ reserved' = reserved
        /\ wear'.writes = 0 => wear.writes = 0
    BY <1>1, <2>1, <2>2, <2>3, Typed, Enqueued DEF Alone, Becomes, Statuses
  <2>6. Numbers(s)'
    BY <1>1, <2>1, <2>5 DEF Good, Numbers, Grows
  <2>7. Outside(s)'
    BY <1>1, <2>1, <2>5 DEF Good, Outside, Registered, Statuses, Grows
  <2>8. (Orderly(s) => Ordered(s))'
    BY <1>1, <2>1, <2>5 DEF Good, Numbers, Orderly, Ordered, Live, Grows
  <2>9. (Tame(s) => Held(s))'
    BY <1>1, <2>1, <2>5 DEF Good, Numbers, Orderly, Ordered, Tame, Held, Grows
  <2>10. (Known(s) => Told(s))'
    BY <1>1, <2>1, <2>5 DEF Good, Orderly, Ordered, Known, Told, Registered, Statuses, Grows
  <2> QED BY <2>4, <2>5, <2>6, <2>7, <2>8, <2>9, <2>10, StepOK DEF Good
<1>2. CASE Wears("failures", MaxFailures) /\ Goto(s, "idle") /\ UNCHANGED <<pods, outbox>>
  <2>1. /\ Types /\ Good(s) /\ entry[s].workload \in Nat /\ entry[s].epoch \in Nat /\ about[s] \in Nat
        /\ pods[s] \subseteq Nat /\ outbox[s] \in Seq(Write)
        /\ entry[s].busy = "suspending" /\ "idle" \in Busy
    BY <1>2, Local DEF Inv, Suspends, At, Busy
  <2>2. Becomes(entry', s, entry[s].status, "idle", entry[s].workload, entry[s].epoch)
    BY <1>2, <2>1, Typed, GoesTo DEF Suspends, Goto
  <2>3. /\ Wears("failures", MaxFailures)
        /\ UNCHANGED <<record, about, outbox, removing, pods, stray, reserved>>
    BY <1>2, <2>1 DEF Suspends
  <2>4. Types'
    BY <2>1, <2>2, <2>3, Typed, Worn DEF Types, SessionsTypeOK, Becomes, Entry, Write, Statuses
  <2>5. /\ Alone(s) /\ Entries(s, entry[s].status, "idle", entry[s].workload, entry[s].epoch)
        /\ record'[s] = record[s]
        /\ about'[s] = about[s]
        /\ outbox'[s] = outbox[s]
        /\ removing'[s] = removing[s]
        /\ pods'[s] = pods[s]
        /\ stray'[s] = stray[s]
        /\ reserved' = reserved
        /\ wear'.writes = 0 => wear.writes = 0
    BY <1>2, <2>1, <2>2, <2>3, Typed, Worn DEF Alone, Becomes
  <2>6. Numbers(s)'
    BY <1>2, <2>1, <2>5 DEF Good, Numbers
  <2>7. Outside(s)'
    BY <1>2, <2>1, <2>5 DEF Good, Outside, Registered, Statuses
  <2>8. (Orderly(s) => Ordered(s))'
    BY <1>2, <2>1, <2>5 DEF Good, Numbers, Orderly, Ordered, Live
  <2>9. (Tame(s) => Held(s))'
    BY <1>2, <2>1, <2>5 DEF Good, Numbers, Orderly, Ordered, Tame, Held
  <2>10. (Known(s) => Told(s))'
    BY <1>2, <2>1, <2>5 DEF Good, Orderly, Ordered, Known, Told, Registered, Statuses
  <2> QED BY <2>4, <2>5, <2>6, <2>7, <2>8, <2>9, <2>10, StepOK DEF Good
<1> QED BY <1>1, <1>2 DEF Suspends

\* A delete begins (delete).
LEMMA AskDeleteStep ==
  ASSUME Inv, NEW s \in Hosted, AskDelete(s)
  PROVE  Inv'
<1>1. CASE entry[s].workload = 0
  <2>1. /\ Types /\ Good(s) /\ entry[s].workload \in Nat /\ entry[s].epoch \in Nat /\ about[s] \in Nat
        /\ pods[s] \subseteq Nat /\ outbox[s] \in Seq(Write)
        /\ entry[s].busy = "idle" /\ Registered(s) /\ "destroy" \in Busy
    BY <1>1, Local DEF Inv, AskDelete, At, Busy, Idle
  <2>2. Becomes(entry', s, entry[s].status, "destroy", entry[s].workload, entry[s].epoch)
    BY <1>1, <2>1, Typed, GoesTo DEF AskDelete, Goto
  <2>3. /\ about' = [about EXCEPT ![s] = entry[s].workload]
        /\ UNCHANGED <<record, outbox, removing, pods, stray, reserved, wear>>
    BY <1>1, <2>1 DEF AskDelete
  <2>4. Types'
    BY <2>1, <2>2, <2>3, Typed DEF Types, SessionsTypeOK, Becomes, Entry, Write, Statuses
  <2>5. /\ Alone(s) /\ Entries(s, entry[s].status, "destroy", entry[s].workload, entry[s].epoch)
        /\ record'[s] = record[s]
        /\ about'[s] = entry[s].workload
        /\ outbox'[s] = outbox[s]
        /\ removing'[s] = removing[s]
        /\ pods'[s] = pods[s]
        /\ stray'[s] = stray[s]
        /\ reserved' = reserved
        /\ wear'.writes = 0 => wear.writes = 0
    BY <1>1, <2>1, <2>2, <2>3, Typed DEF Alone, Becomes
  <2>6. Numbers(s)'
    BY <1>1, <2>1, <2>5 DEF Good, Numbers
  <2>7. Outside(s)'
    BY <1>1, <2>1, <2>5 DEF Good, Outside, Registered, Statuses
  <2>8. (Orderly(s) => Ordered(s))'
    BY <1>1, <2>1, <2>5 DEF Good, Numbers, Orderly, Ordered, Live
  <2>9. (Tame(s) => Held(s))'
    BY <1>1, <2>1, <2>5 DEF Good, Numbers, Orderly, Ordered, Tame, Held
  <2>10. (Known(s) => Told(s))'
    BY <1>1, <2>1, <2>5 DEF Good, Orderly, Ordered, Known, Told, Registered, Statuses
  <2> QED BY <2>4, <2>5, <2>6, <2>7, <2>8, <2>9, <2>10, StepOK DEF Good
<1>2. CASE entry[s].workload # 0
  <2>1. /\ Types /\ Good(s) /\ entry[s].workload \in Nat /\ entry[s].epoch \in Nat /\ about[s] \in Nat
        /\ pods[s] \subseteq Nat /\ outbox[s] \in Seq(Write)
        /\ entry[s].busy = "idle" /\ Registered(s) /\ "destroyRemove" \in Busy
    BY <1>2, Local DEF Inv, AskDelete, At, Busy, Idle
  <2>2. Becomes(entry', s, entry[s].status, "destroyRemove", entry[s].workload, entry[s].epoch)
    BY <1>2, <2>1, Typed, GoesTo DEF AskDelete, Goto
  <2>3. /\ about' = [about EXCEPT ![s] = entry[s].workload]
        /\ UNCHANGED <<record, outbox, removing, pods, stray, reserved, wear>>
    BY <1>2, <2>1 DEF AskDelete
  <2>4. Types'
    BY <2>1, <2>2, <2>3, Typed DEF Types, SessionsTypeOK, Becomes, Entry, Write, Statuses
  <2>5. /\ Alone(s) /\ Entries(s, entry[s].status, "destroyRemove", entry[s].workload, entry[s].epoch)
        /\ record'[s] = record[s]
        /\ about'[s] = entry[s].workload
        /\ outbox'[s] = outbox[s]
        /\ removing'[s] = removing[s]
        /\ pods'[s] = pods[s]
        /\ stray'[s] = stray[s]
        /\ reserved' = reserved
        /\ wear'.writes = 0 => wear.writes = 0
    BY <1>2, <2>1, <2>2, <2>3, Typed DEF Alone, Becomes
  <2>6. Numbers(s)'
    BY <1>2, <2>1, <2>5 DEF Good, Numbers
  <2>7. Outside(s)'
    BY <1>2, <2>1, <2>5 DEF Good, Outside, Registered, Statuses
  <2>8. (Orderly(s) => Ordered(s))'
    BY <1>2, <2>1, <2>5 DEF Good, Numbers, Orderly, Ordered, Live
  <2>9. (Tame(s) => Held(s))'
    BY <1>2, <2>1, <2>5 DEF Good, Numbers, Orderly, Ordered, Tame, Held
  <2>10. (Known(s) => Told(s))'
    BY <1>2, <2>1, <2>5 DEF Good, Orderly, Ordered, Known, Told, Registered, Statuses
  <2> QED BY <2>4, <2>5, <2>6, <2>7, <2>8, <2>9, <2>10, StepOK DEF Good
<1> QED BY <1>1, <1>2 DEF AskDelete

\* A delete removes the workload (delete).
LEMMA DeleteRemovesStep ==
  ASSUME Inv, NEW s \in Hosted, DeleteRemoves(s)
  PROVE  Inv'
<1>1. /\ Types /\ Good(s) /\ entry[s].workload \in Nat /\ entry[s].epoch \in Nat /\ about[s] \in Nat
      /\ pods[s] \subseteq Nat /\ outbox[s] \in Seq(Write)
      /\ entry[s].busy = "destroyRemove" /\ "destroy" \in Busy
  BY Local DEF Inv, DeleteRemoves, At, Busy
<1>2. Becomes(entry', s, entry[s].status, "destroy", 0, entry[s].epoch + 1)
  BY <1>1, Typed, DropsTo DEF DeleteRemoves
<1>3. /\ pods' = [pods EXCEPT ![s] = pods[s] \ {about[s]}]
      /\ UNCHANGED <<record, about, outbox, removing, stray, reserved, wear>>
  BY <1>1 DEF DeleteRemoves
<1>4. Types'
  BY <1>1, <1>2, <1>3, Typed DEF Types, SessionsTypeOK, Becomes, Entry, Write, Statuses
<1>5. /\ Alone(s) /\ Entries(s, entry[s].status, "destroy", 0, entry[s].epoch + 1)
      /\ record'[s] = record[s]
      /\ about'[s] = about[s]
      /\ outbox'[s] = outbox[s]
      /\ removing'[s] = removing[s]
      /\ pods'[s] = pods[s] \ {about[s]}
      /\ stray'[s] = stray[s]
      /\ reserved' = reserved
      /\ wear'.writes = 0 => wear.writes = 0
  BY <1>1, <1>2, <1>3, Typed DEF Alone, Becomes
<1>6. Numbers(s)'
  BY <1>1, <1>5 DEF Good, Numbers
<1>7. Outside(s)'
  BY <1>1, <1>5 DEF Good, Outside, Registered, Statuses
<1>8. (Orderly(s) => Ordered(s))'
  BY <1>1, <1>5 DEF Good, Numbers, Orderly, Ordered, Live
<1>9. (Tame(s) => Held(s))'
  BY <1>1, <1>5 DEF Good, Numbers, Orderly, Ordered, Tame, Held
<1>10. (Known(s) => Told(s))'
  BY <1>1, <1>5 DEF Good, Orderly, Ordered, Known, Told, Registered, Statuses
<1> QED BY <1>4, <1>5, <1>6, <1>7, <1>8, <1>9, <1>10, StepOK DEF Good

\* A delete removes what the session kept (delete).
LEMMA DestroysStep ==
  ASSUME Inv, NEW s \in Hosted, Destroys(s)
  PROVE  Inv'
<1>1. /\ Types /\ Good(s) /\ entry[s].workload \in Nat /\ entry[s].epoch \in Nat /\ about[s] \in Nat
      /\ pods[s] \subseteq Nat /\ outbox[s] \in Seq(Write)
      /\ entry[s].busy = "destroy" /\ "forget" \in Busy
  BY Local DEF Inv, Destroys, At, Busy
<1>2. Becomes(entry', s, entry[s].status, "forget", entry[s].workload, entry[s].epoch)
  BY <1>1, Typed, GoesTo DEF Destroys, Goto
<1>3. /\ pods' = [pods EXCEPT ![s] = {}]
      /\ UNCHANGED <<record, about, outbox, removing, stray, reserved, wear>>
  BY <1>1 DEF Destroys
<1>4. Types'
  BY <1>1, <1>2, <1>3, Typed DEF Types, SessionsTypeOK, Becomes, Entry, Write, Statuses
<1>5. /\ Alone(s) /\ Entries(s, entry[s].status, "forget", entry[s].workload, entry[s].epoch)
      /\ record'[s] = record[s]
      /\ about'[s] = about[s]
      /\ outbox'[s] = outbox[s]
      /\ removing'[s] = removing[s]
      /\ pods'[s] = {}
      /\ stray'[s] = stray[s]
      /\ reserved' = reserved
      /\ wear'.writes = 0 => wear.writes = 0
  BY <1>1, <1>2, <1>3, Typed DEF Alone, Becomes
<1>6. Numbers(s)'
  BY <1>1, <1>5 DEF Good, Numbers
<1>7. Outside(s)'
  BY <1>1, <1>5 DEF Good, Outside, Registered, Statuses
<1>8. (Orderly(s) => Ordered(s))'
  BY <1>1, <1>5 DEF Good, Numbers, Orderly, Ordered, Live
<1>9. (Tame(s) => Held(s))'
  BY <1>1, <1>5 DEF Good, Numbers, Orderly, Ordered, Tame, Held
<1>10. (Known(s) => Told(s))'
  BY <1>1, <1>5 DEF Good, Orderly, Ordered, Known, Told, Registered, Statuses
<1> QED BY <1>4, <1>5, <1>6, <1>7, <1>8, <1>9, <1>10, StepOK DEF Good

\* A delete removes the record (delete).
LEMMA ForgetsStep ==
  ASSUME Inv, NEW s \in Hosted, Forgets(s)
  PROVE  Inv'
<1>1. /\ Types /\ Good(s) /\ entry[s].workload \in Nat /\ entry[s].epoch \in Nat /\ about[s] \in Nat
      /\ pods[s] \subseteq Nat /\ outbox[s] \in Seq(Write)
      /\ entry[s].busy = "forget" /\ "drain" \in Busy
  BY Local DEF Inv, Forgets, At, Busy
<1>2. Becomes(entry', s, entry[s].status, "drain", entry[s].workload, entry[s].epoch)
  BY <1>1, Typed, GoesTo DEF Forgets, Goto
<1>3. /\ record' = [record EXCEPT ![s] = "none"]
      /\ UNCHANGED <<about, outbox, removing, pods, stray, reserved, wear>>
  BY <1>1 DEF Forgets
<1>4. Types'
  BY <1>1, <1>2, <1>3, Typed DEF Types, SessionsTypeOK, Becomes, Entry, Write, Statuses
<1>5. /\ Alone(s) /\ Entries(s, entry[s].status, "drain", entry[s].workload, entry[s].epoch)
      /\ record'[s] = "none"
      /\ about'[s] = about[s]
      /\ outbox'[s] = outbox[s]
      /\ removing'[s] = removing[s]
      /\ pods'[s] = pods[s]
      /\ stray'[s] = stray[s]
      /\ reserved' = reserved
      /\ wear'.writes = 0 => wear.writes = 0
  BY <1>1, <1>2, <1>3, Typed DEF Alone, Becomes
<1>6. Numbers(s)'
  BY <1>1, <1>5 DEF Good, Numbers
<1>7. Outside(s)'
  BY <1>1, <1>5 DEF Good, Outside, Registered, Statuses
<1>8. (Orderly(s) => Ordered(s))'
  BY <1>1, <1>5 DEF Good, Numbers, Orderly, Ordered, Live
<1>9. (Tame(s) => Held(s))'
  BY <1>1, <1>5 DEF Good, Numbers, Orderly, Ordered, Tame, Held
<1>10. (Known(s) => Told(s))'
  BY <1>1, <1>5 DEF Good, Orderly, Ordered, Known, Told, Registered, Statuses
<1> QED BY <1>4, <1>5, <1>6, <1>7, <1>8, <1>9, <1>10, StepOK DEF Good

\* A delete has seen the queue run dry (delete).
LEMMA DrainedStep ==
  ASSUME Inv, NEW s \in Hosted, Drained(s)
  PROVE  Inv'
<1>1. /\ Types /\ Good(s) /\ entry[s].workload \in Nat /\ entry[s].epoch \in Nat /\ about[s] \in Nat
      /\ pods[s] \subseteq Nat /\ outbox[s] \in Seq(Write)
      /\ entry[s].busy = "drain" /\ outbox[s] = <<>>
  BY Local DEF Inv, Drained, At
<1>2. Becomes(entry', s, "gone", "idle", entry[s].workload, entry[s].epoch)
  BY <1>1, Typed, GoneTo DEF Drained
<1>3. /\ UNCHANGED <<record, about, outbox, removing, pods, stray, reserved, wear>>
  BY <1>1 DEF Drained
<1>4. Types'
  BY <1>1, <1>2, <1>3, Typed DEF Types, SessionsTypeOK, Becomes, Entry, Write, Statuses
<1>5. /\ Alone(s) /\ Entries(s, "gone", "idle", entry[s].workload, entry[s].epoch)
      /\ record'[s] = record[s]
      /\ about'[s] = about[s]
      /\ outbox'[s] = outbox[s]
      /\ removing'[s] = removing[s]
      /\ pods'[s] = pods[s]
      /\ stray'[s] = stray[s]
      /\ reserved' = reserved
      /\ wear'.writes = 0 => wear.writes = 0
  BY <1>1, <1>2, <1>3, Typed DEF Alone, Becomes
<1>6. Numbers(s)'
  BY <1>1, <1>5 DEF Good, Numbers
<1>7. Outside(s)'
  BY <1>1, <1>5 DEF Good, Outside, Registered, Statuses
<1>8. (Orderly(s) => Ordered(s))'
  BY <1>1, <1>5, EmptyQ DEF Good, Numbers, Orderly, Ordered, Live
<1>9. (Tame(s) => Held(s))'
  BY <1>1, <1>5 DEF Good, Numbers, Orderly, Ordered, Tame, Held
<1>10. (Known(s) => Told(s))'
  BY <1>1, <1>5, EmptyQ DEF Good, Orderly, Ordered, Known, Told, Registered, Statuses
<1> QED BY <1>4, <1>5, <1>6, <1>7, <1>8, <1>9, <1>10, StepOK DEF Good

\* A step of a delete is refused.
LEMMA DeleteFailsStep ==
  ASSUME Inv, NEW s \in Hosted, DeleteFails(s)
  PROVE  Inv'
<1>1. /\ Types /\ Good(s) /\ entry[s].workload \in Nat /\ entry[s].epoch \in Nat /\ about[s] \in Nat
      /\ pods[s] \subseteq Nat /\ outbox[s] \in Seq(Write)
      /\ entry[s].busy \in {"destroyRemove", "destroy", "forget"} /\ "idle" \in Busy
  BY Local DEF Inv, DeleteFails, At, Busy
<1>2. Becomes(entry', s, entry[s].status, "idle", entry[s].workload, entry[s].epoch)
  BY <1>1, Typed, GoesTo DEF DeleteFails, Goto
<1>3. /\ stray' = [stray EXCEPT ![s] = IF entry[s].busy = "destroyRemove"
                                        THEN stray[s] ELSE stray[s] \cup {"undeleted"}]
      /\ Wears("failures", MaxFailures)
      /\ UNCHANGED <<record, about, outbox, removing, pods, reserved>>
  BY <1>1 DEF DeleteFails, At
<1>4. Types'
  BY <1>1, <1>2, <1>3, Typed, Worn DEF Types, SessionsTypeOK, Becomes, Entry, Write, Statuses, Strays
<1>5. /\ Alone(s) /\ Entries(s, entry[s].status, "idle", entry[s].workload, entry[s].epoch)
      /\ record'[s] = record[s]
      /\ about'[s] = about[s]
      /\ outbox'[s] = outbox[s]
      /\ removing'[s] = removing[s]
      /\ pods'[s] = pods[s]
      /\ stray'[s] = IF entry[s].busy = "destroyRemove" THEN stray[s] ELSE stray[s] \cup {"undeleted"}
      /\ reserved' = reserved
      /\ wear'.writes = 0 => wear.writes = 0
  BY <1>1, <1>2, <1>3, Typed, Worn DEF Alone, Becomes
<1>6. Numbers(s)'
  BY <1>1, <1>5 DEF Good, Numbers
<1>7. Outside(s)'
  BY <1>1, <1>5 DEF Good, Outside, Registered, Statuses
<1>8. (Orderly(s) => Ordered(s))'
  BY <1>1, <1>5 DEF Good, Numbers, Orderly, Ordered, Live
<1>9. (Tame(s) => Held(s))'
  BY <1>1, <1>5 DEF Good, Numbers, Orderly, Ordered, Tame, Held
<1>10. (Known(s) => Told(s))'
  BY <1>1, <1>5 DEF Good, Orderly, Ordered, Known, Told, Registered, Statuses
<1> QED BY <1>4, <1>5, <1>6, <1>7, <1>8, <1>9, <1>10, StepOK DEF Good

\* A change is recorded first (setAgent, setApps).
LEMMA AskChangeStep ==
  ASSUME Inv, NEW s \in Hosted, AskChange(s)
  PROVE  Inv'
<1>1. /\ Types /\ Good(s) /\ entry[s].workload \in Nat /\ entry[s].epoch \in Nat /\ about[s] \in Nat
      /\ pods[s] \subseteq Nat /\ outbox[s] \in Seq(Write)
      /\ entry[s].busy = "idle" /\ entry[s].status # "starting" /\ Registered(s) /\ "recording" \in Busy
  BY Local DEF Inv, AskChange, At, Busy, Idle
<1>2. Becomes(entry', s, entry[s].status, "recording", entry[s].workload, entry[s].epoch)
  BY <1>1, Typed, GoesTo DEF AskChange, Goto
<1>3. /\ Enqueue(s, "same", "op")
      /\ UNCHANGED <<record, about, removing, pods, stray, reserved, wear>>
  BY <1>1 DEF AskChange
<1>4. Types'
  BY <1>1, <1>2, <1>3, Typed, Enqueued DEF Types, SessionsTypeOK, Becomes, Entry, Write, Statuses
<1>5. /\ Alone(s) /\ Entries(s, entry[s].status, "recording", entry[s].workload, entry[s].epoch)
      /\ record'[s] = record[s]
      /\ about'[s] = about[s]
      /\ Grows(outbox[s], outbox'[s], "same", "op")
      /\ removing'[s] = removing[s]
      /\ pods'[s] = pods[s]
      /\ stray'[s] = stray[s]
      /\ reserved' = reserved
      /\ wear'.writes = 0 => wear.writes = 0
  BY <1>1, <1>2, <1>3, Typed, Enqueued DEF Alone, Becomes, Statuses
<1>6. Numbers(s)'
  BY <1>1, <1>5 DEF Good, Numbers, Grows
<1>7. Outside(s)'
  BY <1>1, <1>5 DEF Good, Outside, Registered, Statuses, Grows
<1>8. (Orderly(s) => Ordered(s))'
  BY <1>1, <1>5 DEF Good, Numbers, Orderly, Ordered, Live, Grows
<1>9. (Tame(s) => Held(s))'
  BY <1>1, <1>5 DEF Good, Numbers, Orderly, Ordered, Tame, Held, Grows
<1>10. (Known(s) => Told(s))'
  BY <1>1, <1>5 DEF Good, Orderly, Ordered, Known, Told, Registered, Statuses, Grows
<1> QED BY <1>4, <1>5, <1>6, <1>7, <1>8, <1>9, <1>10, StepOK DEF Good

\* A change tears the workload down (setAgent, setApps).
LEMMA ChangeTearsDownStep ==
  ASSUME Inv, NEW s \in Hosted, ChangeTearsDown(s)
  PROVE  Inv'
<1>1. /\ Types /\ Good(s) /\ entry[s].workload \in Nat /\ entry[s].epoch \in Nat /\ about[s] \in Nat
      /\ pods[s] \subseteq Nat /\ outbox[s] \in Seq(Write)
      /\ entry[s].busy = "changing" /\ "rebuilding" \in Busy
  BY Local DEF Inv, ChangeTearsDown, At, Busy
<1>2. Becomes(entry', s, entry[s].status, "rebuilding", entry[s].workload, entry[s].epoch)
  BY <1>1, Typed, GoesTo DEF ChangeTearsDown, Goto
<1>3. /\ pods' = [pods EXCEPT ![s] = pods[s] \ {about[s]}]
      /\ UNCHANGED <<record, about, outbox, removing, stray, reserved, wear>>
  BY <1>1 DEF ChangeTearsDown
<1>4. Types'
  BY <1>1, <1>2, <1>3, Typed DEF Types, SessionsTypeOK, Becomes, Entry, Write, Statuses
<1>5. /\ Alone(s) /\ Entries(s, entry[s].status, "rebuilding", entry[s].workload, entry[s].epoch)
      /\ record'[s] = record[s]
      /\ about'[s] = about[s]
      /\ outbox'[s] = outbox[s]
      /\ removing'[s] = removing[s]
      /\ pods'[s] = pods[s] \ {about[s]}
      /\ stray'[s] = stray[s]
      /\ reserved' = reserved
      /\ wear'.writes = 0 => wear.writes = 0
  BY <1>1, <1>2, <1>3, Typed DEF Alone, Becomes
<1>6. Numbers(s)'
  BY <1>1, <1>5 DEF Good, Numbers
<1>7. Outside(s)'
  BY <1>1, <1>5 DEF Good, Outside, Registered, Statuses
<1>8. (Orderly(s) => Ordered(s))'
  BY <1>1, <1>5 DEF Good, Numbers, Orderly, Ordered, Live
<1>9. (Tame(s) => Held(s))'
  BY <1>1, <1>5 DEF Good, Numbers, Orderly, Ordered, Tame, Held
<1>10. (Known(s) => Told(s))'
  BY <1>1, <1>5 DEF Good, Orderly, Ordered, Known, Told, Registered, Statuses
<1> QED BY <1>4, <1>5, <1>6, <1>7, <1>8, <1>9, <1>10, StepOK DEF Good

\* A change has the workload back (setAgent, setApps).
LEMMA ChangeRebuildsStep ==
  ASSUME Inv, NEW s \in Hosted, ChangeRebuilds(s)
  PROVE  Inv'
<1>1. CASE entry[s].epoch = about[s] /\ Enqueue(s, "running", "none") /\ UNCHANGED stray
  <2>1. /\ Types /\ Good(s) /\ entry[s].workload \in Nat /\ entry[s].epoch \in Nat /\ about[s] \in Nat
        /\ pods[s] \subseteq Nat /\ outbox[s] \in Seq(Write)
        /\ entry[s].busy = "rebuilding" /\ "idle" \in Busy
    BY <1>1, Local DEF Inv, ChangeRebuilds, At, Busy
  <2>2. Becomes(entry', s, entry[s].status, "idle", entry[s].workload, entry[s].epoch)
    BY <1>1, <2>1, Typed, GoesTo DEF ChangeRebuilds, Goto
  <2>3. /\ pods' = [pods EXCEPT ![s] = pods[s] \cup {about[s]}]
        /\ Enqueue(s, "running", "none")
        /\ UNCHANGED <<record, about, removing, stray, reserved, wear>>
    BY <1>1, <2>1 DEF ChangeRebuilds
  <2>4. Types'
    BY <2>1, <2>2, <2>3, Typed, Enqueued DEF Types, SessionsTypeOK, Becomes, Entry, Write, Statuses
  <2>5. /\ Alone(s) /\ Entries(s, entry[s].status, "idle", entry[s].workload, entry[s].epoch)
        /\ record'[s] = record[s]
        /\ about'[s] = about[s]
        /\ Grows(outbox[s], outbox'[s], "running", "none")
        /\ removing'[s] = removing[s]
        /\ pods'[s] = pods[s] \cup {about[s]}
        /\ stray'[s] = stray[s]
        /\ reserved' = reserved
        /\ wear'.writes = 0 => wear.writes = 0
    BY <1>1, <2>1, <2>2, <2>3, Typed, Enqueued DEF Alone, Becomes, Statuses
  <2>6. Numbers(s)'
    BY <1>1, <2>1, <2>5 DEF Good, Numbers, Grows
  <2>7. Outside(s)'
    BY <1>1, <2>1, <2>5 DEF Good, Outside, Registered, Statuses, Grows
  <2>8. (Orderly(s) => Ordered(s))'
    BY <1>1, <2>1, <2>5 DEF Good, Numbers, Orderly, Ordered, Live, Grows
  <2>9. (Tame(s) => Held(s))'
    <3>1. CASE Tame(s)
      <4>1. Held(s) /\ Ordered(s) /\ Numbers(s)
        BY <2>1, <3>1 DEF Good, Tame, Orderly
      <4>2. entry[s].workload = about[s] /\ about[s] # 0
        BY <1>1, <2>1, <4>1 DEF Ordered, Numbers
      <4>3. RemovalOf(outbox[s]) = 0 /\ removing[s] = {}
        BY <2>1, <4>1, <4>2, AnyQ DEF Ordered
      <4>4. pods[s] \subseteq {about[s]}
        BY <2>1, <4>1, <4>2, <4>3 DEF Held, Numbers
      <4> QED BY <2>1, <2>5, <4>1, <4>2, <4>3, <4>4 DEF Held
    <3>2. CASE ~Tame(s)
      BY <3>2, <2>5 DEF Tame
    <3> QED BY <3>1, <3>2
  <2>10. (Known(s) => Told(s))'
    BY <1>1, <2>1, <2>5 DEF Good, Orderly, Ordered, Known, Told, Registered, Statuses, Grows,
       Numbers, Live
  <2> QED BY <2>4, <2>5, <2>6, <2>7, <2>8, <2>9, <2>10, StepOK DEF Good
<1>2. CASE /\ entry[s].epoch # about[s]
           /\ stray' = [stray EXCEPT ![s] = stray[s] \cup {"rebuilt"}]
           /\ UNCHANGED outbox
  <2>1. /\ Types /\ Good(s) /\ entry[s].workload \in Nat /\ entry[s].epoch \in Nat /\ about[s] \in Nat
        /\ pods[s] \subseteq Nat /\ outbox[s] \in Seq(Write)
        /\ entry[s].busy = "rebuilding" /\ "idle" \in Busy
    BY <1>2, Local DEF Inv, ChangeRebuilds, At, Busy
  <2>2. Becomes(entry', s, entry[s].status, "idle", entry[s].workload, entry[s].epoch)
    BY <1>2, <2>1, Typed, GoesTo DEF ChangeRebuilds, Goto
  <2>3. /\ pods' = [pods EXCEPT ![s] = pods[s] \cup {about[s]}]
        /\ stray' = [stray EXCEPT ![s] = stray[s] \cup {"rebuilt"}]
        /\ UNCHANGED <<record, about, outbox, removing, reserved, wear>>
    BY <1>2, <2>1 DEF ChangeRebuilds
  <2>4. Types'
    BY <2>1, <2>2, <2>3, Typed DEF Types, SessionsTypeOK, Becomes, Entry, Write, Statuses, Strays
  <2>5. /\ Alone(s) /\ Entries(s, entry[s].status, "idle", entry[s].workload, entry[s].epoch)
        /\ record'[s] = record[s]
        /\ about'[s] = about[s]
        /\ outbox'[s] = outbox[s]
        /\ removing'[s] = removing[s]
        /\ pods'[s] = pods[s] \cup {about[s]}
        /\ stray'[s] = stray[s] \cup {"rebuilt"}
        /\ reserved' = reserved
        /\ wear'.writes = 0 => wear.writes = 0
    BY <1>2, <2>1, <2>2, <2>3, Typed DEF Alone, Becomes
  <2>6. Numbers(s)'
    BY <1>2, <2>1, <2>5 DEF Good, Numbers
  <2>7. Outside(s)'
    BY <1>2, <2>1, <2>5 DEF Good, Outside, Registered, Statuses
  <2>8. (Orderly(s) => Ordered(s))'
    BY <1>2, <2>1, <2>5 DEF Good, Numbers, Orderly, Ordered, Live
  <2>9. (Tame(s) => Held(s))'
    BY <1>2, <2>1, <2>5 DEF Good, Numbers, Orderly, Ordered, Tame, Held
  <2>10. (Known(s) => Told(s))'
    BY <1>2, <2>1, <2>5 DEF Good, Orderly, Ordered, Known, Told, Registered, Statuses
  <2> QED BY <2>4, <2>5, <2>6, <2>7, <2>8, <2>9, <2>10, StepOK DEF Good
<1> QED BY <1>1, <1>2 DEF ChangeRebuilds

\* A run is recorded (run).
LEMMA RunRecordsStep ==
  ASSUME Inv, NEW s \in Hosted, RunRecords(s)
  PROVE  Inv'
<1>1. /\ Types /\ Good(s) /\ entry[s].workload \in Nat /\ entry[s].epoch \in Nat /\ about[s] \in Nat
      /\ pods[s] \subseteq Nat /\ outbox[s] \in Seq(Write)
      /\ entry[s].status = "running" /\ entry[s].workload # 0
  BY Local DEF Inv, RunRecords, At
<1>2. Becomes(entry', s, entry[s].status, entry[s].busy, entry[s].workload, entry[s].epoch)
  BY <1>1, Typed, Fields DEF RunRecords, Becomes
<1>3. /\ Enqueue(s, "same", "none")
      /\ UNCHANGED <<record, about, removing, pods, stray, reserved, wear>>
  BY <1>1 DEF RunRecords
<1>4. Types'
  BY <1>1, <1>2, <1>3, Typed, Enqueued DEF Types, SessionsTypeOK, Becomes, Entry, Write, Statuses
<1>5. /\ Alone(s) /\ Entries(s, entry[s].status, entry[s].busy, entry[s].workload, entry[s].epoch)
      /\ record'[s] = record[s]
      /\ about'[s] = about[s]
      /\ Grows(outbox[s], outbox'[s], "same", "none")
      /\ removing'[s] = removing[s]
      /\ pods'[s] = pods[s]
      /\ stray'[s] = stray[s]
      /\ reserved' = reserved
      /\ wear'.writes = 0 => wear.writes = 0
  BY <1>1, <1>2, <1>3, Typed, Enqueued DEF Alone, Becomes, Statuses
<1>6. Numbers(s)'
  BY <1>1, <1>5 DEF Good, Numbers, Grows
<1>7. Outside(s)'
  BY <1>1, <1>5 DEF Good, Outside, Registered, Statuses, Grows
<1>8. (Orderly(s) => Ordered(s))'
  BY <1>1, <1>5 DEF Good, Numbers, Orderly, Ordered, Live, Grows
<1>9. (Tame(s) => Held(s))'
  BY <1>1, <1>5 DEF Good, Numbers, Orderly, Ordered, Tame, Held, Grows
<1>10. (Known(s) => Told(s))'
  BY <1>1, <1>5 DEF Good, Orderly, Ordered, Known, Told, Registered, Statuses, Grows
<1> QED BY <1>4, <1>5, <1>6, <1>7, <1>8, <1>9, <1>10, StepOK DEF Good

\* A workload that survived the runner is taken over (adopt).
LEMMA AdoptsStep ==
  ASSUME Inv, NEW s \in Hosted, Adopts(s)
  PROVE  Inv'
<1>1. CASE /\ entry[s].epoch = about[s]
           /\ entry' = [entry EXCEPT ![s].workload = about[s], ![s].busy = "idle"]
           /\ Enqueue(s, "running", "none")
           /\ UNCHANGED stray
  <2>1. /\ Types /\ Good(s) /\ entry[s].workload \in Nat /\ entry[s].epoch \in Nat /\ about[s] \in Nat
        /\ pods[s] \subseteq Nat /\ outbox[s] \in Seq(Write)
        /\ entry[s].busy = "adopting" /\ pods[s] = {about[s]}
    BY <1>1, Local DEF Inv, Adopts, At
  <2>2. Becomes(entry', s, entry[s].status, "idle", about[s], entry[s].epoch)
    BY <1>1, <2>1, Typed, TakesUp
  <2>3. /\ Enqueue(s, "running", "none")
        /\ UNCHANGED <<record, about, removing, pods, stray, reserved, wear>>
    BY <1>1, <2>1 DEF Adopts
  <2>4. Types'
    BY <2>1, <2>2, <2>3, Typed, Enqueued DEF Types, SessionsTypeOK, Becomes, Entry, Write, Statuses
  <2>5. /\ Alone(s) /\ Entries(s, entry[s].status, "idle", about[s], entry[s].epoch)
        /\ record'[s] = record[s]
        /\ about'[s] = about[s]
        /\ Grows(outbox[s], outbox'[s], "running", "none")
        /\ removing'[s] = removing[s]
        /\ pods'[s] = pods[s]
        /\ stray'[s] = stray[s]
        /\ reserved' = reserved
        /\ wear'.writes = 0 => wear.writes = 0
    BY <1>1, <2>1, <2>2, <2>3, Typed, Enqueued DEF Alone, Becomes, Statuses
  <2>6. Numbers(s)'
    BY <1>1, <2>1, <2>5 DEF Good, Numbers, Grows
  <2>7. Outside(s)'
    BY <1>1, <2>1, <2>5 DEF Good, Outside, Registered, Statuses, Grows
  <2>8. (Orderly(s) => Ordered(s))'
    BY <1>1, <2>1, <2>5, EmptyQ DEF Good, Numbers, Orderly, Ordered, Live, Grows
  <2>9. (Tame(s) => Held(s))'
    BY <1>1, <2>1, <2>5 DEF Good, Numbers, Orderly, Ordered, Tame, Held, Grows
  <2>10. (Known(s) => Told(s))'
    BY <1>1, <2>1, <2>5 DEF Good, Orderly, Ordered, Known, Told, Registered, Statuses, Grows,
       Numbers, Live
  <2> QED BY <2>4, <2>5, <2>6, <2>7, <2>8, <2>9, <2>10, StepOK DEF Good
<1>2. CASE /\ entry[s].epoch # about[s]
           /\ entry' = [entry EXCEPT ![s].workload = about[s], ![s].busy = "idle"]
           /\ stray' = [stray EXCEPT ![s] = stray[s] \cup {"adopted"}]
           /\ UNCHANGED outbox
  <2>1. /\ Types /\ Good(s) /\ entry[s].workload \in Nat /\ entry[s].epoch \in Nat /\ about[s] \in Nat
        /\ pods[s] \subseteq Nat /\ outbox[s] \in Seq(Write)
        /\ entry[s].busy = "adopting" /\ pods[s] = {about[s]}
    BY <1>2, Local DEF Inv, Adopts, At
  <2>2. Becomes(entry', s, entry[s].status, "idle", about[s], entry[s].epoch)
    BY <1>2, <2>1, Typed, TakesUp
  <2>3. /\ stray' = [stray EXCEPT ![s] = stray[s] \cup {"adopted"}]
        /\ UNCHANGED <<record, about, outbox, removing, pods, reserved, wear>>
    BY <1>2, <2>1 DEF Adopts
  <2>4. Types'
    BY <2>1, <2>2, <2>3, Typed DEF Types, SessionsTypeOK, Becomes, Entry, Write, Statuses, Strays
  <2>5. /\ Alone(s) /\ Entries(s, entry[s].status, "idle", about[s], entry[s].epoch)
        /\ record'[s] = record[s]
        /\ about'[s] = about[s]
        /\ outbox'[s] = outbox[s]
        /\ removing'[s] = removing[s]
        /\ pods'[s] = pods[s]
        /\ stray'[s] = stray[s] \cup {"adopted"}
        /\ reserved' = reserved
        /\ wear'.writes = 0 => wear.writes = 0
    BY <1>2, <2>1, <2>2, <2>3, Typed DEF Alone, Becomes
  <2>6. Numbers(s)'
    BY <1>2, <2>1, <2>5 DEF Good, Numbers
  <2>7. Outside(s)'
    BY <1>2, <2>1, <2>5 DEF Good, Outside, Registered, Statuses
  <2>8. (Orderly(s) => Ordered(s))'
    BY <1>2, <2>1, <2>5 DEF Good, Numbers, Orderly, Ordered, Live
  <2>9. (Tame(s) => Held(s))'
    BY <1>2, <2>1, <2>5 DEF Good, Numbers, Orderly, Ordered, Tame, Held
  <2>10. (Known(s) => Told(s))'
    BY <1>2, <2>1, <2>5 DEF Good, Orderly, Ordered, Known, Told, Registered, Statuses
  <2> QED BY <2>4, <2>5, <2>6, <2>7, <2>8, <2>9, <2>10, StepOK DEF Good
<1> QED BY <1>1, <1>2 DEF Adopts

\* There is none to take over (adopt).
LEMMA FindsNoneStep ==
  ASSUME Inv, NEW s \in Hosted, FindsNone(s)
  PROVE  Inv'
<1>1. /\ Types /\ Good(s) /\ entry[s].workload \in Nat /\ entry[s].epoch \in Nat /\ about[s] \in Nat
      /\ pods[s] \subseteq Nat /\ outbox[s] \in Seq(Write)
      /\ entry[s].busy = "adopting" /\ "unadopted" \in Busy
  BY Local DEF Inv, FindsNone, At, Busy
<1>2. Becomes(entry', s, entry[s].status, "unadopted", entry[s].workload, entry[s].epoch)
  BY <1>1, Typed, GoesTo DEF FindsNone, Goto
<1>3. /\ pods' = [pods EXCEPT ![s] = {}]
      /\ Enqueue(s, "suspended", "op")
      /\ UNCHANGED <<record, about, removing, stray, reserved, wear>>
  BY <1>1 DEF FindsNone
<1>4. Types'
  BY <1>1, <1>2, <1>3, Typed, Enqueued DEF Types, SessionsTypeOK, Becomes, Entry, Write, Statuses
<1>5. /\ Alone(s) /\ Entries(s, entry[s].status, "unadopted", entry[s].workload, entry[s].epoch)
      /\ record'[s] = record[s]
      /\ about'[s] = about[s]
      /\ Grows(outbox[s], outbox'[s], "suspended", "op")
      /\ removing'[s] = removing[s]
      /\ pods'[s] = {}
      /\ stray'[s] = stray[s]
      /\ reserved' = reserved
      /\ wear'.writes = 0 => wear.writes = 0
  BY <1>1, <1>2, <1>3, Typed, Enqueued DEF Alone, Becomes, Statuses
<1>6. Numbers(s)'
  BY <1>1, <1>5 DEF Good, Numbers, Grows
<1>7. Outside(s)'
  BY <1>1, <1>5 DEF Good, Outside, Registered, Statuses, Grows
<1>8. (Orderly(s) => Ordered(s))'
  BY <1>1, <1>5 DEF Good, Numbers, Orderly, Ordered, Live, Grows
<1>9. (Tame(s) => Held(s))'
  BY <1>1, <1>5 DEF Good, Numbers, Orderly, Ordered, Tame, Held, Grows
<1>10. (Known(s) => Told(s))'
  BY <1>1, <1>5 DEF Good, Orderly, Ordered, Known, Told, Registered, Statuses, Grows
<1> QED BY <1>4, <1>5, <1>6, <1>7, <1>8, <1>9, <1>10, StepOK DEF Good

\* A creation fails (startWorkload, fail).
LEMMA CreationFailsStep ==
  ASSUME Inv, NEW s \in Hosted, CreationFails(s)
  PROVE  Inv'
<1>1. CASE /\ entry[s].epoch = about[s]
           /\ entry[s].workload = 0
           /\ entry' = Dropped(s, "settling")
           /\ Enqueue(s, "failed", "op")
           /\ UNCHANGED removing
  <2>1. /\ Types /\ Good(s) /\ entry[s].workload \in Nat /\ entry[s].epoch \in Nat /\ about[s] \in Nat
        /\ pods[s] \subseteq Nat /\ outbox[s] \in Seq(Write)
        /\ entry[s].busy = "creating" /\ "settling" \in Busy
    BY <1>1, Local DEF Inv, CreationFails, At, Busy
  <2>2. Becomes(entry', s, entry[s].status, "settling", 0, entry[s].epoch + 1)
    BY <1>1, <2>1, Typed, DropsTo
  <2>3. /\ Enqueue(s, "failed", "op")
        /\ Wears("failures", MaxFailures)
        /\ UNCHANGED <<record, about, removing, pods, stray, reserved>>
    BY <1>1, <2>1 DEF CreationFails, Fail
  <2>4. Types'
    BY <2>1, <2>2, <2>3, Typed, Worn, Enqueued DEF Types, SessionsTypeOK, Becomes, Entry, Write,
       Statuses
  <2>5. /\ Alone(s) /\ Entries(s, entry[s].status, "settling", 0, entry[s].epoch + 1)
        /\ record'[s] = record[s]
        /\ about'[s] = about[s]
        /\ Grows(outbox[s], outbox'[s], "failed", "op")
        /\ removing'[s] = removing[s]
        /\ pods'[s] = pods[s]
        /\ stray'[s] = stray[s]
        /\ reserved' = reserved
        /\ wear'.writes = 0 => wear.writes = 0
    BY <1>1, <2>1, <2>2, <2>3, Typed, Worn, Enqueued DEF Alone, Becomes, Statuses
  <2>6. Numbers(s)'
    BY <1>1, <2>1, <2>5 DEF Good, Numbers, Grows
  <2>7. Outside(s)'
    BY <1>1, <2>1, <2>5 DEF Good, Outside, Registered, Statuses, Grows
  <2>8. (Orderly(s) => Ordered(s))'
    BY <1>1, <2>1, <2>5 DEF Good, Numbers, Orderly, Ordered, Live, Grows
  <2>9. (Tame(s) => Held(s))'
    BY <1>1, <2>1, <2>5 DEF Good, Numbers, Orderly, Ordered, Tame, Held, Grows
  <2>10. (Known(s) => Told(s))'
    BY <1>1, <2>1, <2>5 DEF Good, Orderly, Ordered, Known, Told, Registered, Statuses, Grows
  <2> QED BY <2>4, <2>5, <2>6, <2>7, <2>8, <2>9, <2>10, StepOK DEF Good
<1>2. CASE /\ entry[s].epoch = about[s]
           /\ entry[s].workload # 0
           /\ entry' = Dropped(s, "settling")
           /\ removing' = [removing EXCEPT ![s] = removing[s]
                \cup {[w |-> entry[s].workload, by |-> "op"]}]
           /\ UNCHANGED outbox
  <2>1. /\ Types /\ Good(s) /\ entry[s].workload \in Nat /\ entry[s].epoch \in Nat /\ about[s] \in Nat
        /\ pods[s] \subseteq Nat /\ outbox[s] \in Seq(Write)
        /\ entry[s].busy = "creating" /\ "settling" \in Busy
    BY <1>2, Local DEF Inv, CreationFails, At, Busy
  <2>2. Becomes(entry', s, entry[s].status, "settling", 0, entry[s].epoch + 1)
    BY <1>2, <2>1, Typed, DropsTo
  <2>3. /\ removing' = [removing EXCEPT ![s] = removing[s] \cup {[w |-> entry[s].workload, by |-> "op"]}]
        /\ Wears("failures", MaxFailures)
        /\ UNCHANGED <<record, about, outbox, pods, stray, reserved>>
    BY <1>2, <2>1 DEF CreationFails, Fail
  <2>4. Types'
    BY <2>1, <2>2, <2>3, Typed, Worn DEF Types, SessionsTypeOK, Becomes, Entry, Write, Statuses
  <2>5. /\ Alone(s) /\ Entries(s, entry[s].status, "settling", 0, entry[s].epoch + 1)
        /\ record'[s] = record[s]
        /\ about'[s] = about[s]
        /\ outbox'[s] = outbox[s]
        /\ removing'[s] = removing[s] \cup {[w |-> entry[s].workload, by |-> "op"]}
        /\ pods'[s] = pods[s]
        /\ stray'[s] = stray[s]
        /\ reserved' = reserved
        /\ wear'.writes = 0 => wear.writes = 0
    BY <1>2, <2>1, <2>2, <2>3, Typed, Worn DEF Alone, Becomes
  <2>6. Numbers(s)'
    BY <1>2, <2>1, <2>5 DEF Good, Numbers
  <2>7. Outside(s)'
    BY <1>2, <2>1, <2>5 DEF Good, Outside, Registered, Statuses
  <2>8. (Orderly(s) => Ordered(s))'
    BY <1>2, <2>1, <2>5 DEF Good, Numbers, Orderly, Ordered, Live
  <2>9. (Tame(s) => Held(s))'
    <3>1. CASE Tame(s)
      <4>1. Held(s) /\ Ordered(s) /\ Numbers(s)
        BY <2>1, <3>1 DEF Good, Tame, Orderly
      <4> DEFINE new == [w |-> entry[s].workload, by |-> "op"]
      <4>2. new.w = entry[s].workload /\ removing'[s] = removing[s] \cup {new}
        BY <2>5
      <4> HIDE DEF new
      <4>3. /\ \E x \in removing'[s] : entry[s].workload = x.w
            /\ \A x \in removing[s] : x \in removing'[s]
        BY <4>2
      <4> QED BY <1>2, <2>1, <2>5, <4>1, <4>3 DEF Held, Ordered
    <3>2. CASE ~Tame(s)
      BY <3>2, <2>5 DEF Tame
    <3> QED BY <3>1, <3>2
  <2>10. (Known(s) => Told(s))'
    BY <1>2, <2>1, <2>5 DEF Good, Orderly, Ordered, Known, Told, Registered, Statuses
  <2> QED BY <2>4, <2>5, <2>6, <2>7, <2>8, <2>9, <2>10, StepOK DEF Good
<1>3. CASE entry[s].epoch # about[s] /\ Goto(s, "idle") /\ UNCHANGED <<outbox, removing>>
  <2>1. /\ Types /\ Good(s) /\ entry[s].workload \in Nat /\ entry[s].epoch \in Nat /\ about[s] \in Nat
        /\ pods[s] \subseteq Nat /\ outbox[s] \in Seq(Write)
        /\ entry[s].busy = "creating" /\ "idle" \in Busy
    BY <1>3, Local DEF Inv, CreationFails, At, Busy
  <2>2. Becomes(entry', s, entry[s].status, "idle", entry[s].workload, entry[s].epoch)
    BY <1>3, <2>1, Typed, GoesTo DEF CreationFails, Goto
  <2>3. /\ Wears("failures", MaxFailures)
        /\ UNCHANGED <<record, about, outbox, removing, pods, stray, reserved>>
    BY <1>3, <2>1 DEF CreationFails
  <2>4. Types'
    BY <2>1, <2>2, <2>3, Typed, Worn DEF Types, SessionsTypeOK, Becomes, Entry, Write, Statuses
  <2>5. /\ Alone(s) /\ Entries(s, entry[s].status, "idle", entry[s].workload, entry[s].epoch)
        /\ record'[s] = record[s]
        /\ about'[s] = about[s]
        /\ outbox'[s] = outbox[s]
        /\ removing'[s] = removing[s]
        /\ pods'[s] = pods[s]
        /\ stray'[s] = stray[s]
        /\ reserved' = reserved
        /\ wear'.writes = 0 => wear.writes = 0
    BY <1>3, <2>1, <2>2, <2>3, Typed, Worn DEF Alone, Becomes
  <2>6. Numbers(s)'
    BY <1>3, <2>1, <2>5 DEF Good, Numbers
  <2>7. Outside(s)'
    BY <1>3, <2>1, <2>5 DEF Good, Outside, Registered, Statuses
  <2>8. (Orderly(s) => Ordered(s))'
    BY <1>3, <2>1, <2>5 DEF Good, Numbers, Orderly, Ordered, Live
  <2>9. (Tame(s) => Held(s))'
    BY <1>3, <2>1, <2>5 DEF Good, Numbers, Orderly, Ordered, Tame, Held
  <2>10. (Known(s) => Told(s))'
    BY <1>3, <2>1, <2>5 DEF Good, Orderly, Ordered, Known, Told, Registered, Statuses
  <2> QED BY <2>4, <2>5, <2>6, <2>7, <2>8, <2>9, <2>10, StepOK DEF Good
<1> QED BY <1>1, <1>2, <1>3 DEF CreationFails, Fail

\* A workload reports its failure (fail).
LEMMA WorkloadFailsStep ==
  ASSUME Inv, NEW s \in Hosted, WorkloadFails(s)
  PROVE  Inv'
<1>1. CASE /\ entry[s].workload = 0
           /\ entry' = Dropped(s, entry[s].busy)
           /\ Enqueue(s, "failed", "none")
           /\ UNCHANGED removing
  <2>1. /\ Types /\ Good(s) /\ entry[s].workload \in Nat /\ entry[s].epoch \in Nat /\ about[s] \in Nat
        /\ pods[s] \subseteq Nat /\ outbox[s] \in Seq(Write)
        /\ Registered(s) /\ entry[s].epoch \in pods[s] /\ entry[s].busy \in Busy
    BY <1>1, Local DEF Inv, WorkloadFails, At
  <2>2. Becomes(entry', s, entry[s].status, entry[s].busy, 0, entry[s].epoch + 1)
    BY <1>1, <2>1, Typed, DropsTo
  <2>3. /\ Enqueue(s, "failed", "none")
        /\ Wears("failures", MaxFailures)
        /\ UNCHANGED <<record, about, removing, pods, stray, reserved>>
    BY <1>1, <2>1 DEF WorkloadFails, Fail
  <2>4. Types'
    BY <2>1, <2>2, <2>3, Typed, Worn, Enqueued DEF Types, SessionsTypeOK, Becomes, Entry, Write,
       Statuses
  <2>5. /\ Alone(s) /\ Entries(s, entry[s].status, entry[s].busy, 0, entry[s].epoch + 1)
        /\ record'[s] = record[s]
        /\ about'[s] = about[s]
        /\ Grows(outbox[s], outbox'[s], "failed", "none")
        /\ removing'[s] = removing[s]
        /\ pods'[s] = pods[s]
        /\ stray'[s] = stray[s]
        /\ reserved' = reserved
        /\ wear'.writes = 0 => wear.writes = 0
    BY <1>1, <2>1, <2>2, <2>3, Typed, Worn, Enqueued DEF Alone, Becomes, Statuses
  <2>6. Numbers(s)'
    BY <1>1, <2>1, <2>5 DEF Good, Numbers, Grows
  <2>7. Outside(s)'
    BY <1>1, <2>1, <2>5 DEF Good, Outside, Registered, Statuses, Grows
  <2>8. (Orderly(s) => Ordered(s))'
    BY <1>1, <2>1, <2>5 DEF Good, Numbers, Orderly, Ordered, Live, Grows
  <2>9. (Tame(s) => Held(s))'
    BY <1>1, <2>1, <2>5 DEF Good, Numbers, Orderly, Ordered, Tame, Held, Grows
  <2>10. (Known(s) => Told(s))'
    BY <1>1, <2>1, <2>5 DEF Good, Orderly, Ordered, Known, Told, Registered, Statuses, Grows
  <2> QED BY <2>4, <2>5, <2>6, <2>7, <2>8, <2>9, <2>10, StepOK DEF Good
<1>2. CASE /\ entry[s].workload # 0
           /\ entry' = Dropped(s, entry[s].busy)
           /\ removing' = [removing EXCEPT ![s] = removing[s]
                \cup {[w |-> entry[s].workload, by |-> "none"]}]
           /\ UNCHANGED outbox
  <2>1. /\ Types /\ Good(s) /\ entry[s].workload \in Nat /\ entry[s].epoch \in Nat /\ about[s] \in Nat
        /\ pods[s] \subseteq Nat /\ outbox[s] \in Seq(Write)
        /\ Registered(s) /\ entry[s].epoch \in pods[s] /\ entry[s].busy \in Busy
    BY <1>2, Local DEF Inv, WorkloadFails, At
  <2>2. Becomes(entry', s, entry[s].status, entry[s].busy, 0, entry[s].epoch + 1)
    BY <1>2, <2>1, Typed, DropsTo
  <2>3. /\ removing' = [removing EXCEPT ![s] = removing[s] \cup {[w |-> entry[s].workload, by |-> "none"]}]
        /\ Wears("failures", MaxFailures)
        /\ UNCHANGED <<record, about, outbox, pods, stray, reserved>>
    BY <1>2, <2>1 DEF WorkloadFails, Fail
  <2>4. Types'
    BY <2>1, <2>2, <2>3, Typed, Worn DEF Types, SessionsTypeOK, Becomes, Entry, Write, Statuses
  <2>5. /\ Alone(s) /\ Entries(s, entry[s].status, entry[s].busy, 0, entry[s].epoch + 1)
        /\ record'[s] = record[s]
        /\ about'[s] = about[s]
        /\ outbox'[s] = outbox[s]
        /\ removing'[s] = removing[s] \cup {[w |-> entry[s].workload, by |-> "none"]}
        /\ pods'[s] = pods[s]
        /\ stray'[s] = stray[s]
        /\ reserved' = reserved
        /\ wear'.writes = 0 => wear.writes = 0
    BY <1>2, <2>1, <2>2, <2>3, Typed, Worn DEF Alone, Becomes
  <2>6. Numbers(s)'
    BY <1>2, <2>1, <2>5 DEF Good, Numbers
  <2>7. Outside(s)'
    BY <1>2, <2>1, <2>5 DEF Good, Outside, Registered, Statuses
  <2>8. (Orderly(s) => Ordered(s))'
    BY <1>2, <2>1, <2>5 DEF Good, Numbers, Orderly, Ordered, Live
  <2>9. (Tame(s) => Held(s))'
    <3>1. CASE Tame(s)
      <4>1. Held(s) /\ Ordered(s) /\ Numbers(s)
        BY <2>1, <3>1 DEF Good, Tame, Orderly
      <4> DEFINE new == [w |-> entry[s].workload, by |-> "none"]
      <4>2. new.w = entry[s].workload /\ removing'[s] = removing[s] \cup {new}
        BY <2>5
      <4> HIDE DEF new
      <4>3. /\ \E x \in removing'[s] : entry[s].workload = x.w
            /\ \A x \in removing[s] : x \in removing'[s]
        BY <4>2
      <4> QED BY <1>2, <2>1, <2>5, <4>1, <4>3 DEF Held, Ordered
    <3>2. CASE ~Tame(s)
      BY <3>2, <2>5 DEF Tame
    <3> QED BY <3>1, <3>2
  <2>10. (Known(s) => Told(s))'
    BY <1>2, <2>1, <2>5 DEF Good, Orderly, Ordered, Known, Told, Registered, Statuses
  <2> QED BY <2>4, <2>5, <2>6, <2>7, <2>8, <2>9, <2>10, StepOK DEF Good
<1> QED BY <1>1, <1>2 DEF WorkloadFails, Fail

\* A change fails (setAgent, setApps, fail).
LEMMA ChangeFailsStep ==
  ASSUME Inv, NEW s \in Hosted, ChangeFails(s)
  PROVE  Inv'
<1>1. CASE /\ entry[s].workload = 0
           /\ entry' = Dropped(s, "settling")
           /\ Enqueue(s, "failed", "op")
           /\ UNCHANGED removing
  <2>1. /\ Types /\ Good(s) /\ entry[s].workload \in Nat /\ entry[s].epoch \in Nat /\ about[s] \in Nat
        /\ pods[s] \subseteq Nat /\ outbox[s] \in Seq(Write)
        /\ entry[s].busy \in {"changing", "rebuilding"} /\ "settling" \in Busy
    BY <1>1, Local DEF Inv, ChangeFails, At, Busy
  <2>2. Becomes(entry', s, entry[s].status, "settling", 0, entry[s].epoch + 1)
    BY <1>1, <2>1, Typed, DropsTo
  <2>3. /\ Enqueue(s, "failed", "op")
        /\ Wears("failures", MaxFailures)
        /\ UNCHANGED <<record, about, removing, pods, stray, reserved>>
    BY <1>1, <2>1 DEF ChangeFails, Fail
  <2>4. Types'
    BY <2>1, <2>2, <2>3, Typed, Worn, Enqueued DEF Types, SessionsTypeOK, Becomes, Entry, Write,
       Statuses
  <2>5. /\ Alone(s) /\ Entries(s, entry[s].status, "settling", 0, entry[s].epoch + 1)
        /\ record'[s] = record[s]
        /\ about'[s] = about[s]
        /\ Grows(outbox[s], outbox'[s], "failed", "op")
        /\ removing'[s] = removing[s]
        /\ pods'[s] = pods[s]
        /\ stray'[s] = stray[s]
        /\ reserved' = reserved
        /\ wear'.writes = 0 => wear.writes = 0
    BY <1>1, <2>1, <2>2, <2>3, Typed, Worn, Enqueued DEF Alone, Becomes, Statuses
  <2>6. Numbers(s)'
    BY <1>1, <2>1, <2>5 DEF Good, Numbers, Grows
  <2>7. Outside(s)'
    BY <1>1, <2>1, <2>5 DEF Good, Outside, Registered, Statuses, Grows
  <2>8. (Orderly(s) => Ordered(s))'
    BY <1>1, <2>1, <2>5 DEF Good, Numbers, Orderly, Ordered, Live, Grows
  <2>9. (Tame(s) => Held(s))'
    BY <1>1, <2>1, <2>5 DEF Good, Numbers, Orderly, Ordered, Tame, Held, Grows
  <2>10. (Known(s) => Told(s))'
    BY <1>1, <2>1, <2>5 DEF Good, Orderly, Ordered, Known, Told, Registered, Statuses, Grows
  <2> QED BY <2>4, <2>5, <2>6, <2>7, <2>8, <2>9, <2>10, StepOK DEF Good
<1>2. CASE /\ entry[s].workload # 0
           /\ entry' = Dropped(s, "settling")
           /\ removing' = [removing EXCEPT ![s] = removing[s]
                \cup {[w |-> entry[s].workload, by |-> "op"]}]
           /\ UNCHANGED outbox
  <2>1. /\ Types /\ Good(s) /\ entry[s].workload \in Nat /\ entry[s].epoch \in Nat /\ about[s] \in Nat
        /\ pods[s] \subseteq Nat /\ outbox[s] \in Seq(Write)
        /\ entry[s].busy \in {"changing", "rebuilding"} /\ "settling" \in Busy
    BY <1>2, Local DEF Inv, ChangeFails, At, Busy
  <2>2. Becomes(entry', s, entry[s].status, "settling", 0, entry[s].epoch + 1)
    BY <1>2, <2>1, Typed, DropsTo
  <2>3. /\ removing' = [removing EXCEPT ![s] = removing[s] \cup {[w |-> entry[s].workload, by |-> "op"]}]
        /\ Wears("failures", MaxFailures)
        /\ UNCHANGED <<record, about, outbox, pods, stray, reserved>>
    BY <1>2, <2>1 DEF ChangeFails, Fail
  <2>4. Types'
    BY <2>1, <2>2, <2>3, Typed, Worn DEF Types, SessionsTypeOK, Becomes, Entry, Write, Statuses
  <2>5. /\ Alone(s) /\ Entries(s, entry[s].status, "settling", 0, entry[s].epoch + 1)
        /\ record'[s] = record[s]
        /\ about'[s] = about[s]
        /\ outbox'[s] = outbox[s]
        /\ removing'[s] = removing[s] \cup {[w |-> entry[s].workload, by |-> "op"]}
        /\ pods'[s] = pods[s]
        /\ stray'[s] = stray[s]
        /\ reserved' = reserved
        /\ wear'.writes = 0 => wear.writes = 0
    BY <1>2, <2>1, <2>2, <2>3, Typed, Worn DEF Alone, Becomes
  <2>6. Numbers(s)'
    BY <1>2, <2>1, <2>5 DEF Good, Numbers
  <2>7. Outside(s)'
    BY <1>2, <2>1, <2>5 DEF Good, Outside, Registered, Statuses
  <2>8. (Orderly(s) => Ordered(s))'
    BY <1>2, <2>1, <2>5 DEF Good, Numbers, Orderly, Ordered, Live
  <2>9. (Tame(s) => Held(s))'
    <3>1. CASE Tame(s)
      <4>1. Held(s) /\ Ordered(s) /\ Numbers(s)
        BY <2>1, <3>1 DEF Good, Tame, Orderly
      <4> DEFINE new == [w |-> entry[s].workload, by |-> "op"]
      <4>2. new.w = entry[s].workload /\ removing'[s] = removing[s] \cup {new}
        BY <2>5
      <4> HIDE DEF new
      <4>3. /\ \E x \in removing'[s] : entry[s].workload = x.w
            /\ \A x \in removing[s] : x \in removing'[s]
        BY <4>2
      <4> QED BY <1>2, <2>1, <2>5, <4>1, <4>3 DEF Held, Ordered
    <3>2. CASE ~Tame(s)
      BY <3>2, <2>5 DEF Tame
    <3> QED BY <3>1, <3>2
  <2>10. (Known(s) => Told(s))'
    BY <1>2, <2>1, <2>5 DEF Good, Orderly, Ordered, Known, Told, Registered, Statuses
  <2> QED BY <2>4, <2>5, <2>6, <2>7, <2>8, <2>9, <2>10, StepOK DEF Good
<1> QED BY <1>1, <1>2 DEF ChangeFails, Fail

\* An adoption fails (adopt, fail).
LEMMA AdoptionFailsStep ==
  ASSUME Inv, NEW s \in Hosted, AdoptionFails(s)
  PROVE  Inv'
<1>1. CASE /\ entry[s].epoch = about[s]
           /\ entry[s].workload = 0
           /\ entry' = Dropped(s, "unadopted")
           /\ Enqueue(s, "failed", "op")
           /\ UNCHANGED removing
  <2>1. /\ Types /\ Good(s) /\ entry[s].workload \in Nat /\ entry[s].epoch \in Nat /\ about[s] \in Nat
        /\ pods[s] \subseteq Nat /\ outbox[s] \in Seq(Write)
        /\ entry[s].busy = "adopting" /\ "unadopted" \in Busy
    BY <1>1, Local DEF Inv, AdoptionFails, At, Busy
  <2>2. Becomes(entry', s, entry[s].status, "unadopted", 0, entry[s].epoch + 1)
    BY <1>1, <2>1, Typed, DropsTo
  <2>3. /\ Enqueue(s, "failed", "op")
        /\ Wears("failures", MaxFailures)
        /\ UNCHANGED <<record, about, removing, pods, stray, reserved>>
    BY <1>1, <2>1 DEF AdoptionFails, Fail
  <2>4. Types'
    BY <2>1, <2>2, <2>3, Typed, Worn, Enqueued DEF Types, SessionsTypeOK, Becomes, Entry, Write,
       Statuses
  <2>5. /\ Alone(s) /\ Entries(s, entry[s].status, "unadopted", 0, entry[s].epoch + 1)
        /\ record'[s] = record[s]
        /\ about'[s] = about[s]
        /\ Grows(outbox[s], outbox'[s], "failed", "op")
        /\ removing'[s] = removing[s]
        /\ pods'[s] = pods[s]
        /\ stray'[s] = stray[s]
        /\ reserved' = reserved
        /\ wear'.writes = 0 => wear.writes = 0
    BY <1>1, <2>1, <2>2, <2>3, Typed, Worn, Enqueued DEF Alone, Becomes, Statuses
  <2>6. Numbers(s)'
    BY <1>1, <2>1, <2>5 DEF Good, Numbers, Grows
  <2>7. Outside(s)'
    BY <1>1, <2>1, <2>5 DEF Good, Outside, Registered, Statuses, Grows
  <2>8. (Orderly(s) => Ordered(s))'
    BY <1>1, <2>1, <2>5 DEF Good, Numbers, Orderly, Ordered, Live, Grows
  <2>9. (Tame(s) => Held(s))'
    BY <1>1, <2>1, <2>5 DEF Good, Numbers, Orderly, Ordered, Tame, Held, Grows
  <2>10. (Known(s) => Told(s))'
    BY <1>1, <2>1, <2>5 DEF Good, Orderly, Ordered, Known, Told, Registered, Statuses, Grows
  <2> QED BY <2>4, <2>5, <2>6, <2>7, <2>8, <2>9, <2>10, StepOK DEF Good
<1>2. CASE /\ entry[s].epoch = about[s]
           /\ entry[s].workload # 0
           /\ entry' = Dropped(s, "unadopted")
           /\ removing' = [removing EXCEPT ![s] = removing[s]
                \cup {[w |-> entry[s].workload, by |-> "op"]}]
           /\ UNCHANGED outbox
  <2>1. /\ Types /\ Good(s) /\ entry[s].workload \in Nat /\ entry[s].epoch \in Nat /\ about[s] \in Nat
        /\ pods[s] \subseteq Nat /\ outbox[s] \in Seq(Write)
        /\ entry[s].busy = "adopting" /\ "unadopted" \in Busy
    BY <1>2, Local DEF Inv, AdoptionFails, At, Busy
  <2>2. Becomes(entry', s, entry[s].status, "unadopted", 0, entry[s].epoch + 1)
    BY <1>2, <2>1, Typed, DropsTo
  <2>3. /\ removing' = [removing EXCEPT ![s] = removing[s] \cup {[w |-> entry[s].workload, by |-> "op"]}]
        /\ Wears("failures", MaxFailures)
        /\ UNCHANGED <<record, about, outbox, pods, stray, reserved>>
    BY <1>2, <2>1 DEF AdoptionFails, Fail
  <2>4. Types'
    BY <2>1, <2>2, <2>3, Typed, Worn DEF Types, SessionsTypeOK, Becomes, Entry, Write, Statuses
  <2>5. /\ Alone(s) /\ Entries(s, entry[s].status, "unadopted", 0, entry[s].epoch + 1)
        /\ record'[s] = record[s]
        /\ about'[s] = about[s]
        /\ outbox'[s] = outbox[s]
        /\ removing'[s] = removing[s] \cup {[w |-> entry[s].workload, by |-> "op"]}
        /\ pods'[s] = pods[s]
        /\ stray'[s] = stray[s]
        /\ reserved' = reserved
        /\ wear'.writes = 0 => wear.writes = 0
    BY <1>2, <2>1, <2>2, <2>3, Typed, Worn DEF Alone, Becomes
  <2>6. Numbers(s)'
    BY <1>2, <2>1, <2>5 DEF Good, Numbers
  <2>7. Outside(s)'
    BY <1>2, <2>1, <2>5 DEF Good, Outside, Registered, Statuses
  <2>8. (Orderly(s) => Ordered(s))'
    BY <1>2, <2>1, <2>5 DEF Good, Numbers, Orderly, Ordered, Live
  <2>9. (Tame(s) => Held(s))'
    <3>1. CASE Tame(s)
      <4>1. Held(s) /\ Ordered(s) /\ Numbers(s)
        BY <2>1, <3>1 DEF Good, Tame, Orderly
      <4> DEFINE new == [w |-> entry[s].workload, by |-> "op"]
      <4>2. new.w = entry[s].workload /\ removing'[s] = removing[s] \cup {new}
        BY <2>5
      <4> HIDE DEF new
      <4>3. /\ \E x \in removing'[s] : entry[s].workload = x.w
            /\ \A x \in removing[s] : x \in removing'[s]
        BY <4>2
      <4> QED BY <1>2, <2>1, <2>5, <4>1, <4>3 DEF Held, Ordered
    <3>2. CASE ~Tame(s)
      BY <3>2, <2>5 DEF Tame
    <3> QED BY <3>1, <3>2
  <2>10. (Known(s) => Told(s))'
    BY <1>2, <2>1, <2>5 DEF Good, Orderly, Ordered, Known, Told, Registered, Statuses
  <2> QED BY <2>4, <2>5, <2>6, <2>7, <2>8, <2>9, <2>10, StepOK DEF Good
<1>3. CASE entry[s].epoch # about[s] /\ Goto(s, "sweeping") /\ UNCHANGED <<outbox, removing>>
  <2>1. /\ Types /\ Good(s) /\ entry[s].workload \in Nat /\ entry[s].epoch \in Nat /\ about[s] \in Nat
        /\ pods[s] \subseteq Nat /\ outbox[s] \in Seq(Write)
        /\ entry[s].busy = "adopting" /\ "sweeping" \in Busy
    BY <1>3, Local DEF Inv, AdoptionFails, At, Busy
  <2>2. Becomes(entry', s, entry[s].status, "sweeping", entry[s].workload, entry[s].epoch)
    BY <1>3, <2>1, Typed, GoesTo DEF AdoptionFails, Goto
  <2>3. /\ Wears("failures", MaxFailures)
        /\ UNCHANGED <<record, about, outbox, removing, pods, stray, reserved>>
    BY <1>3, <2>1 DEF AdoptionFails
  <2>4. Types'
    BY <2>1, <2>2, <2>3, Typed, Worn DEF Types, SessionsTypeOK, Becomes, Entry, Write, Statuses
  <2>5. /\ Alone(s) /\ Entries(s, entry[s].status, "sweeping", entry[s].workload, entry[s].epoch)
        /\ record'[s] = record[s]
        /\ about'[s] = about[s]
        /\ outbox'[s] = outbox[s]
        /\ removing'[s] = removing[s]
        /\ pods'[s] = pods[s]
        /\ stray'[s] = stray[s]
        /\ reserved' = reserved
        /\ wear'.writes = 0 => wear.writes = 0
    BY <1>3, <2>1, <2>2, <2>3, Typed, Worn DEF Alone, Becomes
  <2>6. Numbers(s)'
    BY <1>3, <2>1, <2>5 DEF Good, Numbers
  <2>7. Outside(s)'
    BY <1>3, <2>1, <2>5 DEF Good, Outside, Registered, Statuses
  <2>8. (Orderly(s) => Ordered(s))'
    BY <1>3, <2>1, <2>5 DEF Good, Numbers, Orderly, Ordered, Live
  <2>9. (Tame(s) => Held(s))'
    BY <1>3, <2>1, <2>5 DEF Good, Numbers, Orderly, Ordered, Tame, Held
  <2>10. (Known(s) => Told(s))'
    BY <1>3, <2>1, <2>5 DEF Good, Orderly, Ordered, Known, Told, Registered, Statuses
  <2> QED BY <2>4, <2>5, <2>6, <2>7, <2>8, <2>9, <2>10, StepOK DEF Good
<1> QED BY <1>1, <1>2, <1>3 DEF AdoptionFails, Fail

\* A fail() has removed the workload, or could not (fail).
LEMMA RemovedStep ==
  ASSUME Inv, NEW s \in Hosted, Removed(s)
  PROVE  Inv'
<1>1. PICK x \in removing[s] :
        /\ Remove(s, x.w) /\ removing' = [removing EXCEPT ![s] = removing[s] \ {x}]
        /\ Enqueue(s, "failed", x.by) /\ UNCHANGED <<record, entry, about, reserved>>
  BY DEF Removed
<1>2. CASE pods' = [pods EXCEPT ![s] = pods[s] \ {x.w}] /\ UNCHANGED <<stray, wear>>
  <2>1. /\ Types /\ Good(s) /\ entry[s].workload \in Nat /\ entry[s].epoch \in Nat /\ about[s] \in Nat
        /\ pods[s] \subseteq Nat /\ outbox[s] \in Seq(Write)
        /\ x \in removing[s] /\ x.by \in {"op", "none"}
        /\ removing[s] \subseteq [w : Nat, by : {"op", "none"}]
    BY <1>1, <1>2, Local DEF Inv, Removed, At
  <2>2. Becomes(entry', s, entry[s].status, entry[s].busy, entry[s].workload, entry[s].epoch)
    BY <1>1, <1>2, <2>1, Typed, Fields DEF Removed, Becomes
  <2>3. /\ removing' = [removing EXCEPT ![s] = removing[s] \ {x}]
        /\ pods' = [pods EXCEPT ![s] = pods[s] \ {x.w}]
        /\ Enqueue(s, "failed", x.by)
        /\ UNCHANGED <<record, about, stray, reserved, wear>>
    BY <1>1, <1>2, <2>1 DEF Removed
  <2>4. Types'
    BY <2>1, <2>2, <2>3, Typed, Enqueued, SMTT(30) DEF Types, SessionsTypeOK, Becomes, Entry, Write, Statuses
  <2>5. /\ Alone(s) /\ Entries(s, entry[s].status, entry[s].busy, entry[s].workload, entry[s].epoch)
        /\ record'[s] = record[s]
        /\ about'[s] = about[s]
        /\ Grows(outbox[s], outbox'[s], "failed", x.by)
        /\ removing'[s] = removing[s] \ {x}
        /\ pods'[s] = pods[s] \ {x.w}
        /\ stray'[s] = stray[s]
        /\ reserved' = reserved
        /\ wear'.writes = 0 => wear.writes = 0
    BY <1>1, <1>2, <2>1, <2>2, <2>3, Typed, Enqueued DEF Alone, Becomes, Statuses
  <2>6. Numbers(s)'
    BY <1>1, <1>2, <2>1, <2>5 DEF Good, Numbers, Grows
  <2>7. Outside(s)'
    BY <1>1, <1>2, <2>1, <2>5 DEF Good, Outside, Registered, Statuses, Grows
  <2>8. (Orderly(s) => Ordered(s))'
    BY <1>1, <1>2, <2>1, <2>5 DEF Good, Numbers, Orderly, Ordered, Live, Grows
  <2>9. (Tame(s) => Held(s))'
    BY <1>1, <1>2, <2>1, <2>5 DEF Good, Numbers, Orderly, Ordered, Tame, Held, Grows
  <2>10. (Known(s) => Told(s))'
    BY <1>1, <1>2, <2>1, <2>5 DEF Good, Orderly, Ordered, Known, Told, Registered, Statuses, Grows
  <2> QED BY <2>4, <2>5, <2>6, <2>7, <2>8, <2>9, <2>10, StepOK DEF Good
<1>3. CASE /\ Wears("failures", MaxFailures)
           /\ stray' = [stray EXCEPT ![s] = stray[s] \cup {"refused"}]
           /\ UNCHANGED pods
  <2>1. /\ Types /\ Good(s) /\ entry[s].workload \in Nat /\ entry[s].epoch \in Nat /\ about[s] \in Nat
        /\ pods[s] \subseteq Nat /\ outbox[s] \in Seq(Write)
        /\ x \in removing[s] /\ x.by \in {"op", "none"}
        /\ removing[s] \subseteq [w : Nat, by : {"op", "none"}]
    BY <1>1, <1>3, Local DEF Inv, Removed, At
  <2>2. Becomes(entry', s, entry[s].status, entry[s].busy, entry[s].workload, entry[s].epoch)
    BY <1>1, <1>3, <2>1, Typed, Fields DEF Removed, Becomes
  <2>3. /\ removing' = [removing EXCEPT ![s] = removing[s] \ {x}]
        /\ stray' = [stray EXCEPT ![s] = stray[s] \cup {"refused"}]
        /\ Enqueue(s, "failed", x.by)
        /\ Wears("failures", MaxFailures)
        /\ UNCHANGED <<record, about, pods, reserved>>
    BY <1>1, <1>3, <2>1 DEF Removed
  <2>4. Types'
    BY <2>1, <2>2, <2>3, Typed, Worn, Enqueued DEF Types, SessionsTypeOK, Becomes, Entry, Write,
       Statuses, Strays
  <2>5. /\ Alone(s) /\ Entries(s, entry[s].status, entry[s].busy, entry[s].workload, entry[s].epoch)
        /\ record'[s] = record[s]
        /\ about'[s] = about[s]
        /\ Grows(outbox[s], outbox'[s], "failed", x.by)
        /\ removing'[s] = removing[s] \ {x}
        /\ pods'[s] = pods[s]
        /\ stray'[s] = stray[s] \cup {"refused"}
        /\ reserved' = reserved
        /\ wear'.writes = 0 => wear.writes = 0
    BY <1>1, <1>3, <2>1, <2>2, <2>3, Typed, Worn, Enqueued DEF Alone, Becomes, Statuses
  <2>6. Numbers(s)'
    BY <1>1, <1>3, <2>1, <2>5 DEF Good, Numbers, Grows
  <2>7. Outside(s)'
    BY <1>1, <1>3, <2>1, <2>5 DEF Good, Outside, Registered, Statuses, Grows
  <2>8. (Orderly(s) => Ordered(s))'
    BY <1>1, <1>3, <2>1, <2>5 DEF Good, Numbers, Orderly, Ordered, Live, Grows
  <2>9. (Tame(s) => Held(s))'
    BY <2>5 DEF Tame
  <2>10. (Known(s) => Told(s))'
    BY <1>1, <1>3, <2>1, <2>5 DEF Good, Orderly, Ordered, Known, Told, Registered, Statuses, Grows
  <2> QED BY <2>4, <2>5, <2>6, <2>7, <2>8, <2>9, <2>10, StepOK DEF Good
<1> QED BY <1>1, <1>2, <1>3 DEF Remove

\* A write is done: commitStatus, commitRecord.
LEMMA WritesStep ==
  ASSUME Inv, NEW s \in Hosted, Writes(s)
  PROVE  Inv'
<1>1. /\ outbox[s] # <<>> /\ First(s).removes = 0 /\ First(s) \in Write
      /\ First(s).status \in Statuses \cup {"same"} /\ First(s).by \in {"op", "none", "late"}
  BY Local, TailQ DEF Writes, Write, First
<1>2. /\ record' = IF record[s] = "none" \/ First(s).status = "same" THEN record
                  ELSE [record EXCEPT ![s] = First(s).status]
      /\ entry' = IF First(s).by = "op"
                 THEN Continued(s, IF First(s).by = "late" THEN entry ELSE Shown(s, First(s).status))
                  ELSE IF First(s).by = "late" THEN entry ELSE Shown(s, First(s).status)
      /\ about' = IF First(s).by = "op" /\ At(s, "resuming") THEN [about EXCEPT ![s] = entry[s].epoch + 1]
                  ELSE IF First(s).by = "op" /\ At(s, "recording")
                    THEN [about EXCEPT ![s] = entry[s].workload]
                  ELSE about
      /\ outbox' = [outbox EXCEPT ![s] = Tail(outbox[s])]
      /\ UNCHANGED <<removing, pods, reserved, stray, wear>>
  BY DEF Writes, First
<1>3. /\ record'[s] = Stores(s) /\ record' \in [Hosted -> Statuses \cup {"none"}]
      /\ \A t \in Hosted : t # s => record'[t] = record[t]
  BY <1>1, <1>2, Local, Typed DEF Stores, Inv
<1>4. Becomes(Shown(s, First(s).status), s, Shows(s), entry[s].busy, entry[s].workload, entry[s].epoch)
  BY <1>1, Local, ShownTo DEF Shows
<1>5. /\ Registered(s) => Shows(s) \in Statuses
      /\ ~Registered(s) => Shows(s) = entry[s].status
      /\ First(s).status = "same" => Shows(s) = entry[s].status /\ Stores(s) = record[s]
      /\ Registered(s) /\ First(s).status # "same" => Shows(s) = First(s).status
      /\ record[s] # "none" /\ First(s).status # "same" => Stores(s) = First(s).status
  BY <1>1 DEF Shows, Stores, Registered
<1>6. CASE First(s).by = "late"
  <2>1. /\ Types /\ Good(s) /\ entry[s].workload \in Nat /\ entry[s].epoch \in Nat /\ about[s] \in Nat
        /\ pods[s] \subseteq Nat /\ outbox[s] \in Seq(Write)
        /\ outbox[s] # <<>>
    BY <1>1, <1>2, <1>6, Local DEF Inv
  <2>0. /\ entry' = entry /\ about' = about
    BY <1>1, <1>2, <1>6, <2>1 DEF At, NextBusy
  <2>2. Becomes(entry', s, entry[s].status, entry[s].busy, entry[s].workload, entry[s].epoch)
    BY <1>6, <2>1, Typed, Fields, <2>0 DEF Becomes
  <2>3. /\ outbox' = [outbox EXCEPT ![s] = Tail(outbox[s])]
        /\ UNCHANGED <<about, removing, pods, stray, reserved, wear>>
    BY <1>1, <1>2, <1>6, <2>1, <2>0
  <2>4. Types'
    <3>1. entry' \in [Hosted -> Entry]
      BY <2>2 DEF Becomes
    <3>2. outbox' \in [Hosted -> Seq(Write)]
      BY <2>1, <2>3, Shrunk
    <3>3. about' \in [Hosted -> Nat] /\ wear' \in Wear
      BY <2>1, <2>3, Typed
    <3> QED BY <2>1, <2>3, <3>1, <3>2, <3>3, Typed, <1>3 DEF Types, SessionsTypeOK, Entry, Write
  <2>5. /\ Alone(s) /\ Entries(s, entry[s].status, entry[s].busy, entry[s].workload, entry[s].epoch)
        /\ about'[s] = about[s]
        /\ Shrinks(outbox[s], outbox'[s], First(s))
        /\ removing'[s] = removing[s]
        /\ pods'[s] = pods[s]
        /\ stray'[s] = stray[s]
        /\ reserved' = reserved
        /\ record'[s] = Stores(s)
        /\ wear'.writes = 0 => wear.writes = 0
    BY <1>1, <1>2, <1>6, <2>1, <2>2, <2>3, Typed, Shrunk, <1>3 DEF Alone, Becomes, First, Statuses
  <2>6. Numbers(s)'
    BY <1>1, <1>2, <1>6, <2>1, <2>5 DEF Good, Numbers, Shrinks
  <2>7. Outside(s)'
    BY <1>1, <1>2, <1>6, <2>1, <2>5 DEF Good, Outside, Registered, Statuses, Shrinks
  <2>8. (Orderly(s) => Ordered(s))'
    <3> SUFFICES ASSUME Orderly(s)' PROVE Ordered(s)'
      OBVIOUS
    <3>1. Orderly(s) /\ Ordered(s)
      BY <1>6, <2>1, <2>5 DEF Good, Orderly
    <3>2. /\ NoRemoval(outbox'[s]) /\ OnlyHead(outbox'[s]) /\ OneOp(outbox'[s])
          /\ RemovalOf(outbox'[s]) = 0
          /\ outbox[s] # <<>> /\ (NoOp(outbox[s]) => NoOp(outbox'[s]) /\ First(s).by # "op")
          /\ First(s).by = "op" => NoOp(outbox'[s])
          /\ NoBad(outbox[s]) => NoBad(outbox'[s]) /\ ~Bad(First(s))
          /\ AfterOp(outbox[s]) => AfterOp(outbox'[s]) /\ (First(s).by = "op" => NoBad(outbox'[s]))
          /\ OpStarts(outbox[s]) => /\ OpStarts(outbox'[s])
                                    /\ (First(s).by = "op" => First(s).status = "starting")
      BY <2>5, <3>1 DEF Ordered, Shrinks
    <3>3. NoBad(outbox[s]) /\ entry[s].status \in {"starting", "running"} /\ First(s).by # "late" =>
            entry[s].status \in {"starting", "running"}
      BY <1>1, <3>2 DEF Shows, Bad, Statuses
    <3> QED BY <1>6, <1>1, <2>1, <2>5, <3>1, <3>2, <3>3 DEF Ordered, Live, Numbers, Good
  <2>9. (Tame(s) => Held(s))'
    BY <1>1, <1>2, <1>6, <2>1, <2>5 DEF Good, Numbers, Orderly, Ordered, Tame, Held, Shrinks
  <2>10. (Known(s) => Told(s))'
    BY <1>1, <1>2, <1>6, <2>1, <2>5 DEF Good, Orderly, Ordered, Known, Told, Registered,
       Statuses, Shrinks
  <2> QED BY <2>4, <2>5, <2>6, <2>7, <2>8, <2>9, <2>10, StepOK DEF Good
<1>7. CASE First(s).by = "none"
  <2>1. /\ Types /\ Good(s) /\ entry[s].workload \in Nat /\ entry[s].epoch \in Nat /\ about[s] \in Nat
        /\ pods[s] \subseteq Nat /\ outbox[s] \in Seq(Write)
        /\ outbox[s] # <<>>
    BY <1>1, <1>2, <1>7, Local DEF Inv
  <2>0. /\ entry' = Shown(s, First(s).status) /\ about' = about
    BY <1>1, <1>2, <1>7, <2>1 DEF At, NextBusy
  <2>2. Becomes(entry', s, Shows(s), entry[s].busy, entry[s].workload, entry[s].epoch)
    BY <1>7, <2>1, Typed, <2>0, <1>4
  <2>3. /\ outbox' = [outbox EXCEPT ![s] = Tail(outbox[s])]
        /\ UNCHANGED <<about, removing, pods, stray, reserved, wear>>
    BY <1>1, <1>2, <1>7, <2>1, <2>0
  <2>4. Types'
    <3>1. entry' \in [Hosted -> Entry]
      BY <2>2 DEF Becomes
    <3>2. outbox' \in [Hosted -> Seq(Write)]
      BY <2>1, <2>3, Shrunk
    <3>3. about' \in [Hosted -> Nat] /\ wear' \in Wear
      BY <2>1, <2>3, Typed
    <3> QED BY <2>1, <2>3, <3>1, <3>2, <3>3, Typed, <1>3 DEF Types, SessionsTypeOK, Entry, Write
  <2>5. /\ Alone(s) /\ Entries(s, Shows(s), entry[s].busy, entry[s].workload, entry[s].epoch)
        /\ about'[s] = about[s]
        /\ Shrinks(outbox[s], outbox'[s], First(s))
        /\ removing'[s] = removing[s]
        /\ pods'[s] = pods[s]
        /\ stray'[s] = stray[s]
        /\ reserved' = reserved
        /\ record'[s] = Stores(s)
        /\ wear'.writes = 0 => wear.writes = 0
    BY <1>1, <1>2, <1>7, <2>1, <2>2, <2>3, Typed, Shrunk, <1>3 DEF Alone, Becomes, First, Statuses
  <2>6. Numbers(s)'
    BY <1>1, <1>2, <1>7, <2>1, <2>5 DEF Good, Numbers, Shrinks
  <2>7. Outside(s)'
    BY <1>1, <1>2, <1>7, <2>1, <2>5, <1>5 DEF Good, Outside, Registered, Statuses, Shrinks
  <2>8. (Orderly(s) => Ordered(s))'
    <3> SUFFICES ASSUME Orderly(s)' PROVE Ordered(s)'
      OBVIOUS
    <3>1. Orderly(s) /\ Ordered(s)
      BY <1>7, <2>1, <2>5 DEF Good, Orderly
    <3>2. /\ NoRemoval(outbox'[s]) /\ OnlyHead(outbox'[s]) /\ OneOp(outbox'[s])
          /\ RemovalOf(outbox'[s]) = 0
          /\ outbox[s] # <<>> /\ (NoOp(outbox[s]) => NoOp(outbox'[s]) /\ First(s).by # "op")
          /\ First(s).by = "op" => NoOp(outbox'[s])
          /\ NoBad(outbox[s]) => NoBad(outbox'[s]) /\ ~Bad(First(s))
          /\ AfterOp(outbox[s]) => AfterOp(outbox'[s]) /\ (First(s).by = "op" => NoBad(outbox'[s]))
          /\ OpStarts(outbox[s]) => /\ OpStarts(outbox'[s])
                                    /\ (First(s).by = "op" => First(s).status = "starting")
      BY <2>5, <3>1 DEF Ordered, Shrinks
    <3>3. NoBad(outbox[s]) /\ entry[s].status \in {"starting", "running"} /\ First(s).by # "late" =>
            Shows(s) \in {"starting", "running"}
      BY <1>1, <3>2 DEF Shows, Bad, Statuses
    <3> QED BY <1>7, <1>1, <2>1, <2>5, <3>1, <3>2, <3>3 DEF Ordered, Live, Numbers, Good
  <2>9. (Tame(s) => Held(s))'
    BY <1>1, <1>2, <1>7, <2>1, <2>5 DEF Good, Numbers, Orderly, Ordered, Tame, Held, Shrinks
  <2>10. (Known(s) => Told(s))'
    <3> SUFFICES ASSUME Known(s)' PROVE Told(s)'
      OBVIOUS
    <3>1. Known(s) /\ Told(s) /\ Ordered(s)
      BY <1>7, <2>1, <2>5 DEF Good, Known, Orderly
    <3>2. /\ Plain(outbox'[s]) /\ StartsByOp(outbox'[s]) /\ First(s).by # "late" /\ outbox[s] # <<>>
          /\ HasStatus(outbox[s]) => HasStatus(outbox'[s]) \/ First(s).status # "same"
          /\ HasRunning(outbox[s]) => HasRunning(outbox'[s]) \/ First(s).status = "running"
          /\ HasBad(outbox[s]) => HasBad(outbox'[s]) \/ First(s).status \in {"failed", "suspended"}
          /\ NoStart(outbox[s]) => NoStart(outbox'[s]) /\ First(s).status # "starting"
          /\ First(s).status = "starting" => First(s).by = "op"
          /\ NoOp(outbox'[s]) => NoStart(outbox'[s])
          /\ Answered(outbox[s]) => /\ Answered(outbox'[s])
                                    /\ (First(s).status = "running" => HasBad(outbox'[s]))
          /\ NoBad(outbox[s]) => First(s).status \notin {"failed", "suspended"}
          /\ First(s).by = "op" => NoOp(outbox'[s])
          /\ NoOp(outbox[s]) => First(s).by # "op"
          /\ OpStarts(outbox[s]) /\ First(s).by = "op" => First(s).status = "starting"
      BY <2>5, <3>1 DEF Told, Ordered, Shrinks, Bad
    <3> QED BY <1>7, <1>1, <1>5, <2>1, <2>5, <3>1, <3>2 DEF Told, Ordered, Live, Good, Outside,
               Registered, Statuses
  <2> QED BY <2>4, <2>5, <2>6, <2>7, <2>8, <2>9, <2>10, StepOK DEF Good
<1>8. CASE First(s).by = "op" /\ entry[s].busy = "resuming"
  <2>1. /\ Types /\ Good(s) /\ entry[s].workload \in Nat /\ entry[s].epoch \in Nat /\ about[s] \in Nat
        /\ pods[s] \subseteq Nat /\ outbox[s] \in Seq(Write)
        /\ outbox[s] # <<>>
    BY <1>1, <1>2, <1>8, Local DEF Inv
  <2>0. /\ entry' = Continued(s, Shown(s, First(s).status))
        /\ about' = [about EXCEPT ![s] = entry[s].epoch + 1]
        /\ NextBusy(entry[s].busy, entry[s].workload) = "creating"
    BY <1>1, <1>2, <1>8, <2>1 DEF At, NextBusy
  <2>2. Becomes(entry', s, Shows(s), "creating", entry[s].workload, entry[s].epoch + 1)
    BY <1>8, <2>1, Typed, <2>0, <1>4, ContinuedTo
  <2>3. /\ about' = [about EXCEPT ![s] = entry[s].epoch + 1]
        /\ outbox' = [outbox EXCEPT ![s] = Tail(outbox[s])]
        /\ UNCHANGED <<removing, pods, stray, reserved, wear>>
    BY <1>1, <1>2, <1>8, <2>1, <2>0
  <2>4. Types'
    <3>1. entry' \in [Hosted -> Entry]
      BY <2>2 DEF Becomes
    <3>2. outbox' \in [Hosted -> Seq(Write)]
      BY <2>1, <2>3, Shrunk
    <3>3. about' \in [Hosted -> Nat] /\ wear' \in Wear
      BY <2>1, <2>3, Typed
    <3> QED BY <2>1, <2>3, <3>1, <3>2, <3>3, Typed, <1>3 DEF Types, SessionsTypeOK, Entry, Write
  <2>5. /\ Alone(s) /\ Entries(s, Shows(s), "creating", entry[s].workload, entry[s].epoch + 1)
        /\ about'[s] = entry[s].epoch + 1
        /\ Shrinks(outbox[s], outbox'[s], First(s))
        /\ removing'[s] = removing[s]
        /\ pods'[s] = pods[s]
        /\ stray'[s] = stray[s]
        /\ reserved' = reserved
        /\ record'[s] = Stores(s)
        /\ wear'.writes = 0 => wear.writes = 0
    BY <1>1, <1>2, <1>8, <2>1, <2>2, <2>3, Typed, Shrunk, <1>3 DEF Alone, Becomes, First, Statuses
  <2>6. Numbers(s)'
    BY <1>1, <1>2, <1>8, <2>1, <2>5 DEF Good, Numbers, Shrinks
  <2>7. Outside(s)'
    BY <1>1, <1>2, <1>8, <2>1, <2>5, <1>5 DEF Good, Outside, Registered, Statuses, Shrinks
  <2>8. (Orderly(s) => Ordered(s))'
    <3> SUFFICES ASSUME Orderly(s)' PROVE Ordered(s)'
      OBVIOUS
    <3>1. Orderly(s) /\ Ordered(s)
      BY <1>8, <2>1, <2>5 DEF Good, Orderly
    <3>2. /\ NoRemoval(outbox'[s]) /\ OnlyHead(outbox'[s]) /\ OneOp(outbox'[s])
          /\ RemovalOf(outbox'[s]) = 0
          /\ outbox[s] # <<>> /\ (NoOp(outbox[s]) => NoOp(outbox'[s]) /\ First(s).by # "op")
          /\ First(s).by = "op" => NoOp(outbox'[s])
          /\ NoBad(outbox[s]) => NoBad(outbox'[s]) /\ ~Bad(First(s))
          /\ AfterOp(outbox[s]) => AfterOp(outbox'[s]) /\ (First(s).by = "op" => NoBad(outbox'[s]))
          /\ OpStarts(outbox[s]) => /\ OpStarts(outbox'[s])
                                    /\ (First(s).by = "op" => First(s).status = "starting")
      BY <2>5, <3>1 DEF Ordered, Shrinks
    <3>3. NoBad(outbox[s]) /\ entry[s].status \in {"starting", "running"} /\ First(s).by # "late" =>
            Shows(s) \in {"starting", "running"}
      BY <1>1, <3>2 DEF Shows, Bad, Statuses
    <3>4. Shows(s) = "starting"
      BY <1>8, <1>1, <2>1, <3>1, <3>2 DEF Ordered, Shows, Good, Outside
    <3> QED BY <1>8, <1>1, <2>1, <2>5, <3>1, <3>2, <3>3, <3>4 DEF Ordered, Live, Numbers, Good
  <2>9. (Tame(s) => Held(s))'
    BY <1>1, <1>2, <1>8, <2>1, <2>5 DEF Good, Numbers, Orderly, Ordered, Tame, Held, Shrinks
  <2>10. (Known(s) => Told(s))'
    <3> SUFFICES ASSUME Known(s)' PROVE Told(s)'
      OBVIOUS
    <3>1. Known(s) /\ Told(s) /\ Ordered(s)
      BY <1>8, <2>1, <2>5 DEF Good, Known, Orderly
    <3>2. /\ Plain(outbox'[s]) /\ StartsByOp(outbox'[s]) /\ First(s).by # "late" /\ outbox[s] # <<>>
          /\ HasStatus(outbox[s]) => HasStatus(outbox'[s]) \/ First(s).status # "same"
          /\ HasRunning(outbox[s]) => HasRunning(outbox'[s]) \/ First(s).status = "running"
          /\ HasBad(outbox[s]) => HasBad(outbox'[s]) \/ First(s).status \in {"failed", "suspended"}
          /\ NoStart(outbox[s]) => NoStart(outbox'[s]) /\ First(s).status # "starting"
          /\ First(s).status = "starting" => First(s).by = "op"
          /\ NoOp(outbox'[s]) => NoStart(outbox'[s])
          /\ Answered(outbox[s]) => /\ Answered(outbox'[s])
                                    /\ (First(s).status = "running" => HasBad(outbox'[s]))
          /\ NoBad(outbox[s]) => First(s).status \notin {"failed", "suspended"}
          /\ First(s).by = "op" => NoOp(outbox'[s])
          /\ NoOp(outbox[s]) => First(s).by # "op"
          /\ OpStarts(outbox[s]) /\ First(s).by = "op" => First(s).status = "starting"
      BY <2>5, <3>1 DEF Told, Ordered, Shrinks, Bad
    <3> QED BY <1>8, <1>1, <1>5, <2>1, <2>5, <3>1, <3>2 DEF Told, Ordered, Live, Good, Outside,
               Registered, Statuses
  <2> QED BY <2>4, <2>5, <2>6, <2>7, <2>8, <2>9, <2>10, StepOK DEF Good
<1>9. CASE First(s).by = "op" /\ entry[s].busy = "recording" /\ entry[s].workload # 0
  <2>1. /\ Types /\ Good(s) /\ entry[s].workload \in Nat /\ entry[s].epoch \in Nat /\ about[s] \in Nat
        /\ pods[s] \subseteq Nat /\ outbox[s] \in Seq(Write)
        /\ outbox[s] # <<>>
    BY <1>1, <1>2, <1>9, Local DEF Inv
  <2>0. /\ entry' = Continued(s, Shown(s, First(s).status))
        /\ about' = [about EXCEPT ![s] = entry[s].workload]
        /\ NextBusy(entry[s].busy, entry[s].workload) = "changing"
    BY <1>1, <1>2, <1>9, <2>1 DEF At, NextBusy
  <2>2. Becomes(entry', s, Shows(s), "changing", entry[s].workload, entry[s].epoch)
    BY <1>9, <2>1, Typed, <2>0, <1>4, ContinuedTo
  <2>3. /\ about' = [about EXCEPT ![s] = entry[s].workload]
        /\ outbox' = [outbox EXCEPT ![s] = Tail(outbox[s])]
        /\ UNCHANGED <<removing, pods, stray, reserved, wear>>
    BY <1>1, <1>2, <1>9, <2>1, <2>0
  <2>4. Types'
    <3>1. entry' \in [Hosted -> Entry]
      BY <2>2 DEF Becomes
    <3>2. outbox' \in [Hosted -> Seq(Write)]
      BY <2>1, <2>3, Shrunk
    <3>3. about' \in [Hosted -> Nat] /\ wear' \in Wear
      BY <2>1, <2>3, Typed
    <3> QED BY <2>1, <2>3, <3>1, <3>2, <3>3, Typed, <1>3 DEF Types, SessionsTypeOK, Entry, Write
  <2>5. /\ Alone(s) /\ Entries(s, Shows(s), "changing", entry[s].workload, entry[s].epoch)
        /\ about'[s] = entry[s].workload
        /\ Shrinks(outbox[s], outbox'[s], First(s))
        /\ removing'[s] = removing[s]
        /\ pods'[s] = pods[s]
        /\ stray'[s] = stray[s]
        /\ reserved' = reserved
        /\ record'[s] = Stores(s)
        /\ wear'.writes = 0 => wear.writes = 0
    BY <1>1, <1>2, <1>9, <2>1, <2>2, <2>3, Typed, Shrunk, <1>3 DEF Alone, Becomes, First, Statuses
  <2>6. Numbers(s)'
    BY <1>1, <1>2, <1>9, <2>1, <2>5 DEF Good, Numbers, Shrinks
  <2>7. Outside(s)'
    BY <1>1, <1>2, <1>9, <2>1, <2>5, <1>5 DEF Good, Outside, Registered, Statuses, Shrinks
  <2>8. (Orderly(s) => Ordered(s))'
    <3> SUFFICES ASSUME Orderly(s)' PROVE Ordered(s)'
      OBVIOUS
    <3>1. Orderly(s) /\ Ordered(s)
      BY <1>9, <2>1, <2>5 DEF Good, Orderly
    <3>2. /\ NoRemoval(outbox'[s]) /\ OnlyHead(outbox'[s]) /\ OneOp(outbox'[s])
          /\ RemovalOf(outbox'[s]) = 0
          /\ outbox[s] # <<>> /\ (NoOp(outbox[s]) => NoOp(outbox'[s]) /\ First(s).by # "op")
          /\ First(s).by = "op" => NoOp(outbox'[s])
          /\ NoBad(outbox[s]) => NoBad(outbox'[s]) /\ ~Bad(First(s))
          /\ AfterOp(outbox[s]) => AfterOp(outbox'[s]) /\ (First(s).by = "op" => NoBad(outbox'[s]))
          /\ OpStarts(outbox[s]) => /\ OpStarts(outbox'[s])
                                    /\ (First(s).by = "op" => First(s).status = "starting")
      BY <2>5, <3>1 DEF Ordered, Shrinks
    <3>3. NoBad(outbox[s]) /\ entry[s].status \in {"starting", "running"} /\ First(s).by # "late" =>
            Shows(s) \in {"starting", "running"}
      BY <1>1, <3>2 DEF Shows, Bad, Statuses
    <3> QED BY <1>9, <1>1, <2>1, <2>5, <3>1, <3>2, <3>3 DEF Ordered, Live, Numbers, Good
  <2>9. (Tame(s) => Held(s))'
    BY <1>1, <1>2, <1>9, <2>1, <2>5 DEF Good, Numbers, Orderly, Ordered, Tame, Held, Shrinks
  <2>10. (Known(s) => Told(s))'
    <3> SUFFICES ASSUME Known(s)' PROVE Told(s)'
      OBVIOUS
    <3>1. Known(s) /\ Told(s) /\ Ordered(s)
      BY <1>9, <2>1, <2>5 DEF Good, Known, Orderly
    <3>2. /\ Plain(outbox'[s]) /\ StartsByOp(outbox'[s]) /\ First(s).by # "late" /\ outbox[s] # <<>>
          /\ HasStatus(outbox[s]) => HasStatus(outbox'[s]) \/ First(s).status # "same"
          /\ HasRunning(outbox[s]) => HasRunning(outbox'[s]) \/ First(s).status = "running"
          /\ HasBad(outbox[s]) => HasBad(outbox'[s]) \/ First(s).status \in {"failed", "suspended"}
          /\ NoStart(outbox[s]) => NoStart(outbox'[s]) /\ First(s).status # "starting"
          /\ First(s).status = "starting" => First(s).by = "op"
          /\ NoOp(outbox'[s]) => NoStart(outbox'[s])
          /\ Answered(outbox[s]) => /\ Answered(outbox'[s])
                                    /\ (First(s).status = "running" => HasBad(outbox'[s]))
          /\ NoBad(outbox[s]) => First(s).status \notin {"failed", "suspended"}
          /\ First(s).by = "op" => NoOp(outbox'[s])
          /\ NoOp(outbox[s]) => First(s).by # "op"
          /\ OpStarts(outbox[s]) /\ First(s).by = "op" => First(s).status = "starting"
      BY <2>5, <3>1 DEF Told, Ordered, Shrinks, Bad
    <3> QED BY <1>9, <1>1, <1>5, <2>1, <2>5, <3>1, <3>2 DEF Told, Ordered, Live, Good, Outside,
               Registered, Statuses
  <2> QED BY <2>4, <2>5, <2>6, <2>7, <2>8, <2>9, <2>10, StepOK DEF Good
<1>10. CASE First(s).by = "op" /\ entry[s].busy = "recording" /\ entry[s].workload = 0
  <2>1. /\ Types /\ Good(s) /\ entry[s].workload \in Nat /\ entry[s].epoch \in Nat /\ about[s] \in Nat
        /\ pods[s] \subseteq Nat /\ outbox[s] \in Seq(Write)
        /\ outbox[s] # <<>>
    BY <1>1, <1>2, <1>10, Local DEF Inv
  <2>0. /\ entry' = Continued(s, Shown(s, First(s).status))
        /\ about' = [about EXCEPT ![s] = entry[s].workload]
        /\ NextBusy(entry[s].busy, entry[s].workload) = "idle"
    BY <1>1, <1>2, <1>10, <2>1 DEF At, NextBusy
  <2>2. Becomes(entry', s, Shows(s), "idle", entry[s].workload, entry[s].epoch)
    BY <1>10, <2>1, Typed, <2>0, <1>4, ContinuedTo
  <2>3. /\ about' = [about EXCEPT ![s] = entry[s].workload]
        /\ outbox' = [outbox EXCEPT ![s] = Tail(outbox[s])]
        /\ UNCHANGED <<removing, pods, stray, reserved, wear>>
    BY <1>1, <1>2, <1>10, <2>1, <2>0
  <2>4. Types'
    <3>1. entry' \in [Hosted -> Entry]
      BY <2>2 DEF Becomes
    <3>2. outbox' \in [Hosted -> Seq(Write)]
      BY <2>1, <2>3, Shrunk
    <3>3. about' \in [Hosted -> Nat] /\ wear' \in Wear
      BY <2>1, <2>3, Typed
    <3> QED BY <2>1, <2>3, <3>1, <3>2, <3>3, Typed, <1>3 DEF Types, SessionsTypeOK, Entry, Write
  <2>5. /\ Alone(s) /\ Entries(s, Shows(s), "idle", entry[s].workload, entry[s].epoch)
        /\ about'[s] = entry[s].workload
        /\ Shrinks(outbox[s], outbox'[s], First(s))
        /\ removing'[s] = removing[s]
        /\ pods'[s] = pods[s]
        /\ stray'[s] = stray[s]
        /\ reserved' = reserved
        /\ record'[s] = Stores(s)
        /\ wear'.writes = 0 => wear.writes = 0
    BY <1>1, <1>2, <1>10, <2>1, <2>2, <2>3, Typed, Shrunk, <1>3 DEF Alone, Becomes, First, Statuses
  <2>6. Numbers(s)'
    BY <1>1, <1>2, <1>10, <2>1, <2>5 DEF Good, Numbers, Shrinks
  <2>7. Outside(s)'
    BY <1>1, <1>2, <1>10, <2>1, <2>5, <1>5 DEF Good, Outside, Registered, Statuses, Shrinks
  <2>8. (Orderly(s) => Ordered(s))'
    <3> SUFFICES ASSUME Orderly(s)' PROVE Ordered(s)'
      OBVIOUS
    <3>1. Orderly(s) /\ Ordered(s)
      BY <1>10, <2>1, <2>5 DEF Good, Orderly
    <3>2. /\ NoRemoval(outbox'[s]) /\ OnlyHead(outbox'[s]) /\ OneOp(outbox'[s])
          /\ RemovalOf(outbox'[s]) = 0
          /\ outbox[s] # <<>> /\ (NoOp(outbox[s]) => NoOp(outbox'[s]) /\ First(s).by # "op")
          /\ First(s).by = "op" => NoOp(outbox'[s])
          /\ NoBad(outbox[s]) => NoBad(outbox'[s]) /\ ~Bad(First(s))
          /\ AfterOp(outbox[s]) => AfterOp(outbox'[s]) /\ (First(s).by = "op" => NoBad(outbox'[s]))
          /\ OpStarts(outbox[s]) => /\ OpStarts(outbox'[s])
                                    /\ (First(s).by = "op" => First(s).status = "starting")
      BY <2>5, <3>1 DEF Ordered, Shrinks
    <3>3. NoBad(outbox[s]) /\ entry[s].status \in {"starting", "running"} /\ First(s).by # "late" =>
            Shows(s) \in {"starting", "running"}
      BY <1>1, <3>2 DEF Shows, Bad, Statuses
    <3> QED BY <1>10, <1>1, <2>1, <2>5, <3>1, <3>2, <3>3 DEF Ordered, Live, Numbers, Good
  <2>9. (Tame(s) => Held(s))'
    BY <1>1, <1>2, <1>10, <2>1, <2>5 DEF Good, Numbers, Orderly, Ordered, Tame, Held, Shrinks
  <2>10. (Known(s) => Told(s))'
    <3> SUFFICES ASSUME Known(s)' PROVE Told(s)'
      OBVIOUS
    <3>1. Known(s) /\ Told(s) /\ Ordered(s)
      BY <1>10, <2>1, <2>5 DEF Good, Known, Orderly
    <3>2. /\ Plain(outbox'[s]) /\ StartsByOp(outbox'[s]) /\ First(s).by # "late" /\ outbox[s] # <<>>
          /\ HasStatus(outbox[s]) => HasStatus(outbox'[s]) \/ First(s).status # "same"
          /\ HasRunning(outbox[s]) => HasRunning(outbox'[s]) \/ First(s).status = "running"
          /\ HasBad(outbox[s]) => HasBad(outbox'[s]) \/ First(s).status \in {"failed", "suspended"}
          /\ NoStart(outbox[s]) => NoStart(outbox'[s]) /\ First(s).status # "starting"
          /\ First(s).status = "starting" => First(s).by = "op"
          /\ NoOp(outbox'[s]) => NoStart(outbox'[s])
          /\ Answered(outbox[s]) => /\ Answered(outbox'[s])
                                    /\ (First(s).status = "running" => HasBad(outbox'[s]))
          /\ NoBad(outbox[s]) => First(s).status \notin {"failed", "suspended"}
          /\ First(s).by = "op" => NoOp(outbox'[s])
          /\ NoOp(outbox[s]) => First(s).by # "op"
          /\ OpStarts(outbox[s]) /\ First(s).by = "op" => First(s).status = "starting"
      BY <2>5, <3>1 DEF Told, Ordered, Shrinks, Bad
    <3> QED BY <1>10, <1>1, <1>5, <2>1, <2>5, <3>1, <3>2 DEF Told, Ordered, Live, Good, Outside,
               Registered, Statuses
  <2> QED BY <2>4, <2>5, <2>6, <2>7, <2>8, <2>9, <2>10, StepOK DEF Good
<1>11. CASE First(s).by = "op" /\ entry[s].busy = "unadopted"
  <2>1. /\ Types /\ Good(s) /\ entry[s].workload \in Nat /\ entry[s].epoch \in Nat /\ about[s] \in Nat
        /\ pods[s] \subseteq Nat /\ outbox[s] \in Seq(Write)
        /\ outbox[s] # <<>>
    BY <1>1, <1>2, <1>11, Local DEF Inv
  <2>0. /\ entry' = Continued(s, Shown(s, First(s).status)) /\ about' = about
        /\ NextBusy(entry[s].busy, entry[s].workload) = "sweeping"
    BY <1>1, <1>2, <1>11, <2>1 DEF At, NextBusy
  <2>2. Becomes(entry', s, Shows(s), "sweeping", entry[s].workload, entry[s].epoch)
    BY <1>11, <2>1, Typed, <2>0, <1>4, ContinuedTo
  <2>3. /\ outbox' = [outbox EXCEPT ![s] = Tail(outbox[s])]
        /\ UNCHANGED <<about, removing, pods, stray, reserved, wear>>
    BY <1>1, <1>2, <1>11, <2>1, <2>0
  <2>4. Types'
    <3>1. entry' \in [Hosted -> Entry]
      BY <2>2 DEF Becomes
    <3>2. outbox' \in [Hosted -> Seq(Write)]
      BY <2>1, <2>3, Shrunk
    <3>3. about' \in [Hosted -> Nat] /\ wear' \in Wear
      BY <2>1, <2>3, Typed
    <3> QED BY <2>1, <2>3, <3>1, <3>2, <3>3, Typed, <1>3 DEF Types, SessionsTypeOK, Entry, Write
  <2>5. /\ Alone(s) /\ Entries(s, Shows(s), "sweeping", entry[s].workload, entry[s].epoch)
        /\ about'[s] = about[s]
        /\ Shrinks(outbox[s], outbox'[s], First(s))
        /\ removing'[s] = removing[s]
        /\ pods'[s] = pods[s]
        /\ stray'[s] = stray[s]
        /\ reserved' = reserved
        /\ record'[s] = Stores(s)
        /\ wear'.writes = 0 => wear.writes = 0
    BY <1>1, <1>2, <1>11, <2>1, <2>2, <2>3, Typed, Shrunk, <1>3 DEF Alone, Becomes, First, Statuses
  <2>6. Numbers(s)'
    BY <1>1, <1>2, <1>11, <2>1, <2>5 DEF Good, Numbers, Shrinks
  <2>7. Outside(s)'
    BY <1>1, <1>2, <1>11, <2>1, <2>5, <1>5 DEF Good, Outside, Registered, Statuses, Shrinks
  <2>8. (Orderly(s) => Ordered(s))'
    <3> SUFFICES ASSUME Orderly(s)' PROVE Ordered(s)'
      OBVIOUS
    <3>1. Orderly(s) /\ Ordered(s)
      BY <1>11, <2>1, <2>5 DEF Good, Orderly
    <3>2. /\ NoRemoval(outbox'[s]) /\ OnlyHead(outbox'[s]) /\ OneOp(outbox'[s])
          /\ RemovalOf(outbox'[s]) = 0
          /\ outbox[s] # <<>> /\ (NoOp(outbox[s]) => NoOp(outbox'[s]) /\ First(s).by # "op")
          /\ First(s).by = "op" => NoOp(outbox'[s])
          /\ NoBad(outbox[s]) => NoBad(outbox'[s]) /\ ~Bad(First(s))
          /\ AfterOp(outbox[s]) => AfterOp(outbox'[s]) /\ (First(s).by = "op" => NoBad(outbox'[s]))
          /\ OpStarts(outbox[s]) => /\ OpStarts(outbox'[s])
                                    /\ (First(s).by = "op" => First(s).status = "starting")
      BY <2>5, <3>1 DEF Ordered, Shrinks
    <3>3. NoBad(outbox[s]) /\ entry[s].status \in {"starting", "running"} /\ First(s).by # "late" =>
            Shows(s) \in {"starting", "running"}
      BY <1>1, <3>2 DEF Shows, Bad, Statuses
    <3> QED BY <1>11, <1>1, <2>1, <2>5, <3>1, <3>2, <3>3 DEF Ordered, Live, Numbers, Good
  <2>9. (Tame(s) => Held(s))'
    BY <1>1, <1>2, <1>11, <2>1, <2>5 DEF Good, Numbers, Orderly, Ordered, Tame, Held, Shrinks
  <2>10. (Known(s) => Told(s))'
    <3> SUFFICES ASSUME Known(s)' PROVE Told(s)'
      OBVIOUS
    <3>1. Known(s) /\ Told(s) /\ Ordered(s)
      BY <1>11, <2>1, <2>5 DEF Good, Known, Orderly
    <3>2. /\ Plain(outbox'[s]) /\ StartsByOp(outbox'[s]) /\ First(s).by # "late" /\ outbox[s] # <<>>
          /\ HasStatus(outbox[s]) => HasStatus(outbox'[s]) \/ First(s).status # "same"
          /\ HasRunning(outbox[s]) => HasRunning(outbox'[s]) \/ First(s).status = "running"
          /\ HasBad(outbox[s]) => HasBad(outbox'[s]) \/ First(s).status \in {"failed", "suspended"}
          /\ NoStart(outbox[s]) => NoStart(outbox'[s]) /\ First(s).status # "starting"
          /\ First(s).status = "starting" => First(s).by = "op"
          /\ NoOp(outbox'[s]) => NoStart(outbox'[s])
          /\ Answered(outbox[s]) => /\ Answered(outbox'[s])
                                    /\ (First(s).status = "running" => HasBad(outbox'[s]))
          /\ NoBad(outbox[s]) => First(s).status \notin {"failed", "suspended"}
          /\ First(s).by = "op" => NoOp(outbox'[s])
          /\ NoOp(outbox[s]) => First(s).by # "op"
          /\ OpStarts(outbox[s]) /\ First(s).by = "op" => First(s).status = "starting"
      BY <2>5, <3>1 DEF Told, Ordered, Shrinks, Bad
    <3> QED BY <1>11, <1>1, <1>5, <2>1, <2>5, <3>1, <3>2 DEF Told, Ordered, Live, Good, Outside,
               Registered, Statuses
  <2> QED BY <2>4, <2>5, <2>6, <2>7, <2>8, <2>9, <2>10, StepOK DEF Good
<1>12. CASE First(s).by = "op" /\ entry[s].busy \notin {"resuming", "recording", "unadopted"}
  <2>1. /\ Types /\ Good(s) /\ entry[s].workload \in Nat /\ entry[s].epoch \in Nat /\ about[s] \in Nat
        /\ pods[s] \subseteq Nat /\ outbox[s] \in Seq(Write)
        /\ outbox[s] # <<>>
    BY <1>1, <1>2, <1>12, Local DEF Inv
  <2>0. /\ entry' = Continued(s, Shown(s, First(s).status)) /\ about' = about
        /\ NextBusy(entry[s].busy, entry[s].workload) = "idle"
    BY <1>1, <1>2, <1>12, <2>1 DEF At, NextBusy
  <2>2. Becomes(entry', s, Shows(s), "idle", entry[s].workload, entry[s].epoch)
    BY <1>12, <2>1, Typed, <2>0, <1>4, ContinuedTo
  <2>3. /\ outbox' = [outbox EXCEPT ![s] = Tail(outbox[s])]
        /\ UNCHANGED <<about, removing, pods, stray, reserved, wear>>
    BY <1>1, <1>2, <1>12, <2>1, <2>0
  <2>4. Types'
    <3>1. entry' \in [Hosted -> Entry]
      BY <2>2 DEF Becomes
    <3>2. outbox' \in [Hosted -> Seq(Write)]
      BY <2>1, <2>3, Shrunk
    <3>3. about' \in [Hosted -> Nat] /\ wear' \in Wear
      BY <2>1, <2>3, Typed
    <3> QED BY <2>1, <2>3, <3>1, <3>2, <3>3, Typed, <1>3 DEF Types, SessionsTypeOK, Entry, Write
  <2>5. /\ Alone(s) /\ Entries(s, Shows(s), "idle", entry[s].workload, entry[s].epoch)
        /\ about'[s] = about[s]
        /\ Shrinks(outbox[s], outbox'[s], First(s))
        /\ removing'[s] = removing[s]
        /\ pods'[s] = pods[s]
        /\ stray'[s] = stray[s]
        /\ reserved' = reserved
        /\ record'[s] = Stores(s)
        /\ wear'.writes = 0 => wear.writes = 0
    BY <1>1, <1>2, <1>12, <2>1, <2>2, <2>3, Typed, Shrunk, <1>3 DEF Alone, Becomes, First, Statuses
  <2>6. Numbers(s)'
    BY <1>1, <1>2, <1>12, <2>1, <2>5 DEF Good, Numbers, Shrinks
  <2>7. Outside(s)'
    BY <1>1, <1>2, <1>12, <2>1, <2>5, <1>5 DEF Good, Outside, Registered, Statuses, Shrinks
  <2>8. (Orderly(s) => Ordered(s))'
    <3> SUFFICES ASSUME Orderly(s)' PROVE Ordered(s)'
      OBVIOUS
    <3>1. Orderly(s) /\ Ordered(s)
      BY <1>12, <2>1, <2>5 DEF Good, Orderly
    <3>2. /\ NoRemoval(outbox'[s]) /\ OnlyHead(outbox'[s]) /\ OneOp(outbox'[s])
          /\ RemovalOf(outbox'[s]) = 0
          /\ outbox[s] # <<>> /\ (NoOp(outbox[s]) => NoOp(outbox'[s]) /\ First(s).by # "op")
          /\ First(s).by = "op" => NoOp(outbox'[s])
          /\ NoBad(outbox[s]) => NoBad(outbox'[s]) /\ ~Bad(First(s))
          /\ AfterOp(outbox[s]) => AfterOp(outbox'[s]) /\ (First(s).by = "op" => NoBad(outbox'[s]))
          /\ OpStarts(outbox[s]) => /\ OpStarts(outbox'[s])
                                    /\ (First(s).by = "op" => First(s).status = "starting")
      BY <2>5, <3>1 DEF Ordered, Shrinks
    <3>3. NoBad(outbox[s]) /\ entry[s].status \in {"starting", "running"} /\ First(s).by # "late" =>
            Shows(s) \in {"starting", "running"}
      BY <1>1, <3>2 DEF Shows, Bad, Statuses
    <3> QED BY <1>12, <1>1, <2>1, <2>5, <3>1, <3>2, <3>3 DEF Ordered, Live, Numbers, Good
  <2>9. (Tame(s) => Held(s))'
    BY <1>1, <1>2, <1>12, <2>1, <2>5 DEF Good, Numbers, Orderly, Ordered, Tame, Held, Shrinks
  <2>10. (Known(s) => Told(s))'
    <3> SUFFICES ASSUME Known(s)' PROVE Told(s)'
      OBVIOUS
    <3>1. Known(s) /\ Told(s) /\ Ordered(s)
      BY <1>12, <2>1, <2>5 DEF Good, Known, Orderly
    <3>2. /\ Plain(outbox'[s]) /\ StartsByOp(outbox'[s]) /\ First(s).by # "late" /\ outbox[s] # <<>>
          /\ HasStatus(outbox[s]) => HasStatus(outbox'[s]) \/ First(s).status # "same"
          /\ HasRunning(outbox[s]) => HasRunning(outbox'[s]) \/ First(s).status = "running"
          /\ HasBad(outbox[s]) => HasBad(outbox'[s]) \/ First(s).status \in {"failed", "suspended"}
          /\ NoStart(outbox[s]) => NoStart(outbox'[s]) /\ First(s).status # "starting"
          /\ First(s).status = "starting" => First(s).by = "op"
          /\ NoOp(outbox'[s]) => NoStart(outbox'[s])
          /\ Answered(outbox[s]) => /\ Answered(outbox'[s])
                                    /\ (First(s).status = "running" => HasBad(outbox'[s]))
          /\ NoBad(outbox[s]) => First(s).status \notin {"failed", "suspended"}
          /\ First(s).by = "op" => NoOp(outbox'[s])
          /\ NoOp(outbox[s]) => First(s).by # "op"
          /\ OpStarts(outbox[s]) /\ First(s).by = "op" => First(s).status = "starting"
      BY <2>5, <3>1 DEF Told, Ordered, Shrinks, Bad
    <3> QED BY <1>12, <1>1, <1>5, <2>1, <2>5, <3>1, <3>2 DEF Told, Ordered, Live, Good, Outside,
               Registered, Statuses
  <2> QED BY <2>4, <2>5, <2>6, <2>7, <2>8, <2>9, <2>10, StepOK DEF Good
<1> QED BY <1>1, <1>2, <1>3, <1>4, <1>5, <1>6, <1>7, <1>8, <1>9, <1>10, <1>11, <1>12, <1>1

\* A write is given up on after its retries (storeFailed).
LEMMA GivesUpStep ==
  ASSUME Inv, NEW s \in Hosted, GivesUp(s)
  PROVE  Inv'
<1>1. /\ outbox[s] # <<>> /\ First(s).removes = 0 /\ First(s) \in Write /\ Registered(s)
      /\ First(s).by \in {"op", "none", "late"} /\ RemovalOf(outbox[s]) = 0 /\ entry[s].busy \in Busy
      /\ Wears("writes", MaxLostWrites)
      /\ UNCHANGED <<record, about, removing, pods, reserved, stray>>
  BY Local, TailQ DEF GivesUp, Write, First
<1>2. /\ First(s).by # "op" => GivenBusy(entry[s].busy, First(s).by) = entry[s].busy
      /\ First(s).by = "op" =>
           GivenBusy(entry[s].busy, First(s).by) =
             IF entry[s].busy = "unadopted" THEN "sweeping" ELSE "idle"
  BY DEF GivenBusy
<1>3. Becomes(Dropped(s, entry[s].busy), s, entry[s].status, entry[s].busy, 0, entry[s].epoch + 1)
  BY <1>1, Local, DropsTo
<1>4. Becomes(GivenUp(s, Dropped(s, entry[s].busy)), s, "failed", GivenBusy(entry[s].busy, First(s).by), 0,
              entry[s].epoch + 1)
  BY <1>1, <1>3, GivenUpTo DEF First
<1>5. CASE First(s).by = "late" /\ entry' = entry /\ outbox' = [outbox EXCEPT ![s] = Tail(outbox[s])]
  <2>1. /\ Types /\ Good(s) /\ entry[s].workload \in Nat /\ entry[s].epoch \in Nat /\ about[s] \in Nat
        /\ pods[s] \subseteq Nat /\ outbox[s] \in Seq(Write)
        /\ outbox[s] # <<>> /\ First(s).removes = 0
    BY <1>1, <1>2, <1>5, Local DEF Inv, GivesUp, At
  <2>2. Becomes(entry', s, entry[s].status, entry[s].busy, entry[s].workload, entry[s].epoch)
    BY <1>5, <2>1, Typed, Fields DEF Becomes
  <2>3. /\ outbox' = [outbox EXCEPT ![s] = Tail(outbox[s])]
        /\ Wears("writes", MaxLostWrites)
        /\ UNCHANGED <<record, about, removing, pods, stray, reserved>>
    BY <1>1, <1>2, <1>5, <2>1 DEF GivesUp
  <2>4. Types'
    <3>1. entry' \in [Hosted -> Entry]
      BY <2>2 DEF Becomes
    <3>2. outbox' \in [Hosted -> Seq(Write)]
      BY <2>1, <2>3, Shrunk
    <3>3. about' \in [Hosted -> Nat] /\ wear' \in Wear
      BY <2>1, <2>3, Typed, Worn
    <3> QED BY <2>1, <2>3, <3>1, <3>2, <3>3, Typed DEF Types, SessionsTypeOK, Entry, Write
  <2>5. /\ Alone(s) /\ Entries(s, entry[s].status, entry[s].busy, entry[s].workload, entry[s].epoch)
        /\ record'[s] = record[s]
        /\ about'[s] = about[s]
        /\ Shrinks(outbox[s], outbox'[s], First(s))
        /\ removing'[s] = removing[s]
        /\ pods'[s] = pods[s]
        /\ stray'[s] = stray[s]
        /\ reserved' = reserved
        /\ wear'.writes = 0 => wear.writes = 0
        /\ wear'.writes # 0
    BY <1>1, <1>2, <1>5, <2>1, <2>2, <2>3, Typed, Worn, Shrunk DEF Alone, Becomes, First, Statuses
  <2>6. Numbers(s)'
    BY <1>1, <1>2, <1>5, <2>1, <2>5 DEF Good, Numbers, Shrinks
  <2>7. Outside(s)'
    BY <1>1, <1>2, <1>5, <2>1, <2>5 DEF Good, Outside, Registered, Statuses, Shrinks
  <2>8. (Orderly(s) => Ordered(s))'
    BY <1>1, <1>2, <1>5, <2>1, <2>5 DEF Good, Numbers, Orderly, Ordered, Live, Shrinks
  <2>9. (Tame(s) => Held(s))'
    BY <1>1, <1>2, <1>5, <2>1, <2>5 DEF Good, Numbers, Orderly, Ordered, Tame, Held, Shrinks
  <2>10. (Known(s) => Told(s))'
    BY <2>5 DEF Known
  <2> QED BY <2>4, <2>5, <2>6, <2>7, <2>8, <2>9, <2>10, StepOK DEF Good
<1>6. CASE /\ First(s).by # "late"
           /\ entry[s].workload = 0
           /\ entry' = GivenUp(s, Dropped(s, entry[s].busy))
         /\ outbox' = [outbox EXCEPT ![s] = Append(Tail(outbox[s]), WriteOf("failed", "late"))]
  <2>1. /\ Types /\ Good(s) /\ entry[s].workload \in Nat /\ entry[s].epoch \in Nat /\ about[s] \in Nat
        /\ pods[s] \subseteq Nat /\ outbox[s] \in Seq(Write)
        /\ outbox[s] # <<>> /\ First(s).removes = 0
    BY <1>1, <1>2, <1>6, Local DEF Inv, GivesUp, At
  <2>2. Becomes(entry', s, "failed", GivenBusy(entry[s].busy, First(s).by), 0, entry[s].epoch + 1)
    BY <1>6, <2>1, Typed, <1>4
  <2>3. /\ outbox' = [outbox EXCEPT ![s] = Append(Tail(outbox[s]), WriteOf("failed", "late"))]
        /\ Wears("writes", MaxLostWrites)
        /\ UNCHANGED <<record, about, removing, pods, stray, reserved>>
    BY <1>1, <1>2, <1>6, <2>1 DEF GivesUp
  <2>4. Types'
    <3>1. entry' \in [Hosted -> Entry]
      BY <2>2 DEF Becomes
    <3>2. outbox' \in [Hosted -> Seq(Write)]
      BY <2>1, <2>3, Yielded
    <3>3. about' \in [Hosted -> Nat] /\ wear' \in Wear
      BY <2>1, <2>3, Typed, Worn
    <3> QED BY <2>1, <2>3, <3>1, <3>2, <3>3, Typed DEF Types, SessionsTypeOK, Entry, Write
  <2>5. /\ Alone(s)
        /\ Entries(s, "failed", GivenBusy(entry[s].busy, First(s).by), 0, entry[s].epoch + 1)
        /\ record'[s] = record[s]
        /\ about'[s] = about[s]
        /\ Yields(outbox[s], outbox'[s], First(s))
        /\ removing'[s] = removing[s]
        /\ pods'[s] = pods[s]
        /\ stray'[s] = stray[s]
        /\ reserved' = reserved
        /\ wear'.writes = 0 => wear.writes = 0
        /\ wear'.writes # 0
    BY <1>1, <1>2, <1>6, <2>1, <2>2, <2>3, Typed, Worn, Yielded DEF Alone, Becomes, First, Statuses
  <2>6. Numbers(s)'
    BY <1>1, <1>2, <1>6, <2>1, <2>5 DEF Good, Numbers, Yields
  <2>7. Outside(s)'
    BY <1>1, <1>2, <1>6, <2>1, <2>5 DEF Good, Outside, Registered, Statuses, Yields
  <2>8. (Orderly(s) => Ordered(s))'
    <3> SUFFICES ASSUME Orderly(s)' PROVE Ordered(s)'
      OBVIOUS
    <3>1. Orderly(s) /\ Ordered(s)
      BY <1>2, <2>1, <2>5 DEF Good, Orderly
    <3>2. /\ NoRemoval(outbox'[s]) /\ OnlyHead(outbox'[s]) /\ OneOp(outbox'[s])
          /\ RemovalOf(outbox'[s]) = 0
          /\ outbox[s] # <<>> /\ (NoOp(outbox[s]) => NoOp(outbox'[s]) /\ First(s).by # "op")
          /\ First(s).by = "op" => NoOp(outbox'[s])
          /\ NoBad(outbox[s]) => NoBad(outbox'[s])
          /\ AfterOp(outbox[s]) => AfterOp(outbox'[s])
          /\ OpStarts(outbox[s]) => OpStarts(outbox'[s])
      BY <2>5, <3>1 DEF Ordered, Yields
    <3>3. entry[s].workload = 0 /\ ~Live(s)'
      BY <1>1, <1>2, <1>6, <2>1, <2>5, <3>1, AnyQ DEF Ordered, Live, Good, Numbers
    <3> QED BY <1>1, <1>2, <1>6, <2>1, <2>5, <3>1, <3>2, <3>3 DEF Ordered, Numbers, Good
  <2>9. (Tame(s) => Held(s))'
    <3>1. CASE Tame(s)
      <4>1. Held(s) /\ Ordered(s) /\ Numbers(s)
        BY <2>1, <3>1 DEF Good, Tame, Orderly
      <4>2. /\ RemovalOf(outbox'[s]) = 0 /\ (NoOp(outbox[s]) => First(s).by # "op")
            /\ NoRemoval(outbox[s]) => RemovalOf(outbox[s]) = 0
        BY <2>1, <2>5, <4>1, AnyQ DEF Ordered, Yields
      <4>3. entry[s].workload = 0
        BY <1>1, <1>6, <2>1, <4>1, <4>2 DEF Ordered
      <4> QED BY <1>1, <1>2, <1>6, <2>1, <2>5, <4>1, <4>2, <4>3 DEF Held, Ordered, Numbers
    <3>2. CASE ~Tame(s)
      BY <3>2, <2>5 DEF Tame
    <3> QED BY <3>1, <3>2
  <2>10. (Known(s) => Told(s))'
    BY <2>5 DEF Known
  <2> QED BY <2>4, <2>5, <2>6, <2>7, <2>8, <2>9, <2>10, StepOK DEF Good
<1>7. CASE First(s).by # "late" /\ entry[s].workload # 0 /\ entry' = Dropped(s, entry[s].busy)
         /\ outbox' = [outbox EXCEPT ![s][1].removes = entry[s].workload]
  <2>1. /\ Types /\ Good(s) /\ entry[s].workload \in Nat /\ entry[s].epoch \in Nat /\ about[s] \in Nat
        /\ pods[s] \subseteq Nat /\ outbox[s] \in Seq(Write)
        /\ outbox[s] # <<>> /\ First(s).removes = 0
    BY <1>1, <1>2, <1>7, Local DEF Inv, GivesUp, At
  <2>2. Becomes(entry', s, entry[s].status, entry[s].busy, 0, entry[s].epoch + 1)
    BY <1>7, <2>1, Typed, <1>3
  <2>3. /\ outbox' = [outbox EXCEPT ![s][1].removes = entry[s].workload]
        /\ Wears("writes", MaxLostWrites)
        /\ UNCHANGED <<record, about, removing, pods, stray, reserved>>
    BY <1>1, <1>2, <1>7, <2>1 DEF GivesUp
  <2>4. Types'
    <3>1. entry' \in [Hosted -> Entry]
      BY <2>2 DEF Becomes
    <3>2. outbox' \in [Hosted -> Seq(Write)]
      BY <2>1, <2>3, Marked
    <3>3. about' \in [Hosted -> Nat] /\ wear' \in Wear
      BY <2>1, <2>3, Typed, Worn
    <3> QED BY <2>1, <2>3, <3>1, <3>2, <3>3, Typed DEF Types, SessionsTypeOK, Entry, Write
  <2>5. /\ Alone(s) /\ Entries(s, entry[s].status, entry[s].busy, 0, entry[s].epoch + 1)
        /\ record'[s] = record[s]
        /\ about'[s] = about[s]
        /\ Marks(outbox[s], outbox'[s], entry[s].workload)
        /\ removing'[s] = removing[s]
        /\ pods'[s] = pods[s]
        /\ stray'[s] = stray[s]
        /\ reserved' = reserved
        /\ wear'.writes = 0 => wear.writes = 0
        /\ wear'.writes # 0
    BY <1>1, <1>2, <1>7, <2>1, <2>2, <2>3, Typed, Worn, Marked DEF Alone, Becomes, Statuses
  <2>6. Numbers(s)'
    BY <1>1, <1>2, <1>7, <2>1, <2>5 DEF Good, Numbers, Marks
  <2>7. Outside(s)'
    BY <1>1, <1>2, <1>7, <2>1, <2>5 DEF Good, Outside, Registered, Statuses, Marks
  <2>8. (Orderly(s) => Ordered(s))'
    BY <1>1, <1>2, <1>7, <2>1, <2>5 DEF Good, Numbers, Orderly, Ordered, Live, Marks
  <2>9. (Tame(s) => Held(s))'
    <3>1. CASE Tame(s)
      <4>1. Held(s) /\ Ordered(s) /\ Numbers(s)
        BY <2>1, <3>1 DEF Good, Tame, Orderly
      <4>2. removing[s] = {} /\ Bsy(s) \notin Boot \cup {"up", "discarding"}
        BY <1>7, <2>1, <4>1 DEF Ordered
      <4>3. RemovalOf(outbox'[s]) = entry[s].workload
        BY <2>5 DEF Marks
      <4> QED BY <1>1, <1>7, <2>1, <2>5, <4>1, <4>2, <4>3 DEF Held, Numbers
    <3>2. CASE ~Tame(s)
      BY <3>2, <2>5 DEF Tame
    <3> QED BY <3>1, <3>2
  <2>10. (Known(s) => Told(s))'
    BY <2>5 DEF Known
  <2> QED BY <2>4, <2>5, <2>6, <2>7, <2>8, <2>9, <2>10, StepOK DEF Good
<1> QED BY <1>1, <1>2, <1>3, <1>4, <1>5, <1>6, <1>7, <1>1 DEF GivesUp, Gives, GivenUp, First

\* storeFailed has removed the workload, or could not.
LEMMA GaveUpStep ==
  ASSUME Inv, NEW s \in Hosted, GaveUp(s)
  PROVE  Inv'
<1>1. /\ outbox[s] # <<>> /\ First(s).removes # 0 /\ First(s) \in Write /\ Remove(s, First(s).removes)
      /\ First(s).by \in {"op", "none", "late"} /\ RemovalOf(outbox[s]) = First(s).removes
      /\ entry' = GivenUp(s, entry)
      /\ outbox' = [outbox EXCEPT ![s] = Append(Tail(outbox[s]), WriteOf("failed", "late"))]
      /\ UNCHANGED <<record, about, removing, reserved>>
  BY Local, TailQ DEF GaveUp, Gives, GivenUp, Write, First
<1>2. /\ First(s).by # "op" => GivenBusy(entry[s].busy, First(s).by) = entry[s].busy
      /\ First(s).by = "op" =>
           GivenBusy(entry[s].busy, First(s).by) =
             IF entry[s].busy = "unadopted" THEN "sweeping" ELSE "idle"
  BY DEF GivenBusy
<1>3. Becomes(entry, s, entry[s].status, entry[s].busy, entry[s].workload, entry[s].epoch)
  BY Local DEF Becomes
<1>4. Becomes(entry', s, IF Registered(s) THEN "failed" ELSE entry[s].status,
                      GivenBusy(entry[s].busy, First(s).by), entry[s].workload, entry[s].epoch)
  BY <1>1, <1>3, GivenUpTo DEF First
<1>5. CASE pods' = [pods EXCEPT ![s] = pods[s] \ {First(s).removes}] /\ UNCHANGED <<stray, wear>>
  <2>1. /\ Types /\ Good(s) /\ entry[s].workload \in Nat /\ entry[s].epoch \in Nat /\ about[s] \in Nat
        /\ pods[s] \subseteq Nat /\ outbox[s] \in Seq(Write)
        /\ outbox[s] # <<>> /\ entry[s] \in Entry
    BY <1>1, <1>2, <1>5, Local DEF Inv, GaveUp, At
  <2>2. Becomes(entry', s, IF Registered(s) THEN "failed" ELSE entry[s].status,
                        GivenBusy(entry[s].busy, First(s).by), entry[s].workload, entry[s].epoch)
    BY <1>5, <2>1, Typed, <1>4
  <2>3. /\ pods' = [pods EXCEPT ![s] = pods[s] \ {First(s).removes}]
        /\ outbox' = [outbox EXCEPT ![s] = Append(Tail(outbox[s]), WriteOf("failed", "late"))]
        /\ UNCHANGED <<record, about, removing, stray, reserved, wear>>
    BY <1>1, <1>2, <1>5, <2>1 DEF GaveUp
  <2>4. Types'
    <3>1. entry' \in [Hosted -> Entry]
      BY <2>2 DEF Becomes
    <3>2. outbox' \in [Hosted -> Seq(Write)]
      BY <2>1, <2>3, Yielded
    <3>3. about' \in [Hosted -> Nat] /\ wear' \in Wear
      BY <2>1, <2>3, Typed
    <3> QED BY <2>1, <2>3, <3>1, <3>2, <3>3, Typed DEF Types, SessionsTypeOK, Entry, Write
  <2>5. /\ Alone(s) /\ Entries(s, IF Registered(s) THEN "failed" ELSE entry[s].status,
                               GivenBusy(entry[s].busy, First(s).by), entry[s].workload, entry[s].epoch)
        /\ record'[s] = record[s]
        /\ about'[s] = about[s]
        /\ Yields(outbox[s], outbox'[s], First(s))
        /\ removing'[s] = removing[s]
        /\ pods'[s] = pods[s] \ {First(s).removes}
        /\ stray'[s] = stray[s]
        /\ reserved' = reserved
        /\ wear'.writes = 0 => wear.writes = 0
    BY <1>1, <1>2, <1>5, <2>1, <2>2, <2>3, Typed, Yielded DEF Alone, Becomes, First, Statuses
  <2>6. Numbers(s)'
    BY <1>1, <1>2, <1>5, <2>1, <2>5 DEF Good, Numbers, Yields
  <2>7. Outside(s)'
    BY <1>1, <1>2, <1>5, <2>1, <2>5 DEF Good, Outside, Registered, Statuses, Yields
  <2>8. (Orderly(s) => Ordered(s))'
    <3> SUFFICES ASSUME Orderly(s)' PROVE Ordered(s)'
      OBVIOUS
    <3>1. Orderly(s) /\ Ordered(s)
      BY <1>2, <2>1, <2>5 DEF Good, Orderly
    <3>2. /\ NoRemoval(outbox'[s]) /\ OnlyHead(outbox'[s]) /\ OneOp(outbox'[s])
          /\ RemovalOf(outbox'[s]) = 0
          /\ outbox[s] # <<>> /\ (NoOp(outbox[s]) => NoOp(outbox'[s]) /\ First(s).by # "op")
          /\ First(s).by = "op" => NoOp(outbox'[s])
          /\ NoBad(outbox[s]) => NoBad(outbox'[s])
          /\ AfterOp(outbox[s]) => AfterOp(outbox'[s])
          /\ OpStarts(outbox[s]) => OpStarts(outbox'[s])
      BY <2>5, <3>1 DEF Ordered, Yields
    <3>3. entry[s].workload = 0 /\ ~Live(s)'
      BY <1>1, <1>2, <1>5, <2>1, <2>5, <3>1, AnyQ DEF Ordered, Live, Good, Numbers
    <3> QED BY <1>1, <1>2, <1>5, <2>1, <2>5, <3>1, <3>2, <3>3 DEF Ordered, Numbers, Good
  <2>9. (Tame(s) => Held(s))'
    <3>1. CASE Tame(s)
      <4>1. Held(s) /\ Ordered(s) /\ Numbers(s)
        BY <2>1, <3>1 DEF Good, Tame, Orderly
      <4>2. /\ RemovalOf(outbox'[s]) = 0 /\ (NoOp(outbox[s]) => First(s).by # "op")
            /\ NoRemoval(outbox[s]) => RemovalOf(outbox[s]) = 0
        BY <2>1, <2>5, <4>1, AnyQ DEF Ordered, Yields
      <4>3. entry[s].workload = 0
        BY <1>1, <1>5, <2>1, <4>1, <4>2 DEF Ordered
      <4> QED BY <1>1, <1>2, <1>5, <2>1, <2>5, <4>1, <4>2, <4>3 DEF Held, Ordered, Numbers
    <3>2. CASE ~Tame(s)
      BY <3>2, <2>5 DEF Tame
    <3> QED BY <3>1, <3>2
  <2>10. (Known(s) => Told(s))'
    <3>1. Known(s)' => Known(s) /\ Told(s)
      BY <1>2, <2>1, <2>5 DEF Known, Good
    <3>2. ~Told(s)
      BY <1>1, <2>5 DEF Told, Yields
    <3> QED BY <3>1, <3>2
  <2> QED BY <2>4, <2>5, <2>6, <2>7, <2>8, <2>9, <2>10, StepOK DEF Good
<1>6. CASE /\ Wears("failures", MaxFailures)
           /\ stray' = [stray EXCEPT ![s] = stray[s] \cup {"refused"}]
           /\ UNCHANGED pods
  <2>1. /\ Types /\ Good(s) /\ entry[s].workload \in Nat /\ entry[s].epoch \in Nat /\ about[s] \in Nat
        /\ pods[s] \subseteq Nat /\ outbox[s] \in Seq(Write)
        /\ outbox[s] # <<>> /\ entry[s] \in Entry
    BY <1>1, <1>2, <1>6, Local DEF Inv, GaveUp, At
  <2>2. Becomes(entry', s, IF Registered(s) THEN "failed" ELSE entry[s].status,
                        GivenBusy(entry[s].busy, First(s).by), entry[s].workload, entry[s].epoch)
    BY <1>6, <2>1, Typed, <1>4
  <2>3. /\ stray' = [stray EXCEPT ![s] = stray[s] \cup {"refused"}]
        /\ outbox' = [outbox EXCEPT ![s] = Append(Tail(outbox[s]), WriteOf("failed", "late"))]
        /\ Wears("failures", MaxFailures)
        /\ UNCHANGED <<record, about, removing, pods, reserved>>
    BY <1>1, <1>2, <1>6, <2>1 DEF GaveUp
  <2>4. Types'
    <3>1. entry' \in [Hosted -> Entry]
      BY <2>2 DEF Becomes
    <3>2. outbox' \in [Hosted -> Seq(Write)]
      BY <2>1, <2>3, Yielded
    <3>3. about' \in [Hosted -> Nat] /\ wear' \in Wear
      BY <2>1, <2>3, Typed, Worn
    <3> QED BY <2>1, <2>3, <3>1, <3>2, <3>3, Typed DEF Types, SessionsTypeOK, Entry, Write, Strays
  <2>5. /\ Alone(s) /\ Entries(s, IF Registered(s) THEN "failed" ELSE entry[s].status,
                               GivenBusy(entry[s].busy, First(s).by), entry[s].workload, entry[s].epoch)
        /\ record'[s] = record[s]
        /\ about'[s] = about[s]
        /\ Yields(outbox[s], outbox'[s], First(s))
        /\ removing'[s] = removing[s]
        /\ pods'[s] = pods[s]
        /\ stray'[s] = stray[s] \cup {"refused"}
        /\ reserved' = reserved
        /\ wear'.writes = 0 => wear.writes = 0
    BY <1>1, <1>2, <1>6, <2>1, <2>2, <2>3, Typed, Worn, Yielded DEF Alone, Becomes, First, Statuses
  <2>6. Numbers(s)'
    BY <1>1, <1>2, <1>6, <2>1, <2>5 DEF Good, Numbers, Yields
  <2>7. Outside(s)'
    BY <1>1, <1>2, <1>6, <2>1, <2>5 DEF Good, Outside, Registered, Statuses, Yields
  <2>8. (Orderly(s) => Ordered(s))'
    <3> SUFFICES ASSUME Orderly(s)' PROVE Ordered(s)'
      OBVIOUS
    <3>1. Orderly(s) /\ Ordered(s)
      BY <1>2, <2>1, <2>5 DEF Good, Orderly
    <3>2. /\ NoRemoval(outbox'[s]) /\ OnlyHead(outbox'[s]) /\ OneOp(outbox'[s])
          /\ RemovalOf(outbox'[s]) = 0
          /\ outbox[s] # <<>> /\ (NoOp(outbox[s]) => NoOp(outbox'[s]) /\ First(s).by # "op")
          /\ First(s).by = "op" => NoOp(outbox'[s])
          /\ NoBad(outbox[s]) => NoBad(outbox'[s])
          /\ AfterOp(outbox[s]) => AfterOp(outbox'[s])
          /\ OpStarts(outbox[s]) => OpStarts(outbox'[s])
      BY <2>5, <3>1 DEF Ordered, Yields
    <3>3. entry[s].workload = 0 /\ ~Live(s)'
      BY <1>1, <1>2, <1>6, <2>1, <2>5, <3>1, AnyQ DEF Ordered, Live, Good, Numbers
    <3> QED BY <1>1, <1>2, <1>6, <2>1, <2>5, <3>1, <3>2, <3>3 DEF Ordered, Numbers, Good
  <2>9. (Tame(s) => Held(s))'
    BY <2>5 DEF Tame
  <2>10. (Known(s) => Told(s))'
    <3>1. Known(s)' => Known(s) /\ Told(s)
      BY <1>2, <2>1, <2>5 DEF Known, Good
    <3>2. ~Told(s)
      BY <1>1, <2>5 DEF Told, Yields
    <3> QED BY <3>1, <3>2
  <2> QED BY <2>4, <2>5, <2>6, <2>7, <2>8, <2>9, <2>10, StepOK DEF Good
<1> QED BY <1>1, <1>2, <1>3, <1>4, <1>5, <1>6, <1>1 DEF Remove

\* The runner ends and boots again.
LEMMA RestartStep ==
  ASSUME Inv, Restart
  PROVE  Inv'
<1> DEFINE E(s) ==
      [status |-> IF record[s] # "none" THEN IF WasLive(s) THEN "starting" ELSE record[s]
                  ELSE IF entry[s].status = "new" THEN "new" ELSE "gone",
       busy |-> IF WasLive(s) THEN "adopting" ELSE "sweeping",
       workload |-> 0, epoch |-> entry[s].epoch + 1]
<1>1. /\ entry' = [s \in Hosted |-> E(s)]
      /\ about' = [s \in Hosted |-> entry[s].epoch + 1]
      /\ pods' = [s \in Hosted |->
           IF WasLive(s) /\ Cardinality(pods[s]) = 1 THEN {entry[s].epoch + 1} ELSE pods[s]]
      /\ outbox' = [s \in Hosted |-> <<>>] /\ removing' = [s \in Hosted |-> {}] /\ reserved' = {}
      /\ UNCHANGED <<record, stray>> /\ Wears("restarts", MaxRestarts)
  BY DEF Restart
<1>2. wear' \in Wear /\ (wear'.writes = 0 => wear.writes = 0)
  BY <1>1, Worn DEF Inv, Types
<1>3. ASSUME NEW s \in Hosted
      PROVE  /\ E(s) \in Entry /\ E(s).epoch = entry[s].epoch + 1 /\ E(s).workload = 0
             /\ E(s).busy = IF WasLive(s) THEN "adopting" ELSE "sweeping"
             /\ E(s).status = IF record[s] # "none" THEN IF WasLive(s) THEN "starting" ELSE record[s]
                              ELSE IF entry[s].status = "new" THEN "new" ELSE "gone"
  BY Local DEF Entry, Busy, Statuses
<1> HIDE DEF E
<1>4. Types'
  <2>1. entry' \in [Hosted -> Entry]
    BY <1>1, <1>3
  <2>2. about' \in [Hosted -> Nat] /\ pods' \in [Hosted -> SUBSET Nat]
    BY <1>1, Local
  <2>3. /\ outbox' \in [Hosted -> Seq(Write)]
        /\ removing' \in [Hosted -> SUBSET [w : Nat, by : {"op", "none"}]]
    BY <1>1, EmptyQ
  <2> QED BY <1>1, <1>2, <2>1, <2>2, <2>3, Typed DEF Inv, Types, SessionsTypeOK, Entry, Write
<1>5. ASSUME NEW s \in Hosted PROVE Good(s)'
  <2>1. /\ Entries(s, E(s).status, E(s).busy, 0, entry[s].epoch + 1)
        /\ about'[s] = entry[s].epoch + 1 /\ outbox'[s] = <<>> /\ removing'[s] = {} /\ reserved' = {}
        /\ pods'[s] = IF WasLive(s) /\ Cardinality(pods[s]) = 1 THEN {entry[s].epoch + 1} ELSE pods[s]
        /\ record'[s] = record[s] /\ stray'[s] = stray[s]
    BY <1>1, <1>3
  <2>2. /\ Good(s) /\ entry[s].epoch \in Nat /\ pods[s] \subseteq Nat
        /\ record[s] \in Statuses \cup {"none"}
        /\ entry[s].status \in Statuses \cup {"new", "gone"}
    BY Local
  <2>3. Numbers(s)'
    BY <1>3, <2>1, <2>2 DEF Good, Numbers
  <2>4. Outside(s)'
    BY <1>3, <2>1, <2>2 DEF Good, Outside, Registered, WasLive, Statuses
  <2>5. Ordered(s)'
    BY <1>3, <2>1, <2>2, EmptyQ DEF Good, Numbers, Ordered, Live, WasLive
  <2>6. (Tame(s) => Held(s))'
    BY <1>3, <2>1, <2>2 DEF Good, Tame, Held
  <2>7. Told(s)'
    BY <1>3, <2>1, <2>2, EmptyQ DEF Told, Registered, WasLive, Statuses
  <2> QED BY <2>3, <2>4, <2>5, <2>6, <2>7 DEF Good
<1> QED BY <1>1, <1>4, <1>5 DEF Inv

\* The orphan sweep.
LEMMA SweepsStep ==
  ASSUME Inv, Sweeps
  PROVE  Inv'
<1> DEFINE E(s) == [entry[s] EXCEPT !.busy = "idle"]
<1>1. /\ pods' = [s \in Hosted |-> IF At(s, "sweeping") THEN {} ELSE pods[s]]
      /\ stray' = [s \in Hosted |-> IF At(s, "sweeping") THEN {} ELSE stray[s]]
      /\ entry' = [s \in Hosted |-> IF At(s, "sweeping") THEN E(s) ELSE entry[s]]
      /\ UNCHANGED <<record, about, outbox, removing, reserved, wear>>
      /\ \E s \in Hosted : At(s, "sweeping")
  BY DEF Sweeps
<1>2. ASSUME NEW s \in Hosted
      PROVE  /\ E(s) \in Entry /\ E(s).epoch = entry[s].epoch /\ E(s).workload = entry[s].workload
             /\ E(s).busy = "idle" /\ E(s).status = entry[s].status
  <2>1. entry[s] \in Entry
    BY Local
  <2> QED BY <2>1 DEF Entry, Busy
<1> HIDE DEF E
<1>3. Types'
  <2>1. entry' \in [Hosted -> Entry]
    BY <1>1, <1>2, Local
  <2>2. pods' \in [Hosted -> SUBSET Nat] /\ stray' \in [Hosted -> SUBSET Strays]
    BY <1>1, Local
  <2> QED BY <1>1, <2>1, <2>2, Typed DEF Inv, Types, SessionsTypeOK, Entry, Write
<1>4. reserved' = {}
  <2>1. ~Listening
    BY <1>1 DEF Listening, At
  <2> QED BY <1>1, <2>1 DEF Inv
<1>5. ASSUME NEW s \in Hosted PROVE Good(s)'
  <2>1. /\ Good(s) /\ entry[s].epoch \in Nat /\ entry[s].workload \in Nat /\ pods[s] \subseteq Nat
        /\ record'[s] = record[s] /\ about'[s] = about[s] /\ outbox'[s] = outbox[s]
        /\ removing'[s] = removing[s] /\ wear' = wear
    BY <1>1, Local
  <2>2. CASE entry[s].busy = "sweeping"
    <3>1. /\ Entries(s, entry[s].status, "idle", entry[s].workload, entry[s].epoch)
          /\ pods'[s] = {} /\ stray'[s] = {}
      BY <1>1, <1>2, <2>2 DEF At
    <3>2. Numbers(s)' /\ Outside(s)'
      BY <1>4, <2>1, <2>2, <3>1 DEF Good, Numbers, Outside, Registered
    <3>3. Ordered(s)'
      BY <2>1, <2>2, <3>1 DEF Good, Orderly, Ordered, Live
    <3>4. Held(s)'
      BY <2>1, <2>2, <3>1 DEF Good, Orderly, Ordered, Held
    <3>5. (Known(s) => Told(s))'
      BY <2>1, <2>2, <3>1 DEF Good, Known, Told, Registered
    <3> QED BY <3>2, <3>3, <3>4, <3>5 DEF Good
  <2>3. CASE entry[s].busy # "sweeping"
    <3>1. entry'[s] = entry[s] /\ pods'[s] = pods[s] /\ stray'[s] = stray[s] /\ s \notin reserved'
      BY <1>1, <1>4, <2>3 DEF At
    <3>2. Numbers(s)' /\ Outside(s)'
      BY <2>1, <3>1 DEF Good, Numbers, Outside, Registered
    <3>3. (Orderly(s)' <=> Orderly(s)) /\ (Ordered(s)' <=> Ordered(s))
      BY <2>1, <3>1, Zenon DEF Orderly, Ordered, Live
    <3>4. (Tame(s)' <=> Tame(s)) /\ (Held(s)' <=> Held(s))
      BY <2>1, <3>1, SMTT(30) DEF Tame, Held
    <3>5. (Known(s)' <=> Known(s)) /\ (Told(s)' <=> Told(s))
      BY <2>1, <3>1, Zenon DEF Known, Told, Registered
    <3> QED BY <2>1, <3>2, <3>3, <3>4, <3>5 DEF Good
  <2> QED BY <2>2, <2>3
<1> QED BY <1>3, <1>4, <1>5 DEF Inv

-----------------------------------------------------------------------------
(* The theorems. *)

\* The invariant holds of a runner that was never used.
LEMMA InvInit == SessionsInit => Inv
<1> SUFFICES ASSUME SessionsInit PROVE Inv
  OBVIOUS
<1>1. /\ wear \in Wear /\ "new" \in Statuses \cup {"new", "gone"} /\ "idle" \in Busy
      /\ reserved = {}
  BY DEF SessionsInit, Wear, Busy
<1>2. Types
  <2>1. outbox \in [Hosted -> Seq(Write)]
    BY EmptyQ DEF SessionsInit
  <2>2. entry \in [Hosted -> Entry]
    BY <1>1 DEF SessionsInit, Entry
  <2> QED BY <1>1, <2>1, <2>2, Typed DEF SessionsInit
<1>3. ASSUME NEW s \in Hosted PROVE Good(s)
  <2>1. /\ entry[s].status = "new" /\ entry[s].busy = "idle" /\ entry[s].workload = 0
        /\ entry[s].epoch = 0
        /\ about[s] = 0 /\ outbox[s] = <<>> /\ removing[s] = {} /\ pods[s] = {} /\ stray[s] = {}
    BY DEF SessionsInit
  <2>2. Numbers(s) /\ Outside(s)
    BY <1>1, <2>1 DEF Numbers, Outside
  <2>3. Ordered(s) /\ Held(s)
    BY <2>1, EmptyQ DEF Ordered, Held, Live
  <2>4. Told(s)
    BY <2>1, EmptyQ DEF Told, Registered, Statuses
  <2> QED BY <2>2, <2>3, <2>4 DEF Good
<1> QED BY <1>1, <1>2, <1>3 DEF Inv

\* Every step keeps the invariant.
LEMMA InvStep ==
  ASSUME Inv, [SessionsNext]_sessionVars
  PROVE  Inv'
<1>1. CASE Restart
  BY <1>1, RestartStep
<1>2. CASE Sweeps
  BY <1>2, SweepsStep
<1>3. ASSUME NEW s \in Hosted, SessionStep(s) PROVE Inv'
  <2>1. CASE AskCreate(s) \/ Register(s) \/ AskResume(s) \/ ComesUp(s) \/ Resolves(s) \/ Discards(s)
    BY <2>1, AskCreateStep, RegisterStep, AskResumeStep, ComesUpStep, ResolvesStep, DiscardsStep
  <2>2. CASE Removed(s) \/ CreationFails(s) \/ WorkloadFails(s)
    BY <2>2, RemovedStep, CreationFailsStep, WorkloadFailsStep
  <2>3. CASE AskSuspend(s) \/ Suspends(s) \/ AskDelete(s) \/ DeleteRemoves(s) \/ Destroys(s)
    BY <2>3, AskSuspendStep, SuspendsStep, AskDeleteStep, DeleteRemovesStep, DestroysStep
  <2>4. CASE Forgets(s) \/ Drained(s) \/ DeleteFails(s)
    BY <2>4, ForgetsStep, DrainedStep, DeleteFailsStep
  <2>5. CASE AskChange(s) \/ ChangeTearsDown(s) \/ ChangeRebuilds(s) \/ ChangeFails(s) \/ RunRecords(s)
    BY <2>5, AskChangeStep, ChangeTearsDownStep, ChangeRebuildsStep, ChangeFailsStep, RunRecordsStep
  <2>6. CASE Writes(s) \/ GivesUp(s) \/ GaveUp(s)
    BY <2>6, WritesStep, GivesUpStep, GaveUpStep
  <2>7. CASE Adopts(s) \/ FindsNone(s) \/ AdoptionFails(s)
    BY <2>7, AdoptsStep, FindsNoneStep, AdoptionFailsStep
  <2> QED BY <1>3, <2>1, <2>2, <2>3, <2>4, <2>5, <2>6, <2>7 DEF SessionStep
<1>4. CASE UNCHANGED sessionVars
  <2>1. /\ record' = record /\ entry' = entry /\ about' = about /\ outbox' = outbox
        /\ removing' = removing
        /\ pods' = pods /\ reserved' = reserved /\ stray' = stray /\ wear' = wear
    BY <1>4 DEF sessionVars
  <2>2. Types' /\ (reserved' # {} => Listening')
    BY <2>1 DEF Inv, Types, SessionsTypeOK, Listening
  <2>3. ASSUME NEW s \in Hosted PROVE Good(s)'
    <3>1. Good(s)
      BY DEF Inv
    <3> QED BY <2>1, <3>1 DEF Good, Numbers, Outside, Orderly, Ordered, Tame, Held, Known, Told,
               Registered, Live
  <2> QED BY <2>2, <2>3 DEF Inv
<1> QED BY <1>1, <1>2, <1>3, <1>4 DEF SessionsNext

\* Every session keeps its numbers, the order of its writes, removals and operations, its
\* workloads in the places an operation looks for them, and its record and its status
\* accounted for by the writes it has queued (session-lifecycle.ts, write-queue and epochs).
THEOREM SessionsInvariant == SessionsSpec => []Inv
BY InvInit, InvStep, PTL DEF SessionsSpec

\* At rest nothing is left that would remove a workload: there is only the one in hand.
LEMMA InvOneWorkload == Inv => OneWorkload
<1> SUFFICES ASSUME Inv, NEW s \in Hosted, Tame(s)
             PROVE  /\ Cardinality(pods[s]) <= 1
                    /\ Quiet(s) => pods[s] = {entry[s].workload} \ {0}
  BY DEF OneWorkload, Tame
<1>1. Held(s) /\ Ordered(s) /\ Numbers(s) /\ pods[s] \subseteq Nat /\ entry[s].workload \in Nat
  BY Local DEF Good, Tame, Orderly
<1>2. Cardinality(pods[s]) <= 1
  <2>1. CASE pods[s] = {}
    BY <2>1, FS_EmptySet
  <2>2. CASE pods[s] # {}
    <3>1. PICK p \in pods[s] : pods[s] = {p}
      BY <1>1, <2>2 DEF Held
    <3>2. Cardinality({p}) = 1
      BY FS_Singleton
    <3> QED BY <3>1, <3>2
  <2> QED BY <2>1, <2>2
<1>3. ASSUME Quiet(s) PROVE pods[s] = {entry[s].workload} \ {0}
  <2>1. entry[s].busy = "idle" /\ RemovalOf(outbox[s]) = 0 /\ removing[s] = {}
    BY <1>3, EmptyQ DEF Quiet, At
  <2> QED BY <1>1, <2>1 DEF Held, Numbers
<1> QED BY <1>2, <1>3

\* A session has at most one workload over its one storage, and at rest the one it holds
\* and no other, unless one got out of its hands (session-lifecycle.ts startWorkload, fail).
THEOREM SessionsWorkload == SessionsSpec => []OneWorkload
  BY SessionsInvariant, InvOneWorkload, PTL

\* At rest no write is left to account for a difference.
LEMMA InvStatus == Inv => StatusIsTrue
<1> SUFFICES ASSUME Inv, NEW s \in Hosted, Quiet(s), wear.writes = 0,
                    {"undeleted", "adopted", "outrun"} \cap stray[s] = {}
             PROVE  /\ record[s] = entry[s].status
                    /\ entry[s].status # "starting"
                    /\ entry[s].status = "running" <=> entry[s].workload # 0
  BY DEF StatusIsTrue
<1>1. Told(s) /\ Ordered(s)
  BY Local DEF Good, Known, Orderly
<1>2. /\ entry[s].busy = "idle" /\ outbox[s] = <<>> /\ removing[s] = {} /\ Registered(s)
      /\ ~HasStatus(outbox[s]) /\ ~HasBad(outbox[s]) /\ ~HasRunning(outbox[s])
  BY EmptyQ DEF Quiet, At
<1> QED BY <1>1, <1>2 DEF Told, Ordered, Live

\* What a session at rest shows is what the store has and what the backend runs
\* (registry.ts, write-queue.ts), as long as no write was lost.
THEOREM SessionsStatus == SessionsSpec => []StatusIsTrue
  BY SessionsInvariant, InvStatus, PTL

===============================================================================
