--------------------------- MODULE Journals_proofs ---------------------------
(***************************************************************************)
(* Proofs about the two journals: the file of a durable run (FileJournal)  *)
(* and the log of a record stream's key (RecordJournal), for any writers,  *)
(* drains, readers and bounds.                                             *)
(***************************************************************************)
EXTENDS FileJournal, RecordJournal, SequenceTheorems, TLAPS

-----------------------------------------------------------------------------
(* FileJournal.  A line is only ever written onto a whole one: who is at its  *)
(* write has seen the tail repaired, and a tail is torn only by an exit,      *)
(* which ends every write under way.  Whoever is about to cut the tail off    *)
(* cuts where the torn line began, and nobody does in a file just created.    *)

FileShape ==
  /\ file \in [exists : BOOLEAN, lines : Seq(Line), torn : BOOLEAN]
  /\ repaired \in BOOLEAN /\ exits \in 0..MaxExits /\ synced \in Nat
  /\ writing \in [Writers -> [st : AppendStates, line : Paths \cup Status, cut : Nat]]

WritesOntoWhole ==
  /\ repaired = TRUE => file.torn = FALSE
  /\ \A x \in Writers : writing[x].st = "write" => file.torn = FALSE

CutsTheTail ==
  /\ \A x \in Writers : writing[x].st = "truncate" =>
       /\ writing[x].cut <= Len(file.lines)
       /\ file.torn = TRUE => writing[x].cut = Len(file.lines)
  /\ \A x, y \in Writers : writing[x].st = "truncate" /\ writing[y].st = "truncate"
       => writing[x].cut = writing[y].cut

FreshIsWhole ==
  file.exists = FALSE \/ writing[Worker].st = "header" =>
    file.torn = FALSE /\ \A x \in Writers : writing[x].st # "truncate"

FileInv == FileShape /\ WritesOntoWhole /\ CutsTheTail /\ FreshIsWhole /\ StaysReadable

LEMMA LineType ==
  ASSUME FileShape, NEW what \in Paths \cup Status \cup {"corrupt"}, NEW x \in Writers
  PROVE  LineOf(what, x) \in Line /\ LineOf(what, x).what = what
  BY DEF FileShape, LineOf, Line, Authors

\* What is written on purpose is never an unreadable line.
LEMMA NotCorrupt == "corrupt" \notin Paths \cup Status
  BY FileConstants DEF Paths, Answer, Status

LEMMA FileStart == FileInit => FileInv
<1> SUFFICES ASSUME FileInit PROVE FileInv
  OBVIOUS
<1>1. 0 \in 0..MaxExits
  BY FileConstants
<1>2. FileShape
  <2>1. NoWrite \in [st : AppendStates, line : Paths \cup Status, cut : Nat]
    BY DEF NoWrite, AppendStates, Status
  <2>2. file \in [exists : BOOLEAN, lines : Seq(Line), torn : BOOLEAN]
    BY DEF FileInit
  <2> QED BY <1>1, <2>1, <2>2 DEF FileInit, FileShape
<1>3. WritesOntoWhole /\ StaysReadable
  BY DEF FileInit, WritesOntoWhole, StaysReadable, NoWrite
<1>4. CutsTheTail /\ FreshIsWhole
  BY DEF FileInit, CutsTheTail, FreshIsWhole, NoWrite, Writers
<1> QED BY <1>2, <1>3, <1>4 DEF FileInv

\* Every call of the journal moves one writer on.
LEMMA StageType ==
  ASSUME FileShape, NEW x \in Writers, NEW to \in AppendStates, Stage(x, to)
  PROVE  /\ writing' \in [Writers -> [st : AppendStates, line : Paths \cup Status, cut : Nat]]
         /\ writing'[x].st = to /\ writing'[x].line = writing[x].line
         /\ \A y \in Writers : y # x => writing'[y] = writing[y]
  BY DEF FileShape, Stage

LEMMA BeginType ==
  ASSUME FileShape, NEW x \in Writers, NEW what \in Paths \cup Status, BeginLine(x, what)
  PROVE  /\ writing' \in [Writers -> [st : AppendStates, line : Paths \cup Status, cut : Nat]]
         /\ writing'[x].st \in {"write", "repair", "returned"}
         /\ writing'[x].st = "write" => repaired = TRUE
         /\ \A y \in Writers : y # x => writing'[y] = writing[y]
         /\ repaired' = repaired
<1> DEFINE r == [st |-> IF repaired THEN "write" ELSE "repair", line |-> what, cut |-> 0]
<1>1. /\ r \in [st : AppendStates, line : Paths \cup Status, cut : Nat]
      /\ r.st \in {"write", "repair"} /\ (r.st = "write" => repaired = TRUE)
  BY DEF FileShape, AppendStates
<1>2. writing' = [writing EXCEPT ![x] = r] /\ repaired' = repaired
  BY DEF BeginLine
<1> HIDE DEF r
<1> QED BY <1>1, <1>2 DEF FileShape

\* A step that leaves the file alone, brings nobody to its write but past a repair, and
\* nobody to the cut.
LEMMA FileRests ==
  ASSUME FileInv, UNCHANGED <<file, exits>>, repaired' \in BOOLEAN, synced' \in Nat,
         repaired' = TRUE => repaired = TRUE \/ file.torn = FALSE,
         writing' \in [Writers -> [st : AppendStates, line : Paths \cup Status, cut : Nat]],
         \A x \in Writers :
            /\ writing'[x].st = "write"
                 => writing[x].st = "write" \/ repaired = TRUE \/ file.torn = FALSE
            /\ writing'[x].st = "truncate" => writing'[x] = writing[x],
         writing'[Worker].st = "header" => writing[Worker].st = "header"
  PROVE  FileInv'
<1>1. FileShape' /\ WritesOntoWhole' /\ StaysReadable'
  BY DEF FileInv, FileShape, WritesOntoWhole, StaysReadable
<1>2. CutsTheTail' /\ FreshIsWhole'
  BY DEF FileInv, CutsTheTail, FreshIsWhole
<1> QED BY <1>1, <1>2 DEF FileInv

LEMMA AppendEntryType ==
  ASSUME FileShape, NEW x \in Writers, NEW p \in Paths, AppendEntry(x, p)
  PROVE  /\ writing' \in [Writers -> [st : AppendStates, line : Paths \cup Status, cut : Nat]]
         /\ writing'[x].st \in {"write", "repair", "returned"}
         /\ writing'[x].st = "write" => repaired = TRUE
         /\ \A y \in Writers : y # x => writing'[y] = writing[y]
         /\ repaired' = repaired
<1>1. CASE Recorded(p) # Unwritten
  <2> DEFINE r == [writing[x] EXCEPT !.st = "returned", !.line = p]
  <2>1. writing' = [writing EXCEPT ![x] = r] /\ repaired' = repaired
    BY <1>1 DEF AppendEntry, FileShape
  <2>2. r \in [st : AppendStates, line : Paths \cup Status, cut : Nat] /\ r.st = "returned"
    BY DEF FileShape, AppendStates
  <2> HIDE DEF r
  <2> QED BY <2>1, <2>2 DEF FileShape
<1>2. CASE Recorded(p) = Unwritten
  BY <1>2, BeginType DEF AppendEntry
<1> QED BY <1>1, <1>2

\* Every step keeps the invariant (durable-journal-file journal.ts appendLine,
\* repairTornTail).
LEMMA FileStep ==
  ASSUME FileInv, [FileNext]_fileVars
  PROVE  FileInv'
<1>0. FileShape /\ WritesOntoWhole /\ CutsTheTail /\ FreshIsWhole /\ StaysReadable
  BY DEF FileInv
<1>a. /\ file \in [exists : BOOLEAN, lines : Seq(Line), torn : BOOLEAN]
      /\ writing \in [Writers -> [st : AppendStates, line : Paths \cup Status, cut : Nat]]
      /\ repaired \in BOOLEAN /\ synced \in Nat /\ Worker \in Writers
  BY <1>0 DEF FileShape, Writers
<1>b. Len(file.lines) \in Nat
  BY <1>a, LenProperties
<1> USE DEF AppendStates
<1>1. ASSUME NEW x \in Writers, RepairLook(x) PROVE FileInv'
  <2>1. CASE file.torn = TRUE
    <3> DEFINE r == [writing[x] EXCEPT !.st = "truncate", !.cut = Len(file.lines)]
    <3>1. writing' = [writing EXCEPT ![x] = r] /\ UNCHANGED <<repaired, file, exits, synced>>
      BY <1>a, <1>1, <2>1 DEF RepairLook
    <3>2. /\ r \in [st : AppendStates, line : Paths \cup Status, cut : Nat]
          /\ r.st = "truncate" /\ r.cut = Len(file.lines)
      BY <1>a, <1>b
    <3> HIDE DEF r
    <3>3. FileShape' /\ WritesOntoWhole' /\ StaysReadable'
      BY <1>0, <3>1, <3>2 DEF FileShape, WritesOntoWhole, StaysReadable
    <3>4. CutsTheTail' /\ FreshIsWhole'
      BY <1>0, <1>a, <2>1, <3>1, <3>2 DEF CutsTheTail, FreshIsWhole
    <3> QED BY <3>3, <3>4 DEF FileInv
  <2>2. CASE file.torn = FALSE
    <3>1. Stage(x, "write") /\ repaired' = TRUE /\ UNCHANGED <<file, exits, synced>>
      BY <1>1, <2>2 DEF RepairLook
    <3> QED BY <1>0, <1>a, <2>2, <3>1, StageType, FileRests
  <2> QED BY <1>a, <2>1, <2>2
<1>2. ASSUME NEW x \in Writers, RepairCut(x) PROVE FileInv'
  <2>1. /\ Stage(x, "write") /\ repaired' = TRUE /\ UNCHANGED exits
        /\ file' = [file EXCEPT !.lines = SubSeq(file.lines, 1, writing[x].cut), !.torn = FALSE]
        /\ writing[x].st = "truncate"
    BY <1>2 DEF RepairCut
  <2>2. PICK n \in Nat : n = writing[x].cut /\ n <= Len(file.lines)
    BY <1>0, <1>a, <2>1 DEF CutsTheTail
  <2>3. synced' \in Nat
    BY <1>a, <1>2, <2>2 DEF RepairCut
  <2> DEFINE ls == SubSeq(file.lines, 1, n)
  <2>4. ls \in Seq(Line) /\ Len(ls) = n /\ \A i \in 1..n : ls[i] = file.lines[i]
    BY <1>a, <1>b, <2>2
  <2>5. /\ file' \in [exists : BOOLEAN, lines : Seq(Line), torn : BOOLEAN]
        /\ file'.lines = ls /\ file'.torn = FALSE /\ file'.exists = file.exists
    BY <1>a, <2>1, <2>2, <2>4
  <2> HIDE DEF ls
  <2>6. FileShape' /\ WritesOntoWhole'
    BY <1>0, <2>1, <2>3, <2>5, StageType DEF FileShape, WritesOntoWhole
  <2>7. StaysReadable'
    BY <1>0, <1>b, <2>2, <2>4, <2>5 DEF StaysReadable
  <2>8. CutsTheTail' /\ FreshIsWhole'
    <3>1. writing'[x].st = "write" /\ \A y \in Writers : y # x => writing'[y] = writing[y]
      BY <1>0, <2>1, StageType
    <3>2. CutsTheTail'
      <4>1. \A y \in Writers : writing'[y].st = "truncate" => writing'[y].cut = n /\ y # x
        BY <1>0, <2>1, <2>2, <3>1 DEF CutsTheTail
      <4> QED BY <2>2, <2>4, <2>5, <4>1 DEF CutsTheTail
    <3>3. file.exists = TRUE /\ writing'[Worker].st # "header"
      BY <1>0, <1>a, <2>1, <3>1 DEF FreshIsWhole
    <3> QED BY <2>5, <3>2, <3>3 DEF FreshIsWhole
  <2> QED BY <2>6, <2>7, <2>8 DEF FileInv
<1>3. ASSUME NEW x \in Writers, Write(x) PROVE FileInv'
  <2> DEFINE l == LineOf(writing[x].line, x)
             ls == Append(file.lines, l)
  <2>1. file.torn = FALSE
    BY <1>0, <1>3 DEF WritesOntoWhole, Write
  <2>2. /\ Stage(x, "sync") /\ UNCHANGED <<exits, repaired, synced>>
        /\ file' = [file EXCEPT !.lines = ls, !.torn = FALSE]
    BY <1>3, <2>1 DEF Write
  <2>3. l \in Line /\ l.what # "corrupt"
    BY <1>0, <1>a, LineType, NotCorrupt
  <2>4. /\ ls \in Seq(Line) /\ Len(ls) = Len(file.lines) + 1
        /\ \A i \in 1..Len(file.lines) : ls[i] = file.lines[i]
        /\ ls[Len(file.lines) + 1] = l
    BY <1>a, <2>3, AppendProperties
  <2> HIDE DEF l, ls
  <2>5. /\ file' \in [exists : BOOLEAN, lines : Seq(Line), torn : BOOLEAN]
        /\ file'.lines = ls /\ file'.torn = FALSE /\ file'.exists = file.exists
    BY <1>a, <2>2, <2>4
  <2>6. FileShape' /\ WritesOntoWhole'
    BY <1>0, <2>1, <2>2, <2>5, StageType DEF FileShape, WritesOntoWhole
  <2>7. StaysReadable'
    BY <1>0, <1>b, <2>3, <2>4, <2>5 DEF StaysReadable
  <2>8. CutsTheTail' /\ FreshIsWhole'
    <3>1. writing'[x].st = "sync" /\ \A y \in Writers : y # x => writing'[y] = writing[y]
      BY <1>0, <2>2, StageType
    <3>2. CutsTheTail'
      <4>1. \A y \in Writers : writing'[y].st = "truncate" =>
               writing'[y] = writing[y] /\ writing[y].cut \in Nat
               /\ writing[y].cut <= Len(file.lines)
        BY <1>0, <1>a, <3>1 DEF CutsTheTail
      <4>2. \A y \in Writers : writing'[y].st = "truncate" => writing'[y].cut <= Len(ls)
        BY <1>b, <2>4, <4>1
      <4> QED BY <1>0, <2>5, <4>1, <4>2 DEF CutsTheTail
    <3>3. FreshIsWhole'
      BY <1>0, <1>a, <2>5, <3>1 DEF FreshIsWhole
    <3> QED BY <3>2, <3>3
  <2> QED BY <2>6, <2>7, <2>8 DEF FileInv
<1>4. ASSUME NEW x \in Writers, Sync(x) PROVE FileInv'
  BY <1>0, <1>a, <1>b, <1>4, StageType, FileRests DEF Sync
<1>5. CASE Create
  <2>1. /\ Stage(Worker, "header") /\ UNCHANGED <<exits, repaired, synced>>
        /\ file' = [file EXCEPT !.exists = TRUE] /\ file.exists = FALSE
    BY <1>a, <1>5 DEF Create
  <2>2. /\ file' \in [exists : BOOLEAN, lines : Seq(Line), torn : BOOLEAN]
        /\ file'.lines = file.lines /\ file'.torn = file.torn
    BY <1>a, <2>1
  <2>3. FileShape' /\ WritesOntoWhole' /\ StaysReadable'
    BY <1>0, <1>a, <2>1, <2>2, StageType DEF FileShape, WritesOntoWhole, StaysReadable
  <2>4. CutsTheTail' /\ FreshIsWhole'
    BY <1>0, <1>a, <2>1, <2>2, StageType, ZenonT(60) DEF CutsTheTail, FreshIsWhole
  <2> QED BY <2>3, <2>4 DEF FileInv
<1>6. CASE Header
  <2> DEFINE l == LineOf("running", Worker)
  <2>1. /\ Stage(Worker, "working") /\ UNCHANGED <<exits, repaired>> /\ synced' = 1
        /\ file' = [file EXCEPT !.lines = <<l>>] /\ writing[Worker].st = "header"
    BY <1>6 DEF Header
  <2>2. l \in Line /\ l.what # "corrupt"
    BY <1>0, <1>a, LineType, NotCorrupt DEF Status
  <2> HIDE DEF l
  <2>3. /\ file' \in [exists : BOOLEAN, lines : Seq(Line), torn : BOOLEAN]
        /\ file'.lines = <<l>> /\ file'.torn = file.torn /\ file'.exists = file.exists
    <3>1. <<l>> \in Seq(Line)
      BY <2>2
    <3> QED BY <1>a, <2>1, <3>1
  <2>4. FileShape' /\ WritesOntoWhole'
    BY <1>0, <1>a, <2>1, <2>3, StageType DEF FileShape, WritesOntoWhole
  <2>5. StaysReadable'
    BY <2>2, <2>3 DEF StaysReadable
  <2>6. CutsTheTail' /\ FreshIsWhole'
    BY <1>0, <1>a, <2>1, <2>3, StageType, ZenonT(60) DEF CutsTheTail, FreshIsWhole
  <2> QED BY <2>4, <2>5, <2>6 DEF FileInv
<1>7. CASE OpenRun
  BY <1>0, <1>a, <1>7, StageType, FileRests DEF OpenRun
<1>8. CASE Leave
  <2>1. BeginLine(Worker, IF Answer \in seen THEN "completed" ELSE "parked")
        /\ UNCHANGED <<file, synced, exits>>
    BY <1>8 DEF Leave
  <2>2. PICK what \in Status : BeginLine(Worker, what)
    BY <2>1 DEF Status
  <2> QED BY <1>0, <1>a, <2>1, <2>2, BeginType, FileRests
<1>9. CASE Left
  <2>1. /\ writing' = [x \in Writers |-> IF x \in Deliveries THEN writing[x] ELSE NoWrite]
        /\ UNCHANGED <<file, synced, repaired, exits>>
    BY <1>9 DEF Left
  <2>2. NoWrite \in [st : AppendStates, line : Paths \cup Status, cut : Nat]
        /\ NoWrite.st = "idle"
    BY DEF NoWrite, Status
  <2>3. /\ writing' \in [Writers -> [st : AppendStates, line : Paths \cup Status, cut : Nat]]
        /\ \A x \in Writers : writing'[x] = writing[x] \/ writing'[x].st = "idle"
    BY <1>a, <2>1, <2>2
  <2> QED BY <1>a, <2>1, <2>3, FileRests
<1>10. ASSUME NEW b \in Branches, Branch(b) PROVE FileInv'
  <2>1. AppendEntry(b, b) /\ UNCHANGED <<file, synced, exits>> /\ b \in Writers /\ b \in Paths
    BY <1>10 DEF Branch, Writers, Paths
  <2>2. b # Worker
    BY FileConstants
  <2> QED BY <1>0, <1>a, <2>1, <2>2, AppendEntryType, FileRests
<1>11. ASSUME NEW d \in Deliveries, Lookup(d) PROVE FileInv'
  <2>1. d \in Writers /\ d # Worker
    BY FileConstants DEF Writers
  <2> QED BY <1>0, <1>a, <1>11, <2>1, StageType, FileRests DEF Lookup
<1>12. ASSUME NEW d \in Deliveries, AppendAnswer(d) PROVE FileInv'
  <2>1. d \in Writers /\ d # Worker /\ Answer \in Paths
    BY FileConstants DEF Writers, Paths
  <2> QED BY <1>0, <1>a, <1>12, <2>1, AppendEntryType, FileRests DEF AppendAnswer
<1>13. ASSUME NEW d \in Deliveries, Unpark(d) PROVE FileInv'
  <2>1. d \in Writers /\ d # Worker /\ "running" \in Paths \cup Status
    BY FileConstants DEF Writers, Status
  <2> QED BY <1>0, <1>a, <1>13, <2>1, BeginType, FileRests DEF Unpark
<1>14. ASSUME NEW d \in Deliveries, Delivered(d) PROVE FileInv'
  <2>1. d \in Writers /\ d # Worker
    BY FileConstants DEF Writers
  <2> QED BY <1>0, <1>a, <1>14, <2>1, StageType, FileRests DEF Delivered
<1>c. ASSUME Restart
      PROVE  /\ writing' \in [Writers -> [st : AppendStates, line : Paths \cup Status, cut : Nat]]
             /\ \A x \in Writers : writing'[x].st \in {"idle", "done"}
             /\ repaired' = FALSE /\ exits' \in 0..MaxExits
  <2> DEFINE done == [NoWrite EXCEPT !.st = "done"]
  <2>1. /\ NoWrite \in [st : AppendStates, line : Paths \cup Status, cut : Nat]
        /\ NoWrite.st = "idle"
        /\ done \in [st : AppendStates, line : Paths \cup Status, cut : Nat]
        /\ done.st = "done"
    BY DEF NoWrite, Status
  <2>2. exits' \in 0..MaxExits
    BY <1>0, <1>c, FileConstants DEF Restart, FileShape
  <2>3. writing' = [x \in Writers |->
                      IF x \in Deliveries /\ writing[x].st # "idle" THEN done ELSE NoWrite]
    BY <1>c DEF Restart
  <2> HIDE DEF done
  <2> QED BY <1>c, <2>1, <2>2, <2>3 DEF Restart
<1>d. ASSUME Restart, UNCHANGED synced, file.exists = TRUE, NEW n \in 0..Len(file.lines),
             NEW t \in BOOLEAN,
             file' = [file EXCEPT !.lines = SubSeq(file.lines, 1, n), !.torn = t]
      PROVE  FileInv'
  <2> DEFINE ls == SubSeq(file.lines, 1, n)
  <2>1. ls \in Seq(Line) /\ Len(ls) = n /\ \A i \in 1..n : ls[i] = file.lines[i]
    BY <1>a, <1>b
  <2> HIDE DEF ls
  <2>2. /\ file' \in [exists : BOOLEAN, lines : Seq(Line), torn : BOOLEAN]
        /\ file'.lines = ls /\ file'.exists = TRUE
    BY <1>a, <1>d, <2>1 DEF ls
  <2>3. FileShape' /\ WritesOntoWhole'
    BY <1>a, <1>c, <1>d, <2>2 DEF FileShape, WritesOntoWhole
  <2>4. StaysReadable'
    BY <1>0, <1>b, <2>1, <2>2 DEF StaysReadable
  <2>5. CutsTheTail' /\ FreshIsWhole'
    BY <1>a, <1>c, <1>d, <2>2 DEF CutsTheTail, FreshIsWhole
  <2> QED BY <2>3, <2>4, <2>5 DEF FileInv
<1>15. CASE Killed
  <2>1. Restart /\ UNCHANGED synced /\ file.exists = TRUE
    BY <1>a, <1>15 DEF Killed
  <2>2. PICK torn \in BOOLEAN : file' = [file EXCEPT !.torn = file.torn \/ torn]
    BY <1>15 DEF Killed
  <2>3. (file.torn \/ torn) \in BOOLEAN
    BY <1>a
  <2>4. SubSeq(file.lines, 1, Len(file.lines)) = file.lines
    BY <1>a, SubSeqFull
  <2>5. file' = [file EXCEPT !.lines = SubSeq(file.lines, 1, Len(file.lines)),
                             !.torn = file.torn \/ torn]
    BY <1>a, <2>2, <2>4
  <2>6. Len(file.lines) \in 0..Len(file.lines)
    BY <1>b
  <2> QED BY <1>d, <2>1, <2>3, <2>5, <2>6
<1>16. CASE PowerLost
  <2>1. Restart /\ UNCHANGED synced /\ file.exists = TRUE
    BY <1>a, <1>16 DEF PowerLost
  <2>2. PICK kept \in synced..Len(file.lines), torn \in BOOLEAN :
          file' = [file EXCEPT !.lines = SubSeq(file.lines, 1, kept), !.torn = torn]
    BY <1>16 DEF PowerLost
  <2>3. kept \in 0..Len(file.lines)
    BY <1>a, <1>b
  <2> QED BY <1>d, <2>1, <2>2, <2>3
<1>17. CASE UNCHANGED fileVars
  BY <1>a, <1>17, FileRests DEF fileVars
<1> QED BY <1>1, <1>2, <1>3, <1>4, <1>5, <1>6, <1>7, <1>8, <1>9, <1>10, <1>11, <1>12, <1>13,
           <1>14, <1>15, <1>16, <1>17 DEF FileNext

\* FileInv holds in every reachable state.
THEOREM FileInvariant == FileSpec => []FileInv
<1>1. FileInv /\ [FileNext]_fileVars => FileInv'
  BY FileStep
<1> QED BY <1>1, FileStart, PTL DEF FileSpec

\* No torn write, power loss, restart or overlap of appends ever leaves a line that does
\* not parse (durable-journal-file journal.ts repairTornTail).
THEOREM FileReadable == FileSpec => []StaysReadable
<1>1. FileInv => StaysReadable
  BY DEF FileInv
<1> QED BY <1>1, FileInvariant, PTL

-----------------------------------------------------------------------------
(* RecordJournal.  An actor whose version is the key's knows the key: what it *)
(* read, or wrote, is still so.  Hence the key itself moves like a small       *)
(* machine, KeyMove, whoever moves it.                                         *)

KeyStates == {"absent", "open", "finished", "failed", "removed"}
Keys == [st : KeyStates, holder : Drains \cup {Writer, NoDrain}, drain : Drains \cup {NoDrain},
         cancel : BOOLEAN, lost : BOOLEAN, aged : BOOLEAN, log : Seq(Drains)]

\* What being at p, with the key's own version, says of the key k.
Knows(k, x, p) ==
  /\ p \in {"drain", "failing"} => k.st = "open" /\ k.drain = x
  /\ p \in {"cancelled", "lose", "loseFirst", "adopt", "stale", "mark"} => k.st = "open"
  /\ p = "take" => k.st = "failed"
  /\ p = "remove" => k.st \in {"open", "finished", "failed"}
  /\ p = "delete" => k.st = "removed"

OnlyDrains(x, p) == p \in {"drain", "adopt", "failing"} => x \in Drains

VersionsTell ==
  \A x \in Actors : /\ at[x] = TRUE => pc[x] \in Presenting /\ Knows(key, x, pc[x])
                    /\ OnlyDrains(x, pc[x])

KeyIsWhole ==
  /\ key.st = "absent" => key = NoKey
  /\ key.st = "removed" => key.log = <<>>
  /\ key.st = "finished" => key.log \in finals

JournalShape == JournalTypeOK /\ DOMAIN pc = Actors

\* What readers have got agrees with the key they follow.
ReadersFollow ==
  /\ ReplayIsWhole
  /\ ~deleted /\ key.st = "absent" => \A q \in Readers : got[q] = <<>>

JournalInv == JournalShape /\ VersionsTell /\ KeyIsWhole /\ ReadersFollow

\* The moves of a key.
KeyMove ==
  \/ key' = key
  \/ key.st = "absent" /\ \E x \in Judges : key' = Opened(x, FALSE, <<>>)
  \/ key.st = "failed" /\ \E x \in Judges : key' = Opened(x, FALSE, key.log)
  \/ key.st = "open" /\ \E x \in Judges : key' = Opened(x, key.cancel, key.log)
  \/ key.st = "open" /\ \E b \in BOOLEAN : key' = Ended("failed", b)
  \/ key.st = "open" /\ key' = Ended("finished", FALSE) /\ key.log \in finals'
  \/ /\ key.st = "open" /\ key.drain \in Drains /\ Len(key.log) < MaxRecords
     /\ key' = [key EXCEPT !.log = Append(@, key.drain)]
  \/ key.st # "absent" /\ \E b \in BOOLEAN : key' = [key EXCEPT !.aged = b]
  \/ key.st = "open" /\ key' = [key EXCEPT !.cancel = TRUE, !.aged = FALSE]
  \/ key.st \in {"open", "finished", "failed"} /\ key' = Marker
  \/ key.st = "removed" /\ key' = NoKey /\ deleted' = TRUE

LEMMA OpenedKey ==
  ASSUME NEW x \in Judges, NEW c \in BOOLEAN, NEW l \in Seq(Drains)
  PROVE  /\ Opened(x, c, l) \in Keys
         /\ Opened(x, c, l).st = "open" /\ Opened(x, c, l).log = l
         /\ Opened(x, c, l).cancel = c
         /\ x \in Drains => Opened(x, c, l).drain = x
<1>1. HolderOf(x) \in Drains \cup {Writer, NoDrain}
  BY DEF HolderOf, Judges
<1>2. Drain(x) \in Drains \cup {NoDrain} /\ (x \in Drains => Drain(x) = x)
  BY DEF Drain
<1> QED BY <1>1, <1>2 DEF Opened, Keys, KeyStates

LEMMA OtherKeys ==
  ASSUME key \in Keys
  PROVE  /\ NoKey \in Keys /\ NoKey.st = "absent" /\ NoKey.log = <<>>
         /\ Marker \in Keys /\ Marker.st = "removed" /\ Marker.log = <<>>
         /\ \A s \in {"finished", "failed"}, b \in BOOLEAN :
              Ended(s, b) \in Keys /\ Ended(s, b).st = s /\ Ended(s, b).log = key.log
<1>1. NoKey \in Keys /\ NoKey.st = "absent" /\ NoKey.log = <<>>
  BY DEF Keys, KeyStates, NoKey
<1>3. Marker \in Keys /\ Marker.st = "removed" /\ Marker.log = <<>>
  BY DEF Keys, KeyStates, Marker
<1>4. ASSUME NEW s \in {"finished", "failed"}, NEW b \in BOOLEAN
      PROVE  Ended(s, b) \in Keys /\ Ended(s, b).st = s /\ Ended(s, b).log = key.log
  BY DEF Ended, Keys, KeyStates
<1> QED BY <1>1, <1>3, <1>4

\* The key stays a key as it moves.
LEMMA KeyMoveType ==
  ASSUME key \in Keys, Len(key.log) <= MaxRecords, KeyIsWhole, finals \subseteq finals', KeyMove
  PROVE  key' \in Keys /\ Len(key'.log) <= MaxRecords /\ KeyIsWhole'
<1>0. Len(key.log) \in Nat /\ MaxRecords \in Nat /\ key.log \in Seq(Drains)
      /\ <<>> \in Seq(Drains) /\ Len(<<>>) = 0
  BY LenProperties, JournalConstants DEF Keys
<1>1. CASE key' = key
  BY <1>1 DEF KeyIsWhole
<1>2. CASE key.st = "absent" /\ \E x \in Judges : key' = Opened(x, FALSE, <<>>)
  <2>1. PICK x \in Judges : key' = Opened(x, FALSE, <<>>)
    BY <1>2
  <2>2. key' \in Keys /\ key'.st = "open" /\ key'.log = <<>>
    BY <1>0, <2>1, OpenedKey
  <2> QED BY <1>0, <2>2 DEF KeyIsWhole
<1>3. CASE key.st = "failed" /\ \E x \in Judges : key' = Opened(x, FALSE, key.log)
  <2>1. PICK x \in Judges : key' = Opened(x, FALSE, key.log)
    BY <1>3
  <2>2. key' \in Keys /\ key'.st = "open" /\ key'.log = key.log
    BY <1>0, <2>1, OpenedKey, ZenonT(60)
  <2> QED BY <1>0, <2>2 DEF KeyIsWhole
<1>4. CASE key.st = "open" /\ \E x \in Judges : key' = Opened(x, key.cancel, key.log)
  <2>1. key.cancel \in BOOLEAN
    BY DEF Keys
  <2> QED BY <1>0, <1>4, <2>1, OpenedKey DEF KeyIsWhole
<1>5. CASE key.st = "open" /\ \E b \in BOOLEAN : key' = Ended("failed", b)
  BY <1>0, <1>5, OtherKeys DEF KeyIsWhole
<1>6. CASE key.st = "open" /\ key' = Ended("finished", FALSE) /\ key.log \in finals'
  BY <1>0, <1>6, OtherKeys DEF KeyIsWhole
<1>7. CASE /\ key.st = "open" /\ key.drain \in Drains /\ Len(key.log) < MaxRecords
           /\ key' = [key EXCEPT !.log = Append(@, key.drain)]
  <2>1. Append(key.log, key.drain) \in Seq(Drains)
        /\ Len(Append(key.log, key.drain)) = Len(key.log) + 1
    BY <1>0, <1>7, AppendProperties
  <2>2. key' \in Keys /\ key'.log = Append(key.log, key.drain) /\ key'.st = "open"
    BY <1>7, <2>1 DEF Keys
  <2> QED BY <1>0, <1>7, <2>1, <2>2 DEF KeyIsWhole
<1>8. CASE key.st # "absent" /\ \E b \in BOOLEAN : key' = [key EXCEPT !.aged = b]
  BY <1>8 DEF Keys, KeyIsWhole
<1>9. CASE key.st = "open" /\ key' = [key EXCEPT !.cancel = TRUE, !.aged = FALSE]
  <2>1. key' \in Keys /\ key'.log = key.log /\ key'.st = "open"
    BY <1>9 DEF Keys
  <2> QED BY <2>1 DEF KeyIsWhole
<1>10. CASE key.st \in {"open", "finished", "failed"} /\ key' = Marker
  BY <1>0, <1>10, OtherKeys DEF KeyIsWhole
<1>11. CASE key.st = "removed" /\ key' = NoKey /\ deleted' = TRUE
  BY <1>0, <1>11, OtherKeys DEF KeyIsWhole, NoKey
<1> QED BY <1>1, <1>2, <1>3, <1>4, <1>5, <1>6, <1>7, <1>8, <1>9, <1>10, <1>11 DEF KeyMove

\* The property of a key's life is a property of its moves.
LEMMA MovesFollow ==
  ASSUME key \in Keys, Len(key.log) <= MaxRecords, KeyIsWhole, KeyMove
  PROVE  /\ Len(key'.log) > Len(key.log) =>
              key.st = "open" /\ key' = [key EXCEPT !.log = Append(@, key.drain)]
         /\ key.st = "finished" => key'.st \in {"finished", "removed"}
         /\ key.st = "open" /\ key.cancel /\ key'.st = "open" => key'.cancel
<1>0. Len(key.log) \in Nat /\ key.log \in Seq(Drains) /\ <<>> \in Seq(Drains) /\ Len(<<>>) = 0
      /\ key.cancel \in BOOLEAN
  BY LenProperties DEF Keys
<1>1. CASE key' = key
  BY <1>0, <1>1
<1>2. CASE key.st = "absent" /\ \E x \in Judges : key' = Opened(x, FALSE, <<>>)
  <2>1. key.log = <<>>
    BY <1>2, OtherKeys DEF KeyIsWhole
  <2>2. PICK x \in Judges : key' = Opened(x, FALSE, <<>>)
    BY <1>2
  <2>3. Opened(x, FALSE, <<>>).log = <<>>
    <3>1. FALSE \in BOOLEAN /\ <<>> \in Seq(Drains)
      BY <1>0
    <3> QED BY <3>1, OpenedKey
  <2>4. key'.log = <<>> /\ key.st = "absent"
    BY <1>2, <2>2, <2>3
  <2> QED BY <1>0, <2>1, <2>4
<1>3. CASE key.st = "failed" /\ \E x \in Judges : key' = Opened(x, FALSE, key.log)
  <2>1. PICK x \in Judges : key' = Opened(x, FALSE, key.log)
    BY <1>3
  <2>2. key'.log = key.log /\ key.st = "failed"
    <3>1. FALSE \in BOOLEAN /\ key.log \in Seq(Drains)
      BY <1>0
    <3>2. Opened(x, FALSE, key.log).log = key.log
      BY <3>1, OpenedKey
    <3> QED BY <1>3, <2>1, <3>2
  <2> QED BY <1>0, <2>2
<1>4. CASE key.st = "open" /\ \E x \in Judges : key' = Opened(x, key.cancel, key.log)
  <2>1. key'.log = key.log /\ key'.cancel = key.cancel
    BY <1>0, <1>4, OpenedKey
  <2> QED BY <1>0, <1>4, <2>1
<1>5. CASE key.st = "open" /\ \E b \in BOOLEAN : key' = Ended("failed", b)
  <2>1. key'.log = key.log /\ key'.st = "failed"
    BY <1>5, OtherKeys
  <2> QED BY <1>0, <1>5, <2>1
<1>6. CASE key.st = "open" /\ key' = Ended("finished", FALSE) /\ key.log \in finals'
  <2>1. key'.log = key.log /\ key'.st = "finished" /\ key.st = "open"
    BY <1>6, OtherKeys
  <2> QED BY <1>0, <2>1
<1>7. CASE /\ key.st = "open" /\ key.drain \in Drains /\ Len(key.log) < MaxRecords
           /\ key' = [key EXCEPT !.log = Append(@, key.drain)]
  <2>1. key'.cancel = key.cancel
    BY <1>7 DEF Keys
  <2> QED BY <1>7, <2>1
<1>8. CASE key.st # "absent" /\ \E b \in BOOLEAN : key' = [key EXCEPT !.aged = b]
  <2>1. key'.log = key.log /\ key'.st = key.st /\ key'.cancel = key.cancel
    BY <1>8 DEF Keys
  <2> QED BY <1>0, <2>1
<1>9. CASE key.st = "open" /\ key' = [key EXCEPT !.cancel = TRUE, !.aged = FALSE]
  <2>1. key'.log = key.log /\ key'.st = key.st /\ key'.cancel = TRUE
    BY <1>9 DEF Keys
  <2> QED BY <1>0, <1>9, <2>1
<1>10. CASE key.st \in {"open", "finished", "failed"} /\ key' = Marker
  <2>1. key'.log = <<>> /\ key'.st = "removed"
    BY <1>10, OtherKeys
  <2> QED BY <1>0, <2>1
<1>11. CASE key.st = "removed" /\ key' = NoKey /\ deleted' = TRUE
  <2>1. key'.log = <<>> /\ key'.st = "absent"
    BY <1>11, OtherKeys
  <2> QED BY <1>0, <1>11, <2>1
<1> QED BY <1>1, <1>2, <1>3, <1>4, <1>5, <1>6, <1>7, <1>8, <1>9, <1>10, <1>11 DEF KeyMove

\* An actor goes on, and reads or writes the key.
LEMMA AdvancesTo ==
  ASSUME DOMAIN pc = Actors, NEW x \in Actors, NEW from, NEW to, Advances(x, from, to)
  PROVE  /\ DOMAIN pc' = Actors /\ pc[x] = from /\ pc'[x] = to
         /\ \A y \in Actors : y # x => pc'[y] = pc[y]
  BY DEF Advances

LEMMA CasEffect ==
  ASSUME JournalShape, NEW x \in Actors, NEW from, NEW new, NEW then, NEW else,
         Cas(x, from, new, then, else)
  PROVE  /\ DOMAIN pc' = Actors /\ pc[x] = from
         /\ \A y \in Actors : y # x => pc'[y] = pc[y]
         /\ at' \in [Actors -> BOOLEAN]
         /\ \/ /\ at[x] = TRUE /\ key' = new /\ pc'[x] = then
               /\ \A y \in Actors : at'[y] = TRUE => y = x /\ then \in Presenting
            \/ at[x] = FALSE /\ pc'[x] = else /\ UNCHANGED <<key, at>>
<1>1. at \in [Actors -> BOOLEAN] /\ DOMAIN pc = Actors
  BY DEF JournalShape, JournalTypeOK
<1>2. CASE at[x] = TRUE
  <2>1. Advances(x, from, then) /\ Puts(x, new)
    BY <1>2 DEF Cas
  <2>2. /\ DOMAIN pc' = Actors /\ pc[x] = from /\ pc'[x] = then
        /\ \A y \in Actors : y # x => pc'[y] = pc[y]
    BY <1>1, <2>1, AdvancesTo
  <2>3. key' = new /\ at' = [y \in Actors |-> y = x /\ pc'[x] \in Presenting]
    BY <2>1 DEF Puts
  <2>4. at' \in [Actors -> BOOLEAN]
    BY <2>3, Zenon
  <2>5. \A y \in Actors : at'[y] = TRUE => y = x /\ then \in Presenting
    BY <2>2, <2>3, Zenon
  <2> QED BY <1>2, <2>2, <2>3, <2>4, <2>5
<1>3. CASE at[x] = FALSE
  BY <1>1, <1>3, AdvancesTo DEF Cas
<1> QED BY <1>1, <1>2, <1>3

LEMMA ReadsEffect ==
  ASSUME JournalShape, NEW x \in Actors, Reads(x)
  PROVE  /\ at' \in [Actors -> BOOLEAN] /\ key' = key
         /\ at'[x] = TRUE => pc'[x] \in Presenting
         /\ \A y \in Actors : y # x => at'[y] = at[y]
<1>1. at \in [Actors -> BOOLEAN]
  BY DEF JournalShape, JournalTypeOK
<1> DEFINE known == pc'[x] \in Presenting
<1>2. key' = key /\ at' = [at EXCEPT ![x] = known]
  BY DEF Reads
<1>3. known \in BOOLEAN
  OBVIOUS
<1> HIDE DEF known
<1>4. /\ at' \in [Actors -> BOOLEAN] /\ at'[x] = known
      /\ \A y \in Actors : y # x => at'[y] = at[y]
  BY <1>1, <1>2, <1>3
<1>5. at'[x] = TRUE => pc'[x] \in Presenting
  BY <1>4, Zenon DEF known
<1> QED BY <1>2, <1>4, <1>5

\* What a step does to the actors, apart from a reader's page: nobody ends a reading, and
\* whoever still presents the key's version knows the key.
ActorsMove ==
  /\ DOMAIN pc' = Actors /\ at' \in [Actors -> BOOLEAN] /\ VersionsTell'
  /\ \A q \in Actors : pc'[q] = "end" => pc[q] = "end"

LEMMA CasStep ==
  ASSUME JournalInv, NEW x \in Actors, NEW from, NEW new, NEW then, NEW else,
         Cas(x, from, new, then, else),
         OnlyDrains(x, then), OnlyDrains(x, else), then # "end", else # "end",
         at[x] = TRUE /\ key' = new => KeyMove,
         then \in Presenting => Knows(new, x, then)
  PROVE  KeyMove /\ ActorsMove
<1>1. JournalShape /\ VersionsTell
  BY DEF JournalInv
<1>2. /\ DOMAIN pc' = Actors /\ pc[x] = from /\ at' \in [Actors -> BOOLEAN]
      /\ \A y \in Actors : y # x => pc'[y] = pc[y]
  BY <1>1, CasEffect
<1>3. CASE /\ at[x] = TRUE /\ key' = new /\ pc'[x] = then
           /\ \A y \in Actors : at'[y] = TRUE => y = x /\ then \in Presenting
  <2>1. VersionsTell'
    BY <1>1, <1>2, <1>3 DEF VersionsTell
  <2> QED BY <1>2, <1>3, <2>1 DEF ActorsMove
<1>4. CASE at[x] = FALSE /\ pc'[x] = else /\ UNCHANGED <<key, at>>
  <2>1. VersionsTell'
    BY <1>1, <1>2, <1>4 DEF VersionsTell
  <2> QED BY <1>2, <1>4, <2>1 DEF ActorsMove, KeyMove
<1>5. \/ /\ at[x] = TRUE /\ key' = new /\ pc'[x] = then
         /\ \A y \in Actors : at'[y] = TRUE => y = x /\ then \in Presenting
      \/ at[x] = FALSE /\ pc'[x] = else /\ UNCHANGED <<key, at>>
  BY <1>1, CasEffect, Zenon
<1> QED BY <1>3, <1>4, <1>5

LEMMA ReadStep ==
  ASSUME JournalInv, NEW x \in Actors, NEW from, NEW to, Advances(x, from, to), Reads(x),
         OnlyDrains(x, to), to \in Presenting => Knows(key, x, to)
  PROVE  /\ KeyMove /\ DOMAIN pc' = Actors /\ at' \in [Actors -> BOOLEAN] /\ VersionsTell'
         /\ pc'[x] = to /\ \A y \in Actors : y # x => pc'[y] = pc[y]
<1>1. JournalShape /\ VersionsTell /\ DOMAIN pc = Actors
  BY DEF JournalInv, JournalShape
<1>2. /\ DOMAIN pc' = Actors /\ pc[x] = from /\ pc'[x] = to
      /\ \A y \in Actors : y # x => pc'[y] = pc[y]
  BY <1>1, AdvancesTo
<1>3. /\ at' \in [Actors -> BOOLEAN] /\ key' = key
      /\ at'[x] = TRUE => pc'[x] \in Presenting
      /\ \A y \in Actors : y # x => at'[y] = at[y]
  BY <1>1, ReadsEffect
<1>4. VersionsTell'
  BY <1>1, <1>2, <1>3 DEF VersionsTell
<1> QED BY <1>2, <1>3, <1>4 DEF KeyMove

LEMMA QuietStep ==
  ASSUME JournalInv, NEW x \in Actors, NEW from, NEW to, Advances(x, from, to), key' = key,
         at' = at \/ at' = [at EXCEPT ![x] = FALSE],
         OnlyDrains(x, to), to # "end",
         at'[x] = TRUE => to \in Presenting /\ Knows(key, x, to)
  PROVE  KeyMove /\ ActorsMove
<1>1. JournalShape /\ VersionsTell /\ DOMAIN pc = Actors /\ at \in [Actors -> BOOLEAN]
  BY DEF JournalInv, JournalShape, JournalTypeOK
<1>2. /\ DOMAIN pc' = Actors /\ pc[x] = from /\ pc'[x] = to
      /\ \A y \in Actors : y # x => pc'[y] = pc[y]
  BY <1>1, AdvancesTo
<1>3. at' \in [Actors -> BOOLEAN] /\ \A y \in Actors : y # x => at'[y] = at[y]
  BY <1>1
<1>4. VersionsTell'
  BY <1>1, <1>2, <1>3 DEF VersionsTell
<1> QED BY <1>2, <1>3, <1>4 DEF KeyMove, ActorsMove

-----------------------------------------------------------------------------
(* Prefixes. *)

LEMMA PrefixByPoint ==
  ASSUME NEW S, NEW s \in Seq(S), NEW t \in Seq(S)
  PROVE  IsPrefix(s, t) <=> Len(s) <= Len(t) /\ \A i \in 1..Len(s) : s[i] = t[i]
<1>0. Len(s) \in Nat /\ Len(t) \in Nat
  BY LenProperties
<1>1. SubSeq(s, 1, Len(s)) = s
  BY SubSeqFull
<1>2. ASSUME Len(s) <= Len(t)
      PROVE  /\ SubSeq(t, 1, Len(s)) \in Seq(S) /\ Len(SubSeq(t, 1, Len(s))) = Len(s)
             /\ \A i \in 1..Len(s) : SubSeq(t, 1, Len(s))[i] = t[i]
  BY <1>0, <1>2
<1>3. ASSUME IsPrefix(s, t) PROVE Len(s) <= Len(t) /\ \A i \in 1..Len(s) : s[i] = t[i]
  BY <1>1, <1>2, <1>3 DEF IsPrefix
<1>4. ASSUME Len(s) <= Len(t), \A i \in 1..Len(s) : s[i] = t[i] PROVE IsPrefix(s, t)
  <2>1. s = SubSeq(t, 1, Len(s))
    BY <1>2, <1>4, SeqEqual
  <2> QED BY <1>1, <1>4, <2>1 DEF IsPrefix
<1> QED BY <1>3, <1>4

\* A log that grows keeps its prefixes; the next page extends one.
LEMMA PrefixGrows ==
  ASSUME NEW S, NEW s \in Seq(S), NEW t \in Seq(S), NEW e \in S, IsPrefix(s, t)
  PROVE  IsPrefix(s, Append(t, e))
<1>0. Len(s) \in Nat /\ Len(t) \in Nat
  BY LenProperties
<1>1. /\ Append(t, e) \in Seq(S) /\ Len(Append(t, e)) = Len(t) + 1
      /\ \A i \in 1..Len(t) : Append(t, e)[i] = t[i]
  BY AppendProperties
<1>2. Len(s) <= Len(t) /\ \A i \in 1..Len(s) : s[i] = t[i]
  BY PrefixByPoint
<1>3. Len(s) <= Len(Append(t, e)) /\ \A i \in 1..Len(s) : s[i] = Append(t, e)[i]
  BY <1>0, <1>1, <1>2
<1> DEFINE u == Append(t, e)
<1>4. u \in Seq(S) /\ Len(s) <= Len(u) /\ \A i \in 1..Len(s) : s[i] = u[i]
  BY <1>1, <1>3
<1> HIDE DEF u
<1>5. IsPrefix(s, u)
  BY <1>4, PrefixByPoint
<1> QED BY <1>5 DEF u

LEMMA PrefixPages ==
  ASSUME NEW S, NEW s \in Seq(S), NEW t \in Seq(S), IsPrefix(s, t), NEW n \in Len(s)..Len(t)
  PROVE  /\ s \o SubSeq(t, Len(s) + 1, n) \in Seq(S)
         /\ s \o SubSeq(t, Len(s) + 1, n) = SubSeq(t, 1, n)
         /\ IsPrefix(s \o SubSeq(t, Len(s) + 1, n), t)
         /\ n = Len(t) => s \o SubSeq(t, Len(s) + 1, n) = t
<1>0. Len(s) \in Nat /\ Len(t) \in Nat /\ n \in Nat /\ Len(s) <= Len(t)
  BY LenProperties DEF IsPrefix
<1>1. s = SubSeq(t, 1, Len(s))
  BY SubSeqFull DEF IsPrefix
<1>2. SubSeq(t, 1, Len(s)) \o SubSeq(t, Len(s) + 1, n) = SubSeq(t, 1, n)
  <2>1. 1 \in 1..(Len(t) + 1) /\ Len(s) \in (1 - 1)..Len(t) /\ n \in Len(s)..Len(t)
    BY <1>0
  <2> QED BY <2>1, ConcatAdjacentSubSeq
<1>3. /\ SubSeq(t, 1, n) \in Seq(S) /\ Len(SubSeq(t, 1, n)) = n
      /\ \A i \in 1..n : SubSeq(t, 1, n)[i] = t[i]
  BY <1>0
<1>4. IsPrefix(SubSeq(t, 1, n), t)
  <2> DEFINE u == SubSeq(t, 1, n)
  <2>1. u \in Seq(S) /\ Len(u) <= Len(t) /\ \A i \in 1..Len(u) : u[i] = t[i]
    BY <1>0, <1>3
  <2> HIDE DEF u
  <2>2. IsPrefix(u, t)
    BY <2>1, PrefixByPoint
  <2> QED BY <2>2 DEF u
<1>5. n = Len(t) => SubSeq(t, 1, n) = t
  BY SubSeqFull
<1> QED BY <1>1, <1>2, <1>3, <1>4, <1>5

-----------------------------------------------------------------------------

LEMMA JournalStart == JournalInit => JournalInv
<1> SUFFICES ASSUME JournalInit PROVE JournalInv
  OBVIOUS
<1>1. NoKey \in Keys /\ NoKey.st = "absent" /\ NoKey.log = <<>>
  BY DEF Keys, KeyStates, NoKey
<1>2. 0 \in 0..MaxTroubles /\ 0 <= MaxRecords /\ Len(<<>>) = 0
  BY JournalConstants
<1>3. JournalTypeOK
  BY <1>1, <1>2 DEF JournalInit, JournalTypeOK, Keys, KeyStates
<1>4. DOMAIN pc = Actors /\ \A x \in Actors : pc[x] \in {"away", "put", "page", "read"}
  BY DEF JournalInit
<1>5. VersionsTell
  BY <1>4 DEF JournalInit, VersionsTell, OnlyDrains
<1>6. KeyIsWhole
  BY <1>1 DEF JournalInit, KeyIsWhole
<1>7. \A q \in Readers : q \in Actors
  BY DEF Actors, Clients
<1>8. ReadersFollow
  BY <1>1, <1>4, <1>7 DEF JournalInit, ReadersFollow, ReplayIsWhole
<1> QED BY <1>3, <1>4, <1>5, <1>6, <1>8 DEF JournalInv, JournalShape

\* A move of the key keeps what every reader has a prefix of its log, unless the key goes.
LEMMA MovesKeepPrefixes ==
  ASSUME JournalInv, KeyMove, finals \subseteq finals', NEW q \in Readers, ~deleted'
         /\ (deleted => deleted')
  PROVE  /\ key'.st \in {"open", "finished", "failed"} => IsPrefix(got[q], key'.log)
         /\ key'.st = "absent" => got[q] = <<>>
<1>0. /\ key \in Keys /\ got[q] \in Seq(Drains) /\ key.log \in Seq(Drains) /\ ~deleted
      /\ key.cancel \in BOOLEAN /\ <<>> \in Seq(Drains)
  BY DEF JournalInv, JournalShape, JournalTypeOK, Keys, KeyStates
<1>1. /\ key.st \in {"open", "finished", "failed"} => IsPrefix(got[q], key.log)
      /\ key.st = "absent" => got[q] = <<>>
  BY <1>0 DEF JournalInv, ReadersFollow, ReplayIsWhole
<1>2. CASE key' = key
  BY <1>1, <1>2
<1>3. CASE key.st = "absent" /\ \E x \in Judges : key' = Opened(x, FALSE, <<>>)
  <2>1. PICK x \in Judges : key' = Opened(x, FALSE, <<>>)
    BY <1>3
  <2>2. key'.st = "open" /\ key'.log = <<>>
    BY <1>0, <2>1, OpenedKey, ZenonT(60)
  <2>3. got[q] = <<>>
    BY <1>1, <1>3
  <2>4. IsPrefix(<<>>, <<>>)
    BY DEF IsPrefix
  <2> QED BY <2>2, <2>3, <2>4
<1>4. CASE key.st = "failed" /\ \E x \in Judges : key' = Opened(x, FALSE, key.log)
  <2>1. PICK x \in Judges : key' = Opened(x, FALSE, key.log)
    BY <1>4
  <2>2. key'.st = "open" /\ key'.log = key.log
    <3>1. key.log \in Seq(Drains) /\ FALSE \in BOOLEAN
      BY <1>0
    <3> QED BY <2>1, <3>1, OpenedKey, ZenonT(60)
  <2> QED BY <1>1, <1>4, <2>2
<1>5. CASE key.st = "open" /\ \E x \in Judges : key' = Opened(x, key.cancel, key.log)
  <2>1. PICK x \in Judges : key' = Opened(x, key.cancel, key.log)
    BY <1>5
  <2>2. key'.st = "open" /\ key'.log = key.log
    BY <1>0, <2>1, OpenedKey
  <2> QED BY <1>1, <1>5, <2>2
<1>6. CASE key.st = "open" /\ \E b \in BOOLEAN : key' = Ended("failed", b)
  <2>1. key'.st = "failed" /\ key'.log = key.log
    BY <1>0, <1>6, OtherKeys
  <2> QED BY <1>1, <1>6, <2>1
<1>7. CASE key.st = "open" /\ key' = Ended("finished", FALSE) /\ key.log \in finals'
  <2>1. key'.st = "finished" /\ key'.log = key.log
    BY <1>0, <1>7, OtherKeys
  <2> QED BY <1>1, <1>7, <2>1
<1>8. CASE /\ key.st = "open" /\ key.drain \in Drains /\ Len(key.log) < MaxRecords
           /\ key' = [key EXCEPT !.log = Append(@, key.drain)]
  <2>1. key'.st = "open" /\ key'.log = Append(key.log, key.drain)
    BY <1>0, <1>8 DEF Keys
  <2>2. IsPrefix(got[q], Append(key.log, key.drain))
    BY <1>0, <1>1, <1>8, PrefixGrows
  <2> QED BY <2>1, <2>2
<1>9. CASE key.st # "absent" /\ \E b \in BOOLEAN : key' = [key EXCEPT !.aged = b]
  <2>1. key'.st = key.st /\ key'.log = key.log
    BY <1>0, <1>9 DEF Keys
  <2> QED BY <1>1, <1>9, <2>1
<1>10. CASE key.st = "open" /\ key' = [key EXCEPT !.cancel = TRUE, !.aged = FALSE]
  <2>1. key'.st = key.st /\ key'.log = key.log
    BY <1>0, <1>10 DEF Keys
  <2> QED BY <1>1, <1>10, <2>1
<1>11. CASE key.st \in {"open", "finished", "failed"} /\ key' = Marker
  BY <1>0, <1>11, OtherKeys
<1>12. CASE key.st = "removed" /\ key' = NoKey /\ deleted' = TRUE
  BY <1>12
<1> QED BY <1>2, <1>3, <1>4, <1>5, <1>6, <1>7, <1>8, <1>9, <1>10, <1>11, <1>12 DEF KeyMove

\* Every step but a reader's page.
LEMMA QuietKeepsInv ==
  ASSUME JournalInv, KeyMove, ActorsMove, UNCHANGED <<got, met>>,
         finals \subseteq finals', finals' \subseteq Seq(Drains),
         deleted' \in BOOLEAN, deleted => deleted', troubles' \in 0..MaxTroubles
  PROVE  JournalInv'
<1>0. JournalShape /\ KeyIsWhole /\ ReadersFollow /\ JournalTypeOK /\ key \in Keys
  BY DEF JournalInv, JournalShape, JournalTypeOK, Keys, KeyStates
<1>1. key' \in Keys /\ Len(key'.log) <= MaxRecords /\ KeyIsWhole'
  BY <1>0, KeyMoveType DEF JournalTypeOK
<1>2. JournalShape' /\ VersionsTell'
  BY <1>0, <1>1 DEF JournalShape, JournalTypeOK, ActorsMove, Keys, KeyStates
<1>3. ReadersFollow'
  <2>1. ASSUME ~deleted', NEW q \in Readers
        PROVE  /\ pc'[q] = "end" => got'[q] \in finals'
               /\ key'.st \in {"open", "finished", "failed"} => IsPrefix(got'[q], key'.log)
               /\ key'.st = "absent" => got'[q] = <<>>
    <3>1. q \in Actors
      BY DEF Actors, Clients
    <3>2. pc'[q] = "end" => got'[q] \in finals'
      BY <1>0, <2>1, <3>1 DEF ReadersFollow, ReplayIsWhole, ActorsMove
    <3> QED BY <2>1, <3>2, MovesKeepPrefixes
  <2> QED BY <2>1 DEF ReadersFollow, ReplayIsWhole
<1> QED BY <1>1, <1>2, <1>3 DEF JournalInv

\* Every step is a move of the key, and what it does to the actors keeps what they know
\* (journal.ts acquire, JournalWriter, cancel, remove, expire).
QuietMove ==
  /\ KeyMove /\ ActorsMove /\ UNCHANGED <<got, met>>
  /\ finals \subseteq finals' /\ finals' \subseteq Seq(Drains)
  /\ deleted' \in BOOLEAN /\ (deleted => deleted') /\ troubles' \in 0..MaxTroubles

LEMMA QuietSteps ==
  ASSUME JournalInv, JournalNext, \A q \in Readers : ~ReadPage(q)
  PROVE  QuietMove
<1>0. /\ JournalShape /\ VersionsTell /\ KeyIsWhole /\ JournalTypeOK /\ key \in Keys
      /\ DOMAIN pc = Actors /\ at \in [Actors -> BOOLEAN]
  BY DEF JournalInv, JournalShape, JournalTypeOK, Keys, KeyStates
<1>a. /\ finals \subseteq Seq(Drains) /\ deleted \in BOOLEAN /\ troubles \in 0..MaxTroubles
      /\ MaxTroubles \in Nat /\ key.log \in Seq(Drains)
      /\ key.aged \in BOOLEAN /\ key.cancel \in BOOLEAN
  BY <1>0, JournalConstants DEF JournalTypeOK, Keys
<1>b. /\ \A x \in Judges : x \in Actors
      /\ \A d \in Drains : d \in Judges /\ d \in Actors
      /\ \A q \in Readers : q \in Actors
      /\ \A c \in Cancels : c \in Actors
      /\ \A r \in Removals : r \in Actors
      /\ Keeper \in Actors
  BY DEF Actors, Clients, Judges
<1>c. \A x \in Actors : at[x] = TRUE => pc[x] \in Presenting /\ Knows(key, x, pc[x])
  BY <1>0 DEF VersionsTell
<1>d. ASSUME NoRead, NoHistory, NoTrouble, KeyMove, ActorsMove
      PROVE  QuietMove
  BY <1>a, <1>d DEF NoRead, NoHistory, NoTrouble, QuietMove
<1>e. ASSUME NEW x \in Judges
      PROVE  /\ \A k \in {Opened(x, FALSE, <<>>), Opened(x, FALSE, key.log),
                          Opened(x, key.cancel, key.log)} : Knows(k, x, Claimed(x))
             /\ OnlyDrains(x, Claimed(x)) /\ Claimed(x) # "end"
  <2>1. <<>> \in Seq(Drains) /\ FALSE \in BOOLEAN
    OBVIOUS
  <2>2. \A c \in BOOLEAN, l \in Seq(Drains) :
          /\ Opened(x, c, l).st = "open"
          /\ x \in Drains => Opened(x, c, l).drain = x
    BY OpenedKey
  <2>3. \A k : k.st = "open" /\ (x \in Drains => k.drain = x) => Knows(k, x, Claimed(x))
    BY DEF Knows, Claimed
  <2>4. OnlyDrains(x, Claimed(x)) /\ Claimed(x) # "end"
    BY DEF OnlyDrains, Claimed
  <2> QED BY <1>a, <2>1, <2>2, <2>3, <2>4
<1>1. ASSUME NEW x \in Judges, ClaimKey(x) PROVE KeyMove /\ ActorsMove
  <2>1. CASE key.st = "absent"
    <3>1. Advances(x, "put", Claimed(x)) /\ Puts(x, Opened(x, FALSE, <<>>))
      BY <1>1, <2>1 DEF ClaimKey
    <3>2. /\ DOMAIN pc' = Actors /\ pc'[x] = Claimed(x)
          /\ \A y \in Actors : y # x => pc'[y] = pc[y]
      BY <1>0, <1>b, <3>1, AdvancesTo
    <3>3. key' = Opened(x, FALSE, <<>>)
          /\ at' = [y \in Actors |-> y = x /\ pc'[x] \in Presenting]
      BY <3>1 DEF Puts
    <3>4. at' \in [Actors -> BOOLEAN]
      BY <3>3, Zenon
    <3>5. \A y \in Actors : at'[y] = TRUE => y = x /\ pc'[x] \in Presenting
      BY <3>3, Zenon
    <3>6. KeyMove
      BY <2>1, <3>3 DEF KeyMove
    <3>7. VersionsTell'
      BY <1>0, <1>e, <3>2, <3>3, <3>5 DEF VersionsTell
    <3> QED BY <1>e, <3>2, <3>4, <3>6, <3>7 DEF ActorsMove
  <2>2. CASE key.st # "absent"
    <3>1. Advances(x, "put", "judge") /\ UNCHANGED <<key, at>>
      BY <1>1, <2>2 DEF ClaimKey
    <3>2. pc[x] = "put"
      BY <3>1 DEF Advances
    <3>3. at[x] # TRUE
      BY <1>b, <1>c, <3>2 DEF Presenting
    <3> QED BY <1>b, <3>1, <3>3, QuietStep DEF OnlyDrains
  <2> QED BY <2>1, <2>2
<1>2. ASSUME NEW x \in Judges, JudgeKey(x) PROVE KeyMove /\ ActorsMove
  <2>1. OnlyDrains(x, Verdict(x)) /\ Verdict(x) # "end"
    BY DEF OnlyDrains, Verdict
  <2>2. Verdict(x) \in Presenting => Knows(key, x, Verdict(x))
    BY DEF Verdict, Knows, Presenting, LiveKey
  <2>3. Advances(x, "judge", Verdict(x)) /\ Reads(x)
    BY <1>2 DEF JudgeKey
  <2> QED BY <1>b, <2>1, <2>2, <2>3, ReadStep DEF ActorsMove
<1>3. ASSUME NEW x \in Judges, LoseWriter(x) PROVE KeyMove /\ ActorsMove
  <2>1. Ended("failed", TRUE).st = "failed"
    BY <1>0, OtherKeys
  <2>2. Knows(Ended("failed", TRUE), x, "take") /\ "ended" \notin Presenting
    BY <2>1 DEF Knows, Presenting
  <2>3. ASSUME key.st = "open", key' = Ended("failed", TRUE) PROVE KeyMove
    BY <2>3 DEF KeyMove
  <2>4. CASE Cas(x, "lose", Ended("failed", TRUE), "ended", "put")
    <3>1. pc[x] = "lose"
      BY <2>4 DEF Cas, Advances
    <3>2. at[x] = TRUE => key.st = "open"
      BY <1>b, <1>c, <3>1 DEF Knows
    <3> QED BY <1>b, <2>2, <2>3, <2>4, <3>2, CasStep DEF OnlyDrains
  <2>5. CASE Cas(x, "loseFirst", Ended("failed", TRUE), "take", "put")
    <3>1. pc[x] = "loseFirst"
      BY <2>5 DEF Cas, Advances
    <3>2. at[x] = TRUE => key.st = "open"
      BY <1>b, <1>c, <3>1 DEF Knows
    <3> QED BY <1>b, <2>2, <2>3, <2>5, <3>2, CasStep DEF OnlyDrains
  <2> QED BY <1>3, <2>4, <2>5 DEF LoseWriter
<1>4. ASSUME NEW x \in Judges, TakeOver(x) PROVE KeyMove /\ ActorsMove
  <2>1. Cas(x, "take", Opened(x, FALSE, key.log), Claimed(x), "put")
    BY <1>4 DEF TakeOver
  <2>2. pc[x] = "take"
    BY <2>1 DEF Cas, Advances
  <2>3. at[x] = TRUE => key.st = "failed"
    BY <1>b, <1>c, <2>2 DEF Knows
  <2>4. at[x] = TRUE /\ key' = Opened(x, FALSE, key.log) => KeyMove
    BY <2>3 DEF KeyMove
  <2>5. OnlyDrains(x, "put")
    BY DEF OnlyDrains
  <2> QED BY <1>b, <1>e, <2>1, <2>4, <2>5, CasStep
<1>5. ASSUME NEW x \in Judges, Adopt(x) PROVE KeyMove /\ ActorsMove
  <2>1. Cas(x, "adopt", Opened(x, key.cancel, key.log), "drain", "put")
    BY <1>5 DEF Adopt
  <2>2. pc[x] = "adopt"
    BY <2>1 DEF Cas, Advances
  <2>3. x \in Drains /\ (at[x] = TRUE => key.st = "open")
    BY <1>0, <1>b, <2>2 DEF Knows, VersionsTell, OnlyDrains
  <2>4. at[x] = TRUE /\ key' = Opened(x, key.cancel, key.log) => KeyMove
    BY <2>3 DEF KeyMove
  <2>5. OnlyDrains(x, "put") /\ OnlyDrains(x, "drain")
    BY <2>3 DEF OnlyDrains
  <2>6. Knows(Opened(x, key.cancel, key.log), x, "drain")
    BY <1>e, <2>3 DEF Claimed
  <2> QED BY <1>b, <2>1, <2>4, <2>5, <2>6, CasStep
<1>f. ASSUME NEW d \in Drains, pc[d] = "drain" \/ pc[d] = "failing", at[d] = TRUE
      PROVE  key.st = "open" /\ key.drain = d
  BY <1>b, <1>c, <1>f DEF Knows
<1>6. ASSUME NEW d \in Drains, AppendRecord(d) PROVE KeyMove /\ ActorsMove
  <2> DEFINE new == [key EXCEPT !.log = Append(@, d)]
  <2>1. Cas(d, "drain", new, "drain", "refused") /\ Len(key.log) < MaxRecords
    BY <1>6 DEF AppendRecord
  <2>2. pc[d] = "drain"
    BY <2>1 DEF Cas, Advances
  <2>3. new.st = key.st /\ new.drain = key.drain
    BY <1>0 DEF Keys
  <2>4. at[d] = TRUE /\ key' = new => KeyMove
    BY <1>f, <2>1, <2>2 DEF KeyMove
  <2>5. OnlyDrains(d, "drain") /\ OnlyDrains(d, "refused")
    BY DEF OnlyDrains
  <2> HIDE DEF new
  <2>6. CASE at[d] = TRUE
    <3>1. Knows(new, d, "drain")
      BY <1>f, <2>2, <2>3, <2>6 DEF Knows
    <3> QED BY <1>b, <2>1, <2>4, <2>5, <3>1, CasStep
  <2>7. CASE at[d] # TRUE
    <3>1. Advances(d, "drain", "refused") /\ UNCHANGED <<key, at>>
      BY <1>0, <1>b, <2>1, <2>7 DEF Cas
    <3> QED BY <1>b, <2>5, <2>7, <3>1, QuietStep
  <2> QED BY <2>6, <2>7
<1>7. ASSUME NEW d \in Drains, AnswerLost(d)
      PROVE  KeyMove /\ ActorsMove /\ UNCHANGED <<got, met, finals, deleted>>
             /\ troubles' \in 0..MaxTroubles
  <2>1. /\ Advances(d, "drain", "failing") /\ at[d] = TRUE /\ Len(key.log) < MaxRecords
        /\ key' = [key EXCEPT !.log = Append(@, d)] /\ at' = [x \in Actors |-> FALSE]
        /\ troubles < MaxTroubles /\ troubles' = troubles + 1
        /\ UNCHANGED <<got, met, finals, deleted>>
    BY <1>0, <1>b, <1>7 DEF AnswerLost, NoRead, NoHistory
  <2>2. /\ DOMAIN pc' = Actors /\ pc[d] = "drain" /\ pc'[d] = "failing"
        /\ \A y \in Actors : y # d => pc'[y] = pc[y]
    BY <1>0, <1>b, <2>1, AdvancesTo
  <2>3. key.st = "open" /\ key.drain = d
    BY <1>f, <2>1, <2>2
  <2>4. KeyMove
    BY <2>1, <2>3 DEF KeyMove
  <2>5. ActorsMove
    BY <1>0, <2>1, <2>2 DEF ActorsMove, VersionsTell, OnlyDrains
  <2>6. troubles' \in 0..MaxTroubles
    BY <1>a, <2>1
  <2> QED BY <2>1, <2>4, <2>5, <2>6
<1>8. ASSUME NEW d \in Drains, TouchKey(d) PROVE KeyMove /\ ActorsMove
  <2> DEFINE new == [key EXCEPT !.aged = FALSE]
  <2>1. Cas(d, "drain", new, "drain", "refused")
    BY <1>8 DEF TouchKey
  <2>2. pc[d] = "drain"
    BY <2>1 DEF Cas, Advances
  <2>3. new.st = key.st /\ new.drain = key.drain
    BY <1>0 DEF Keys
  <2>4. at[d] = TRUE /\ key' = new => KeyMove
    BY <1>f, <2>2 DEF KeyMove
  <2>5. OnlyDrains(d, "drain") /\ OnlyDrains(d, "refused")
    BY DEF OnlyDrains
  <2> HIDE DEF new
  <2>6. CASE at[d] = TRUE
    <3>1. Knows(new, d, "drain")
      BY <1>f, <2>2, <2>3, <2>6 DEF Knows
    <3> QED BY <1>b, <2>1, <2>4, <2>5, <3>1, CasStep
  <2>7. CASE at[d] # TRUE
    <3>1. Advances(d, "drain", "refused") /\ UNCHANGED <<key, at>>
      BY <1>0, <1>b, <2>1, <2>7 DEF Cas
    <3> QED BY <1>b, <2>5, <2>7, <3>1, QuietStep
  <2> QED BY <2>6, <2>7
<1>9. ASSUME NEW d \in Drains, AskRefusal(d) PROVE KeyMove /\ ActorsMove
  <2>1. Advances(d, "refused", Refusal(d)) /\ UNCHANGED <<key, at>>
    BY <1>9 DEF AskRefusal
  <2>2. pc[d] = "refused"
    BY <2>1 DEF Advances
  <2>3. at[d] # TRUE
    BY <1>b, <1>c, <2>2 DEF Presenting
  <2>4. OnlyDrains(d, Refusal(d)) /\ Refusal(d) # "end"
    BY DEF OnlyDrains, Refusal
  <2> QED BY <1>b, <2>1, <2>3, <2>4, QuietStep
<1>10. ASSUME NEW d \in Drains, WatchForCancel(d) PROVE KeyMove /\ ActorsMove
  <2>1. Advances(d, "drain", Refusal(d)) /\ key' = key /\ at' = [at EXCEPT ![d] = FALSE]
    BY <1>10 DEF WatchForCancel
  <2>2. at'[d] # TRUE
    BY <1>0, <1>b, <2>1
  <2>3. OnlyDrains(d, Refusal(d)) /\ Refusal(d) # "end"
    BY DEF OnlyDrains, Refusal
  <2> QED BY <1>b, <2>1, <2>2, <2>3, QuietStep
<1>11. ASSUME NEW d \in Drains, FinishKey(d)
       PROVE  /\ KeyMove /\ ActorsMove /\ UNCHANGED <<got, met, deleted, troubles>>
              /\ finals \subseteq finals' /\ finals' \subseteq Seq(Drains)
  <2>1. /\ Cas(d, "drain", Ended("finished", FALSE), "done", "refused")
        /\ finals' = (IF at[d] THEN finals \cup {key.log} ELSE finals)
        /\ UNCHANGED <<got, met, deleted, troubles>>
    BY <1>11 DEF FinishKey, NoRead, NoTrouble
  <2>2. pc[d] = "drain"
    BY <2>1 DEF Cas, Advances
  <2>3. finals \subseteq finals' /\ finals' \subseteq Seq(Drains)
    BY <1>a, <2>1
  <2>4. at[d] = TRUE /\ key' = Ended("finished", FALSE) => KeyMove
    <3>1. at[d] = TRUE => key.log \in finals'
      BY <2>1
    <3> QED BY <1>f, <2>2, <3>1 DEF KeyMove
  <2>5. OnlyDrains(d, "done") /\ OnlyDrains(d, "refused") /\ "done" \notin Presenting
    BY DEF OnlyDrains, Presenting
  <2>6. KeyMove /\ ActorsMove
    BY <1>b, <2>1, <2>4, <2>5, CasStep
  <2> QED BY <2>1, <2>3, <2>6
<1>12. ASSUME NEW d \in Drains, InputFails(d) PROVE KeyMove /\ ActorsMove
  <2>1. Advances(d, "drain", "failing") /\ UNCHANGED <<key, at>>
    BY <1>12 DEF InputFails
  <2>2. pc[d] = "drain"
    BY <2>1 DEF Advances
  <2>3. at'[d] = TRUE => "failing" \in Presenting /\ Knows(key, d, "failing")
    BY <1>f, <2>1, <2>2 DEF Presenting, Knows
  <2> QED BY <1>b, <2>1, <2>3, QuietStep DEF OnlyDrains
<1>g. ASSUME NEW x \in Actors, NEW from, NEW then, NEW else, NEW b \in BOOLEAN,
             from \in {"failing", "cancelled", "stale", "lose"},
             then \in {"failed", "stopped", "page", "answered", "read"},
             else \in {"failed", "stopped", "page", "answered", "read"},
             Cas(x, from, Ended("failed", b), then, else)
      PROVE  KeyMove /\ ActorsMove
  <2>1. pc[x] = from
    BY <1>g DEF Cas, Advances
  <2>2. at[x] = TRUE => key.st = "open"
    BY <1>c, <1>g, <2>1 DEF Knows
  <2>3. at[x] = TRUE /\ key' = Ended("failed", b) => KeyMove
    BY <2>2 DEF KeyMove
  <2>4. /\ OnlyDrains(x, then) /\ OnlyDrains(x, else) /\ then \notin Presenting
        /\ then # "end" /\ else # "end"
    BY <1>g DEF OnlyDrains, Presenting
  <2> QED BY <1>g, <2>3, <2>4, CasStep
<1>13. ASSUME NEW d \in Drains, FailKey(d) PROVE KeyMove /\ ActorsMove
  BY <1>13, <1>b, <1>g DEF FailKey
<1>14. ASSUME NEW d \in Drains, ReadRequest(d) PROVE KeyMove /\ ActorsMove
  <2>1. CASE key.st = "open" /\ key.cancel /\ OwnKey(d)
    <3>1. Advances(d, "cancelling", "cancelled") /\ Reads(d)
      BY <1>14, <2>1 DEF ReadRequest
    <3>2. Knows(key, d, "cancelled") /\ OnlyDrains(d, "cancelled")
      BY <2>1 DEF Knows, OnlyDrains
    <3> QED BY <1>b, <3>1, <3>2, ReadStep DEF ActorsMove
  <2>2. CASE ~(key.st = "open" /\ key.cancel /\ OwnKey(d))
    <3>1. Advances(d, "cancelling", "stopped") /\ Reads(d)
      BY <1>14, <2>2 DEF ReadRequest
    <3>2. "stopped" \notin Presenting /\ OnlyDrains(d, "stopped")
      BY DEF Presenting, OnlyDrains
    <3> QED BY <1>b, <3>1, <3>2, ReadStep DEF ActorsMove
  <2> QED BY <2>1, <2>2
<1>15. ASSUME NEW d \in Drains, FailCancelled(d) PROVE KeyMove /\ ActorsMove
  BY <1>15, <1>b, <1>g DEF FailCancelled
<1>16. ASSUME NEW d \in Drains, DrainDies(d)
       PROVE  KeyMove /\ ActorsMove /\ UNCHANGED <<got, met, finals, deleted>>
              /\ troubles' \in 0..MaxTroubles
  <2>1. /\ Advances(d, pc[d], "dead") /\ key' = key /\ at' = [at EXCEPT ![d] = FALSE]
        /\ troubles < MaxTroubles /\ troubles' = troubles + 1
        /\ UNCHANGED <<got, met, finals, deleted>>
    BY <1>16 DEF DrainDies, Advances, NoRead, NoHistory
  <2>2. at'[d] # TRUE
    BY <1>0, <1>b, <2>1
  <2>3. KeyMove /\ ActorsMove
    BY <1>b, <2>1, <2>2, QuietStep DEF OnlyDrains
  <2>4. troubles' \in 0..MaxTroubles
    BY <1>a, <2>1
  <2> QED BY <2>1, <2>3, <2>4
<1>17. ASSUME NEW q \in Readers, ReaderLoses(q) PROVE KeyMove /\ ActorsMove
  BY <1>17, <1>b, <1>g DEF ReaderLoses
<1>18. ASSUME NEW c \in Cancels, ReadForCancel(c) PROVE KeyMove /\ ActorsMove
  <2> DEFINE to == IF key.st # "open" \/ (key.cancel /\ ~key.aged) THEN "answered"
                   ELSE IF key.aged THEN "lose" ELSE "mark"
  <2>1. Advances(c, "read", to) /\ Reads(c)
    BY <1>18 DEF ReadForCancel
  <2>2. OnlyDrains(c, to) /\ to # "end" /\ (to \in Presenting => Knows(key, c, to))
    BY <1>a DEF OnlyDrains, Knows, Presenting
  <2> HIDE DEF to
  <2> QED BY <1>b, <2>1, <2>2, ReadStep DEF ActorsMove
<1>19. ASSUME NEW c \in Cancels, MarkCancel(c) PROVE KeyMove /\ ActorsMove
  <2>1. CASE Cas(c, "lose", Ended("failed", TRUE), "answered", "read")
    BY <1>b, <1>g, <2>1
  <2>2. CASE Cas(c, "mark", [key EXCEPT !.cancel = TRUE, !.aged = FALSE], "answered", "read")
    <3>1. pc[c] = "mark"
      BY <2>2 DEF Cas, Advances
    <3>2. at[c] = TRUE => key.st = "open"
      BY <1>b, <1>c, <3>1 DEF Knows
    <3>3. at[c] = TRUE /\ key' = [key EXCEPT !.cancel = TRUE, !.aged = FALSE] => KeyMove
      BY <3>2 DEF KeyMove
    <3>4. OnlyDrains(c, "answered") /\ OnlyDrains(c, "read") /\ "answered" \notin Presenting
      BY DEF OnlyDrains, Presenting
    <3> QED BY <1>b, <2>2, <3>3, <3>4, CasStep
  <2> QED BY <1>19, <2>1, <2>2 DEF MarkCancel
<1>20. ASSUME NEW r \in Removals, ReadForRemoval(r) PROVE KeyMove /\ ActorsMove
  <2> DEFINE to == IF key.st \in {"absent", "removed"} THEN "answered" ELSE "remove"
  <2>1. Advances(r, "read", to) /\ Reads(r)
    BY <1>20 DEF ReadForRemoval
  <2>2. OnlyDrains(r, to) /\ to # "end" /\ (to \in Presenting => Knows(key, r, to))
    BY <1>0 DEF OnlyDrains, Knows, Presenting, Keys, KeyStates
  <2> HIDE DEF to
  <2> QED BY <1>b, <2>1, <2>2, ReadStep DEF ActorsMove
<1>h. ASSUME NEW x \in Actors, NEW then \in {"answered", "read"},
             Cas(x, "remove", Marker, then, "read")
      PROVE  KeyMove /\ ActorsMove
  <2>1. pc[x] = "remove"
    BY <1>h DEF Cas, Advances
  <2>2. at[x] = TRUE => key.st \in {"open", "finished", "failed"}
    BY <1>c, <2>1 DEF Knows
  <2>3. at[x] = TRUE /\ key' = Marker => KeyMove
    BY <2>2 DEF KeyMove
  <2>4. OnlyDrains(x, then) /\ OnlyDrains(x, "read") /\ then \notin Presenting /\ then # "end"
    BY DEF OnlyDrains, Presenting
  <2> QED BY <1>h, <2>3, <2>4, CasStep
<1>21. ASSUME NEW r \in Removals, Truncate(r) PROVE KeyMove /\ ActorsMove
  BY <1>21, <1>b, <1>h DEF Truncate
<1>22. CASE ScanKey
  <2> DEFINE to == CASE key.st = "open" -> "lose" [] key.st = "removed" -> "delete"
                     [] OTHER -> "remove"
  <2>1. Advances(Keeper, "read", to) /\ Reads(Keeper) /\ key.aged
    BY <1>22 DEF ScanKey
  <2>2. key.st # "absent"
    BY <1>0, <2>1 DEF KeyIsWhole, NoKey
  <2>3. OnlyDrains(Keeper, to) /\ to # "end" /\ (to \in Presenting => Knows(key, Keeper, to))
    BY <1>0, <2>2 DEF OnlyDrains, Knows, Presenting, Keys, KeyStates
  <2> HIDE DEF to
  <2>4. KeyMove /\ ActorsMove
    BY <1>b, <2>1, <2>3, ReadStep DEF ActorsMove
  <2> QED BY <1>22, <1>d, <2>4 DEF ScanKey
<1>23. CASE ExpireKey
  <2>1. deleted' = (deleted \/ (pc[Keeper] = "delete" /\ at[Keeper]))
        /\ UNCHANGED <<finals, got, met, troubles>>
    BY <1>23 DEF ExpireKey, NoRead, NoTrouble
  <2>2. deleted' \in BOOLEAN /\ (deleted => deleted')
    BY <1>0, <1>a, <1>b, <2>1
  <2>3. KeyMove /\ ActorsMove
    <3>1. CASE Cas(Keeper, "lose", Ended("failed", TRUE), "read", "read")
      BY <1>b, <1>g, <3>1
    <3>2. CASE Cas(Keeper, "remove", Marker, "read", "read")
      BY <1>b, <1>h, <3>2
    <3>3. CASE Cas(Keeper, "delete", NoKey, "read", "read")
      <4>1. pc[Keeper] = "delete"
        BY <3>3 DEF Cas, Advances
      <4>2. at[Keeper] = TRUE => key.st = "removed" /\ deleted' = TRUE
        BY <1>b, <1>c, <2>1, <2>2, <4>1 DEF Knows
      <4>3. at[Keeper] = TRUE /\ key' = NoKey => KeyMove
        BY <4>2 DEF KeyMove
      <4>4. OnlyDrains(Keeper, "read") /\ "read" \notin Presenting
        BY DEF OnlyDrains, Presenting
      <4> QED BY <1>b, <3>3, <4>3, <4>4, CasStep
    <3> QED BY <1>23, <3>1, <3>2, <3>3 DEF ExpireKey
  <2> QED BY <1>a, <2>1, <2>2, <2>3 DEF QuietMove
<1>24. CASE HeaderAges
  <2>1. /\ key.st # "absent" /\ key' = [key EXCEPT !.aged = TRUE]
        /\ UNCHANGED <<at, pc, got, met, finals, deleted>>
    BY <1>24 DEF HeaderAges, NoRead, NoHistory
  <2>2. troubles' \in 0..MaxTroubles
    BY <1>24, <1>a DEF HeaderAges, NoTrouble
  <2>3. KeyMove
    BY <2>1 DEF KeyMove
  <2>4. key'.st = key.st /\ key'.drain = key.drain
    BY <1>0, <2>1 DEF Keys
  <2>5. ActorsMove
    BY <1>0, <2>1, <2>4 DEF ActorsMove, VersionsTell, Knows
  <2> QED BY <1>a, <2>1, <2>2, <2>3, <2>5 DEF QuietMove
<1>25. CASE \E x \in Judges : ClaimKey(x) \/ JudgeKey(x) \/ LoseWriter(x) \/ TakeOver(x) \/ Adopt(x)
  <2>1. PICK x \in Judges : ClaimKey(x) \/ JudgeKey(x) \/ LoseWriter(x) \/ TakeOver(x) \/ Adopt(x)
    BY <1>25
  <2>2. NoRead /\ NoHistory /\ NoTrouble
    BY <2>1 DEF ClaimKey, JudgeKey, LoseWriter, TakeOver, Adopt
  <2>3. KeyMove /\ ActorsMove
    BY <1>1, <1>2, <1>3, <1>4, <1>5, <2>1
  <2> QED BY <1>d, <2>2, <2>3
<1>26. ASSUME NEW d \in Drains, DrainStep(d) \/ DrainDies(d) PROVE QuietMove
  <2>1. CASE AnswerLost(d) \/ DrainDies(d)
    BY <1>7, <1>16, <1>a, <2>1 DEF QuietMove
  <2>2. CASE FinishKey(d)
    BY <1>11, <1>a, <2>2 DEF QuietMove
  <2>3. CASE \/ AppendRecord(d) \/ TouchKey(d) \/ AskRefusal(d) \/ WatchForCancel(d)
             \/ InputFails(d) \/ FailKey(d) \/ ReadRequest(d) \/ FailCancelled(d)
    <3>1. NoRead /\ NoHistory /\ NoTrouble
      BY <2>3 DEF AppendRecord, TouchKey, AskRefusal, WatchForCancel, InputFails, FailKey,
                  ReadRequest, FailCancelled
    <3>2. KeyMove /\ ActorsMove
      BY <1>6, <1>8, <1>9, <1>10, <1>12, <1>13, <1>14, <1>15, <2>3
    <3> QED BY <1>d, <3>1, <3>2
  <2> QED BY <1>26, <2>1, <2>2, <2>3 DEF DrainStep
<1>27. ASSUME NEW x, \/ x \in Readers /\ ReaderLoses(x)
                     \/ x \in Cancels /\ (ReadForCancel(x) \/ MarkCancel(x))
                     \/ x \in Removals /\ (ReadForRemoval(x) \/ Truncate(x))
       PROVE QuietMove
  <2>1. NoRead /\ NoHistory /\ NoTrouble
    BY <1>27 DEF ReaderLoses, ReadForCancel, MarkCancel, ReadForRemoval, Truncate
  <2>2. KeyMove /\ ActorsMove
    BY <1>17, <1>18, <1>19, <1>20, <1>21, <1>27
  <2> QED BY <1>d, <2>1, <2>2
<1> QED BY <1>22, <1>23, <1>24, <1>25, <1>26, <1>27 DEF JournalNext

\* A page is what comes next in the log; the end is only told with the last of a key that
\* finished (journal.ts JournalReader.accept).
LEMMA PageStep ==
  ASSUME JournalInv, NEW q \in Readers, ReadPage(q)
  PROVE  JournalInv' /\ key' = key
<1>0. /\ JournalShape /\ VersionsTell /\ KeyIsWhole /\ ReadersFollow /\ JournalTypeOK
      /\ key \in Keys /\ DOMAIN pc = Actors /\ q \in Actors
  BY DEF JournalInv, JournalShape, JournalTypeOK, Keys, KeyStates, Actors, Clients
<1>a. /\ key.log \in Seq(Drains) /\ Len(key.log) \in Nat /\ got[q] \in Seq(Drains)
      /\ Len(got[q]) \in Nat /\ PageSize \in Nat /\ PageSize > 0
      /\ got \in [Readers -> Seq(Drains)]
  BY <1>0, LenProperties, JournalConstants DEF Keys, JournalTypeOK
<1>1. /\ Advances(q, "page", Follows(q)) /\ Reads(q)
      /\ got' = [got EXCEPT ![q] = @ \o PageOf(q)] /\ met' \subseteq Readers
      /\ UNCHANGED <<finals, deleted, troubles>>
  BY <1>0 DEF ReadPage, NoHistory, NoTrouble, JournalTypeOK
<1>2. OnlyDrains(q, Follows(q)) /\ (Follows(q) \in Presenting => Knows(key, q, Follows(q)))
  <2>1. Follows(q) \in {"gone", "page", "end", "raised", "stale"}
        /\ (Follows(q) = "stale" => key.st = "open")
    BY <1>0 DEF Follows, FullPage, Keys, KeyStates
  <2> QED BY <2>1 DEF OnlyDrains, Presenting, Knows
<1>3. /\ KeyMove /\ DOMAIN pc' = Actors /\ at' \in [Actors -> BOOLEAN] /\ VersionsTell'
      /\ pc'[q] = Follows(q) /\ \A y \in Actors : y # q => pc'[y] = pc[y]
  BY <1>0, <1>1, <1>2, ReadStep
<1>4. key' = key
  BY <1>1 DEF Reads
<1> DEFINE n == IF Len(got[q]) + PageSize < Len(key.log) THEN Len(got[q]) + PageSize
                ELSE Len(key.log)
           more == got[q] \o PageOf(q)
<1>5. PageOf(q) = SubSeq(key.log, Len(got[q]) + 1, n)
  BY DEF PageOf
<1>6. more \in Seq(Drains)
  <2>1. PageOf(q) \in Seq(Drains)
    BY <1>5, <1>a
  <2> QED BY <1>a, <2>1
<1>7. got' \in [Readers -> Seq(Drains)] /\ got'[q] = more
      /\ \A y \in Readers : y # q => got'[y] = got[y]
  BY <1>1, <1>6, <1>a
<1>8. ASSUME ~deleted, key.st \in {"open", "finished", "failed"}
      PROVE  /\ IsPrefix(more, key.log)
             /\ Len(PageOf(q)) # PageSize => more = key.log
  <2>1. IsPrefix(got[q], key.log)
    BY <1>0, <1>8 DEF ReadersFollow, ReplayIsWhole
  <2>2. Len(got[q]) <= Len(key.log)
    BY <1>a, <2>1 DEF IsPrefix
  <2>3. n \in Len(got[q])..Len(key.log) /\ n \in Nat
    BY <1>a, <2>2
  <2>4. Len(PageOf(q)) = n - Len(got[q])
    <3>1. \A m \in Len(got[q])..Len(key.log) :
             Len(SubSeq(key.log, Len(got[q]) + 1, m)) = m - Len(got[q])
      BY <1>a
    <3> QED BY <1>5, <2>3, <3>1
  <2>5. Len(PageOf(q)) # PageSize => n = Len(key.log)
    BY <1>a, <2>4
  <2> HIDE DEF n
  <2>6. IsPrefix(more, key.log) /\ (n = Len(key.log) => more = key.log)
    BY <1>a, <1>5, <2>1, <2>3, PrefixPages
  <2> QED BY <2>5, <2>6
<1>9. ASSUME key.st = "absent", ~deleted PROVE more = <<>>
  <2>1. got[q] = <<>> /\ key.log = <<>>
    BY <1>0, <1>9, OtherKeys DEF ReadersFollow, KeyIsWhole
  <2>2. PageOf(q) = <<>>
    BY <2>1, <1>a DEF PageOf
  <2> QED BY <2>1, <2>2
<1> HIDE DEF n, more
<1>10. ReadersFollow'
  <2>1. ASSUME ~deleted, NEW y \in Readers
        PROVE  /\ pc'[y] = "end" => got'[y] \in finals
               /\ key.st \in {"open", "finished", "failed"} => IsPrefix(got'[y], key.log)
               /\ key.st = "absent" => got'[y] = <<>>
    <3>0. y \in Actors
      BY DEF Actors, Clients
    <3>1. CASE y # q
      BY <1>0, <1>3, <1>7, <2>1, <3>0, <3>1 DEF ReadersFollow, ReplayIsWhole
    <3>2. CASE y = q
      <4>1. Follows(q) = "end" => key.st = "finished" /\ Len(PageOf(q)) # PageSize
        BY DEF Follows, FullPage
      <4>2. pc'[q] = "end" => more \in finals
        BY <1>0, <1>3, <1>8, <2>1, <4>1 DEF KeyIsWhole
      <4> QED BY <1>7, <1>8, <1>9, <2>1, <3>2, <4>2
    <3> QED BY <3>1, <3>2
  <2> QED BY <1>1, <1>4, <2>1 DEF ReadersFollow, ReplayIsWhole
<1>11. JournalShape' /\ KeyIsWhole'
  BY <1>0, <1>1, <1>3, <1>4, <1>7 DEF JournalShape, JournalTypeOK, KeyIsWhole
<1> QED BY <1>3, <1>4, <1>10, <1>11 DEF JournalInv

LEMMA JournalStep ==
  ASSUME JournalInv, [JournalNext]_journalVars
  PROVE  JournalInv' /\ KeyMove
<1>1. CASE \E q \in Readers : ReadPage(q)
  <2>1. PICK q \in Readers : ReadPage(q)
    BY <1>1
  <2> QED BY <2>1, PageStep DEF KeyMove
<1>2. CASE JournalNext /\ \A q \in Readers : ~ReadPage(q)
  <2>1. QuietMove
    BY <1>2, QuietSteps
  <2> QED BY <2>1, QuietKeepsInv DEF QuietMove
<1>3. CASE UNCHANGED journalVars
  BY <1>3 DEF journalVars, JournalInv, JournalShape, JournalTypeOK, VersionsTell, KeyIsWhole,
              ReadersFollow, ReplayIsWhole, KeyMove
<1> QED BY <1>1, <1>2, <1>3

\* Whatever a caller writes at the version it read, the key is as it read it, and what a
\* reader holds agrees with the key (journal.ts acquire, JournalWriter, JournalReader).
THEOREM JournalInvariant == JournalSpec => []JournalInv
<1>1. JournalInv /\ [JournalNext]_journalVars => JournalInv'
  BY JournalStep
<1> QED BY <1>1, JournalStart, PTL DEF JournalSpec

\* A reader told that the stream ended got all of it, and one that still reads got a
\* prefix, for any drains, readers and page size (journal.ts JournalReader.accept).
THEOREM JournalReplay == JournalSpec => []ReplayIsWhole
<1>1. JournalInv => ReplayIsWhole
  BY DEF JournalInv, ReadersFollow
<1> QED BY <1>1, JournalInvariant, PTL

\* Only the drain the key is open under appends, a finished key stays finished, and a
\* requested cancel stays requested (journal.ts acquire, JournalWriter).
LEMMA StepFollows ==
  ASSUME JournalInv, [JournalNext]_journalVars
  PROVE  [/\ Len(key'.log) > Len(key.log) =>
               key.st = "open" /\ key' = [key EXCEPT !.log = Append(@, key.drain)]
          /\ key.st = "finished" => key'.st \in {"finished", "removed"}
          /\ key.st = "open" /\ key.cancel /\ key'.st = "open" => key'.cancel]_journalVars
<1>1. key \in Keys /\ Len(key.log) <= MaxRecords /\ KeyIsWhole
  BY DEF JournalInv, JournalShape, JournalTypeOK, Keys, KeyStates
<1> QED BY <1>1, JournalStep, MovesFollow

\* The same, as a property of every behaviour: what drains that lost the key still do never
\* reaches its log (journal.ts acquire, JournalWriter).
THEOREM JournalFollows == JournalSpec => KeyFollowsItsDrain
<1>1. JournalInv /\ [JournalNext]_journalVars =>
        [/\ Len(key'.log) > Len(key.log) =>
              key.st = "open" /\ key' = [key EXCEPT !.log = Append(@, key.drain)]
         /\ key.st = "finished" => key'.st \in {"finished", "removed"}
         /\ key.st = "open" /\ key.cancel /\ key'.st = "open" => key'.cancel]_journalVars
  BY StepFollows
<1> QED BY <1>1, JournalInvariant, PTL DEF JournalSpec, KeyFollowsItsDrain
==============================================================================
