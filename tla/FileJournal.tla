----------------------------- MODULE FileJournal -----------------------------
(***************************************************************************)
(* The file journal, for one run: a file of lines, appended and flushed by *)
(* the one process that owns the directory.  A fan-out of the body and the *)
(* deliveries to the run append concurrently; an abrupt exit or a power    *)
(* loss may leave a partial final line, which the first append of the next *)
(* process removes.                                                        *)
(*                                                                         *)
(* One file operation is one step.  A line is what it says (a path whose   *)
(* entry it is, or a status of the run) and who wrote it.                  *)
(***************************************************************************)
EXTENDS Naturals, Sequences

CONSTANTS
  Branches,    \* the concurrent steps of the body, each its own path
  Deliveries,  \* calls of DurableLocal.Deliver to the run
  Worker,      \* the execution of the run
  Unwritten,   \* nobody
  MaxExits     \* bound on abrupt exits and power losses

Answer == "answer"                   \* the path of the body's one wait
Paths == Branches \cup {Answer}
Status == {"running", "parked", "completed"}
Writers == Branches \cup Deliveries \cup {Worker}

ASSUME FileConstants ==
  /\ MaxExits \in Nat
  /\ Branches \cap (Deliveries \cup Status \cup {Answer, Worker, "corrupt"}) = {}
  /\ Deliveries \cap {Worker} = {}

VARIABLES
  file,      \* the run's file: whole lines, and what follows the last newline
  synced,    \* how many of its lines a power loss cannot take
  repaired,  \* this process has dealt with a torn tail (#repaired)
  writing,   \* writing[x]: where x's call of the journal stands
  seen,      \* the paths the worker found recorded when it opened the run
  exits,     \* exits so far
  acked,     \* history: the entries an append returned as written
  collided   \* history: a repair cut off a line written since it looked

fileVars == <<file, synced, repaired, writing, seen, exits, acked, collided>>

\* Two executions produce different values, so an entry names its author.
Authors == Writers \X (0..MaxExits)
Line == [what : Paths \cup Status \cup {"corrupt"}, by : Authors]
LineOf(what, x) == [what |-> what, by |-> <<x, exits>>]

AppendStates == {"idle", "header", "working", "found", "repair", "truncate", "write", "sync",
               "returned", "done"}
NoWrite == [st |-> "idle", line |-> "running", cut |-> 0]

FileInit ==
  /\ file = [exists |-> FALSE, lines |-> <<>>, torn |-> FALSE]
  /\ synced = 0
  /\ repaired = FALSE
  /\ writing = [x \in Writers |-> NoWrite]
  /\ seen = {}
  /\ exits = 0
  /\ acked = {}
  /\ collided = FALSE

-----------------------------------------------------------------------------
(* Reading: readLines drops a partial final line. *)

LinesAt(what) == SelectSeq(file.lines, LAMBDA l : l.what \in what)

\* Mutant: the last entry at a path counts.
Recorded_Last(p) ==
  IF LinesAt({p}) = <<>> THEN Unwritten ELSE LinesAt({p})[Len(LinesAt({p}))].by

\* readEntries: the first entry at a path.
Recorded(p) == IF LinesAt({p}) = <<>> THEN Unwritten ELSE Head(LinesAt({p})).by
\* recordOf: the last run line.
RunStatus == LET runLines == LinesAt(Status)
             IN IF runLines = <<>> THEN "none" ELSE runLines[Len(runLines)].what
RecordedPaths == {p \in Paths : Recorded(p) # Unwritten}

-----------------------------------------------------------------------------
(* appendLine. *)

Stage(x, st) == writing' = [writing EXCEPT ![x].st = st]

\* Mutant: the run counts as repaired before it is.
BeginLine_MarkedFirst(x, what) ==
  /\ writing' = [writing EXCEPT ![x] = [st |-> IF repaired THEN "write" ELSE "repair",
                                        line |-> what, cut |-> 0]]
  /\ repaired' = TRUE

BeginLine(x, what) ==
  /\ writing' = [writing EXCEPT ![x] = [st |-> IF repaired THEN "write" ELSE "repair",
                                        line |-> what, cut |-> 0]]
  /\ UNCHANGED repaired

\* repairTornTail reads the bytes and finds the last newline ...
RepairLook(x) ==
  /\ writing[x].st = "repair"
  /\ IF file.torn
     THEN /\ writing' = [writing EXCEPT ![x].st = "truncate", ![x].cut = Len(file.lines)]
          /\ UNCHANGED repaired
     ELSE Stage(x, "write") /\ repaired' = TRUE
  /\ UNCHANGED <<file, synced, seen, exits, acked, collided>>

\* ... and truncates the file there.
RepairCut(x) ==
  /\ writing[x].st = "truncate"
  /\ file' = [file EXCEPT !.lines = SubSeq(@, 1, writing[x].cut), !.torn = FALSE]
  /\ synced' = IF synced > writing[x].cut THEN writing[x].cut ELSE synced
  /\ collided' = (collided \/ Len(file.lines) > writing[x].cut)
  /\ repaired' = TRUE
  /\ Stage(x, "write")
  /\ UNCHANGED <<seen, exits, acked>>

\* appendFile: onto a partial line it makes one line of the two.
Write(x) ==
  /\ writing[x].st = "write"
  /\ file' = [file EXCEPT
       !.lines = Append(@, LineOf(IF file.torn THEN "corrupt" ELSE writing[x].line, x)),
       !.torn = FALSE]
  /\ Stage(x, "sync")
  /\ UNCHANGED <<synced, repaired, seen, exits, acked, collided>>

\* Mutant: the append is not flushed.
Sync_Skipped(x) ==
  /\ writing[x].st = "sync"
  /\ acked' = IF writing[x].line \in Paths THEN acked \cup {<<writing[x].line, <<x, exits>>>>}
              ELSE acked
  /\ Stage(x, "returned")
  /\ UNCHANGED <<file, synced, repaired, seen, exits, collided>>

\* handle.sync(), then the call returns.
Sync(x) ==
  /\ writing[x].st = "sync"
  /\ synced' = Len(file.lines)
  /\ acked' = IF writing[x].line \in Paths THEN acked \cup {<<writing[x].line, <<x, exits>>>>}
              ELSE acked
  /\ Stage(x, "returned")
  /\ UNCHANGED <<file, repaired, seen, exits, collided>>

\* append: a path already recorded is answered with its entry.
AppendEntry(x, p) ==
  IF Recorded(p) # Unwritten
  THEN /\ writing' = [writing EXCEPT ![x].st = "returned", ![x].line = p]
       /\ UNCHANGED repaired
  ELSE BeginLine(x, p)

-----------------------------------------------------------------------------
(* The execution of the run. *)

\* admitRun: the exclusive create is the admission ...
Create ==
  /\ writing[Worker].st = "idle" /\ ~file.exists
  /\ file' = [file EXCEPT !.exists = TRUE]
  /\ Stage(Worker, "header")
  /\ UNCHANGED <<synced, repaired, seen, exits, acked, collided>>

\* ... and the header follows it, flushed.
Header ==
  /\ writing[Worker].st = "header"
  /\ file' = [file EXCEPT !.lines = <<LineOf("running", Worker)>>]
  /\ synced' = 1
  /\ Stage(Worker, "working")
  /\ seen' = {}
  /\ UNCHANGED <<repaired, exits, acked, collided>>

\* A run that is due, or that exists without being settled or parked, is claimed by
\* the resumer or by an attaching caller and opened.
IsDue ==
  \/ RunStatus = "running"
  \/ RunStatus = "parked" /\ Recorded(Answer) # Unwritten

OpenRun ==
  /\ writing[Worker].st = "idle" /\ file.exists
  /\ IsDue \/ RunStatus = "none"
  /\ Stage(Worker, "working")
  /\ seen' = RecordedPaths
  /\ UNCHANGED <<file, synced, repaired, exits, acked, collided>>

\* A branch performed its step, which the record did not have, and appends it.
Branch(b) ==
  /\ writing[Worker].st = "working" /\ b \notin seen
  /\ writing[b].st = "idle"
  /\ AppendEntry(b, b)
  /\ UNCHANGED <<file, synced, seen, exits, acked, collided>>

\* The branches are done: the body parks at its wait, or completes.
Leave ==
  /\ writing[Worker].st = "working"
  /\ \A b \in Branches \ seen : writing[b].st = "returned"
  /\ BeginLine(Worker, IF Answer \in seen THEN "completed" ELSE "parked")
  /\ UNCHANGED <<file, synced, seen, exits, acked, collided>>

\* parkRun and completeRun give the claim back.
Left ==
  /\ writing[Worker].st = "returned"
  /\ writing' = [x \in Writers |-> IF x \in Deliveries THEN writing[x] ELSE NoWrite]
  /\ UNCHANGED <<file, synced, repaired, seen, exits, acked, collided>>

-----------------------------------------------------------------------------
(* DurableLocal.Deliver. *)

\* runParkedOn finds the run by its token.
Lookup(d) ==
  /\ writing[d].st = "idle" /\ RunStatus = "parked"
  /\ Stage(d, "found")
  /\ UNCHANGED <<file, synced, repaired, seen, exits, acked, collided>>

AppendAnswer(d) ==
  /\ writing[d].st = "found"
  /\ AppendEntry(d, Answer)
  /\ UNCHANGED <<file, synced, seen, exits, acked, collided>>

\* unparkRun writes `running`, whatever status it read.
Unpark(d) ==
  /\ writing[d].st = "returned" /\ writing[d].line = Answer
  /\ BeginLine(d, "running")
  /\ UNCHANGED <<file, synced, seen, exits, acked, collided>>

Delivered(d) ==
  /\ writing[d].st = "returned" /\ writing[d].line = "running"
  /\ Stage(d, "done")
  /\ UNCHANGED <<file, synced, repaired, seen, exits, acked, collided>>

-----------------------------------------------------------------------------
(* Exits. *)

\* The next process knows nothing of the last one's calls.
Restart ==
  /\ exits < MaxExits
  /\ exits' = exits + 1
  /\ repaired' = FALSE
  /\ seen' = {}
  /\ writing' = [x \in Writers |->
       IF x \in Deliveries /\ writing[x].st # "idle" THEN [NoWrite EXCEPT !.st = "done"]
       ELSE NoWrite]
  /\ UNCHANGED <<acked, collided>>

\* An abrupt exit: a write under way may leave a partial line.
Killed ==
  /\ Restart
  /\ file.exists
  /\ \E torn \in BOOLEAN :
       /\ torn => \E x \in Writers : writing[x].st \in {"write", "header"}
       /\ file' = [file EXCEPT !.torn = @ \/ torn]
  /\ UNCHANGED synced

\* A power loss also takes lines that were not flushed.
PowerLost ==
  /\ Restart
  /\ file.exists
  /\ \E kept \in synced..Len(file.lines), torn \in BOOLEAN :
       /\ kept < Len(file.lines)
       /\ file' = [file EXCEPT !.lines = SubSeq(@, 1, kept), !.torn = torn]
  /\ UNCHANGED synced

FileNext ==
  \/ \E x \in Writers : RepairLook(x) \/ RepairCut(x) \/ Write(x) \/ Sync(x)
  \/ Create \/ Header \/ OpenRun \/ Leave \/ Left
  \/ \E b \in Branches : Branch(b)
  \/ \E d \in Deliveries : Lookup(d) \/ AppendAnswer(d) \/ Unpark(d) \/ Delivered(d)
  \/ Killed \/ PowerLost

FileSpec == FileInit /\ [][FileNext]_fileVars

-----------------------------------------------------------------------------
(* Properties. *)

FileTypeOK ==
  /\ file.lines \in Seq(Line) /\ file.exists \in BOOLEAN /\ file.torn \in BOOLEAN
  /\ synced \in 0..Len(file.lines)
  /\ repaired \in BOOLEAN /\ collided \in BOOLEAN
  /\ writing \in [Writers -> [st : AppendStates, line : Paths \cup Status, cut : Nat]]
  /\ seen \subseteq Paths
  /\ exits \in 0..MaxExits
  /\ acked \subseteq Paths \X Authors

\* No sequence of torn writes, power losses, restarts and overlapping appends leaves an
\* unreadable line in the file, so readLines never answers ERR_DURABLE_JOURNAL_CORRUPT
\* (journal.ts repairTornTail, "fuses the two records into one unparseable line").
StaysReadable == \A i \in 1..Len(file.lines) : file.lines[i].what # "corrupt"

\* What a path reads as once its entry was answered for is what every later reader
\* gets, whatever is appended, torn or lost with the power after it, unless two repairs
\* of the same tail overlapped (journal.ts appendLine, readEntries, "replays the same
\* one every time").
HistoryStays ==
  [][\A p \in Paths : (\E e \in acked : e[1] = p) /\ ~collided'
                        => Recorded(p)' = Recorded(p)]_fileVars

-----------------------------------------------------------------------------
(* Statements of the source and the documentation that the code does not keep. *)

\* README.md, "the whole job is that everything already finished survives an abrupt
\* exit": two first appends that both found the torn tail truncate it twice, and the
\* second one takes what the first has written and flushed.
FinishedSurvives ==
  \A e \in acked : \E i \in 1..Len(file.lines) :
    file.lines[i].what = e[1] /\ file.lines[i].by = e[2]

\* journal.ts append, "Within one process this is exact": an append answers with what
\* the path holds, so that two writers converge.
AppendExact ==
  ~collided => \A e \in acked : Recorded(e[1]) = e[2]

\* journal.ts isDue, "`running` is a run whose process died - admitted and never
\* settled": a run that was completed does not read as running.
SettledStays ==
  [][RunStatus = "completed" /\ exits' = exits => RunStatus' = "completed"]_fileVars
==============================================================================
