---------------------------- MODULE RecordJournal ----------------------------
(***************************************************************************)
(* RecordStream.Journal, for one key: drains that claim it and append      *)
(* their input to its log, reservations made ahead of a drain, readers     *)
(* that replay and follow the log, cancel requests, removals and expiry.   *)
(*                                                                         *)
(* An operation of the store is one step; whatever runs between two of     *)
(* them interleaves.  Versions are never used twice, so all that matters   *)
(* of the one a caller presents is whether the key is still at it.  While  *)
(* it is, the key is as that caller read it.                               *)
(***************************************************************************)
EXTENDS Naturals, Sequences, FiniteSets, SequencesExt

CONSTANTS
  Drains,        \* calls of JournalSink
  Named,         \* the drains that come with the `writer` the reservations name
  Resuming,      \* the drains and reservations with `resume: true`
  Reservations,  \* calls of JournalClaim
  Readers,       \* readers from id 0
  Cancels,       \* calls of JournalCancel
  Removals,      \* calls of JournalRemoval
  Keeper,        \* JournalExpiry
  Writer,        \* the name of Named and Reservations
  NoDrain,       \* no drain recorded
  PageSize,      \* PAGE_SIZE
  MaxCalls,      \* bound on the calls that come, the expiry aside
  MaxRecords,    \* bound on the length of the log
  MaxTroubles    \* bound on drains held up past their timeout, ending, losing an answer

Judges == Drains \cup Reservations
Clients == Judges \cup Readers \cup Cancels \cup Removals
Actors == Clients \cup {Keeper}

ASSUME JournalConstants ==
  /\ Named \subseteq Drains /\ Resuming \subseteq Judges
  /\ {PageSize, MaxCalls, MaxRecords, MaxTroubles} \subseteq Nat /\ PageSize > 0
  /\ Writer \notin Drains /\ NoDrain \notin Drains

VARIABLES
  key,       \* the key: its header, and its log as the drains that appended
  at,        \* at[x]: the version x presents is the key's
  pc,        \* pc[x]: where x stands
  got,       \* got[q]: what reader q has been given
  met,       \* the readers that have seen the key
  finals,    \* history: the logs the key finished with
  deleted,   \* history: a marker was deleted
  troubles   \* so far

journalVars == <<key, at, pc, got, met, finals, deleted, troubles>>

HolderOf(x) == IF x \in Named \cup Reservations THEN Writer ELSE x
Drain(x) == IF x \in Drains THEN x ELSE NoDrain

NoKey == [st |-> "absent", holder |-> NoDrain, drain |-> NoDrain, cancel |-> FALSE,
           lost |-> FALSE, aged |-> FALSE, log |-> <<>>]
Marker == [st |-> "removed", holder |-> NoDrain, drain |-> NoDrain, cancel |-> FALSE,
           lost |-> FALSE, aged |-> FALSE, log |-> <<>>]

\* The headers acquire(), failLost() and the writer leave, all with a new age.
Opened(x, cancel, log) ==
  [st |-> "open", holder |-> HolderOf(x), drain |-> Drain(x), cancel |-> cancel,
   lost |-> FALSE, aged |-> FALSE, log |-> log]
Ended(st, lost) == [key EXCEPT !.st = st, !.lost = lost, !.cancel = FALSE, !.aged = FALSE]

JournalInit ==
  /\ key = NoKey
  /\ at = [x \in Actors |-> FALSE]
  /\ \E come \in {s \in SUBSET Clients : Cardinality(s) <= MaxCalls} :
       pc = [x \in Actors |-> CASE x \in Clients \ come -> "away"
                                [] x \in Judges \cap come -> "put"
                                [] x \in Readers \cap come -> "page"
                                [] OTHER -> "read"]
  /\ got = [q \in Readers |-> <<>>]
  /\ met = {} /\ finals = {}
  /\ deleted = FALSE /\ troubles = 0

\* Where the next operation presents a version.
Presenting == {"lose", "loseFirst", "take", "adopt", "drain", "failing", "cancelled",
               "stale", "mark", "remove", "delete"}

Advances(x, from, to) ==
  /\ pc[x] = from
  /\ pc' = [pc EXCEPT ![x] = to]

\* x writes the key, and every other version is now an old one; x reads it.
Puts(x, new) ==
  /\ key' = new
  /\ at' = [y \in Actors |-> y = x /\ pc'[x] \in Presenting]
Reads(x) ==
  /\ at' = [at EXCEPT ![x] = pc'[x] \in Presenting]
  /\ UNCHANGED key

\* Mutant: the condition of a write is not looked at.
Cas_Unchecked(x, from, new, then, else) ==
  Advances(x, from, then) /\ Puts(x, new)

\* A conditional write, with what follows when it is done and when the key has moved.
Cas(x, from, new, then, else) ==
  IF at[x] THEN Advances(x, from, then) /\ Puts(x, new)
  ELSE Advances(x, from, else) /\ UNCHANGED <<key, at>>

NoRead == UNCHANGED <<got, met>>
NoHistory == UNCHANGED <<finals, deleted>>
NoTrouble == UNCHANGED troubles

-----------------------------------------------------------------------------
(* acquire(), of a drain and of a reservation. *)

Claimed(x) == IF x \in Drains THEN "drain" ELSE "reserved"

ClaimKey(x) ==
  /\ IF key.st = "absent"
     THEN Advances(x, "put", Claimed(x)) /\ Puts(x, Opened(x, FALSE, <<>>))
     ELSE Advances(x, "put", "judge") /\ UNCHANGED <<key, at>>
  /\ NoRead /\ NoHistory /\ NoTrouble

LiveKey == key.st = "open" /\ ~key.aged

\* What the header that was read calls for.
Verdict(x) ==
  LET mine  == key.holder = HolderOf(x)
      knows == x \in Reservations /\ mine /\ key.drain # NoDrain
  IN CASE key.st = "absent"  -> "put"
       [] key.st = "removed" -> "removed"
       [] key.st \in {"finished", "failed"} /\ knows -> "ended"
       [] key.st = "open" /\ key.aged /\ knows -> "lose"
       [] LiveKey /\ mine /\ x \in Reservations -> "reserved"
       [] LiveKey /\ mine /\ x \in Drains \ Reservations /\ key.drain = NoDrain -> "adopt"
       [] key.st = "failed" /\ ~knows /\ x \in Resuming -> "take"
       [] key.st = "open" /\ key.aged /\ ~knows /\ x \in Resuming -> "loseFirst"
       [] OTHER -> "busy"

JudgeKey(x) ==
  /\ Advances(x, "judge", Verdict(x))
  /\ Reads(x)
  /\ NoRead /\ NoHistory /\ NoTrouble

\* failLost: of a reservation whose drain died, and ahead of a takeover.
LoseWriter(x) ==
  /\ \/ Cas(x, "lose", Ended("failed", TRUE), "ended", "put")
     \/ Cas(x, "loseFirst", Ended("failed", TRUE), "take", "put")
  /\ NoRead /\ NoHistory /\ NoTrouble

TakeOver(x) ==
  /\ Cas(x, "take", Opened(x, FALSE, key.log), Claimed(x), "put")
  /\ NoRead /\ NoHistory /\ NoTrouble

\* Mutant: the adopting drain writes its own header over the request.
Adopt_Forgets(x) ==
  /\ Cas(x, "adopt", Opened(x, FALSE, key.log), "drain", "put")
  /\ NoRead /\ NoHistory /\ NoTrouble

\* A cancel requested before the drain adopted the key stays requested.
Adopt(x) ==
  /\ Cas(x, "adopt", Opened(x, key.cancel, key.log), "drain", "put")
  /\ NoRead /\ NoHistory /\ NoTrouble

-----------------------------------------------------------------------------
(* JournalSink.drain: one operation of the writer at a time. *)

\* compareAndAppend does not touch the header's age.
AppendRecord(d) ==
  /\ Len(key.log) < MaxRecords
  /\ Cas(d, "drain", [key EXCEPT !.log = Append(@, d)], "drain", "refused")
  /\ NoRead /\ NoHistory /\ NoTrouble

\* The record is appended and the answer is lost: the drain fails at its old version.
AnswerLost(d) ==
  /\ troubles < MaxTroubles /\ Len(key.log) < MaxRecords /\ at[d]
  /\ Advances(d, "drain", "failing")
  /\ key' = [key EXCEPT !.log = Append(@, d)]
  /\ at' = [x \in Actors |-> FALSE]
  /\ troubles' = troubles + 1
  /\ NoRead /\ NoHistory

\* The heartbeat rewrites the header the drain opened the key with.
TouchKey(d) ==
  /\ key.aged \/ ~at[d]
  /\ Cas(d, "drain", [key EXCEPT !.aged = FALSE], "drain", "refused")
  /\ NoRead /\ NoHistory /\ NoTrouble

\* refusal(): why the write was refused.
OwnKey(d) == key.holder = HolderOf(d) /\ key.drain = d
Refusal(d) ==
  IF key.st \in {"absent", "removed"} THEN "removed"
  ELSE IF ~OwnKey(d) THEN "busy"
  ELSE IF key.st = "failed" /\ key.lost THEN "lost"
  ELSE IF key.st = "open" /\ key.cancel THEN "cancelling" ELSE "failing"
AskRefusal(d) ==
  /\ Advances(d, "refused", Refusal(d))
  /\ UNCHANGED <<key, at>> /\ NoRead /\ NoHistory /\ NoTrouble

\* watchForCancel: a drain that waits for input learns what happened to its key.
WatchForCancel(d) ==
  /\ key.st \in {"absent", "removed"} \/ ~OwnKey(d) \/ (key.st = "open" /\ key.cancel)
  /\ Advances(d, "drain", Refusal(d))
  /\ at' = [at EXCEPT ![d] = FALSE]
  /\ UNCHANGED key /\ NoRead /\ NoHistory /\ NoTrouble

\* The input ends, or fails.
FinishKey(d) ==
  /\ Cas(d, "drain", Ended("finished", FALSE), "done", "refused")
  /\ finals' = IF at[d] THEN finals \cup {key.log} ELSE finals
  /\ UNCHANGED deleted /\ NoRead /\ NoTrouble
InputFails(d) ==
  /\ Advances(d, "drain", "failing")
  /\ UNCHANGED <<key, at>> /\ NoRead /\ NoHistory /\ NoTrouble

\* A failure that cannot be recorded is logged.
FailKey(d) ==
  /\ Cas(d, "failing", Ended("failed", FALSE), "failed", "failed")
  /\ NoRead /\ NoHistory /\ NoTrouble

\* failCancelled: at the version the request left the key.
ReadRequest(d) ==
  /\ IF key.st = "open" /\ key.cancel /\ OwnKey(d)
     THEN Advances(d, "cancelling", "cancelled")
     ELSE Advances(d, "cancelling", "stopped")
  /\ Reads(d) /\ NoRead /\ NoHistory /\ NoTrouble
FailCancelled(d) ==
  /\ Cas(d, "cancelled", Ended("failed", FALSE), "stopped", "stopped")
  /\ NoRead /\ NoHistory /\ NoTrouble

DrainStep(d) ==
  \/ AppendRecord(d) \/ AnswerLost(d) \/ TouchKey(d) \/ AskRefusal(d) \/ WatchForCancel(d)
  \/ FinishKey(d) \/ InputFails(d) \/ FailKey(d) \/ ReadRequest(d) \/ FailCancelled(d)

-----------------------------------------------------------------------------
(* JournalReader. *)

PageOf(q) == SubSeq(key.log, Len(got[q]) + 1,
                    IF Len(got[q]) + PageSize < Len(key.log) THEN Len(got[q]) + PageSize
                    ELSE Len(key.log))
FullPage(q) == Len(PageOf(q)) = PageSize

\* Mutant: what the state says is done before the rest of the log is fetched.
Follows_Early(q) ==
  CASE key.st = "absent"   -> IF q \in met THEN "gone" ELSE "page"
    [] key.st = "removed"  -> "gone"
    [] key.st = "finished" -> "end"
    [] key.st = "failed"   -> "raised"
    [] OTHER -> IF key.aged THEN "stale" ELSE "page"

\* accept(): a full page is followed by another, the last one by what the state says.
Follows(q) ==
  CASE key.st = "absent"   -> IF q \in met THEN "gone" ELSE "page"
    [] key.st = "removed"  -> "gone"
    [] key.st = "finished" /\ ~FullPage(q) -> "end"
    [] key.st = "failed" /\ ~FullPage(q)   -> "raised"
    [] OTHER -> IF key.aged /\ ~FullPage(q) THEN "stale" ELSE "page"

ReadPage(q) ==
  /\ Advances(q, "page", Follows(q))
  /\ got' = [got EXCEPT ![q] = @ \o PageOf(q)]
  /\ met' = IF key.st = "absent" THEN met ELSE met \cup {q}
  /\ Reads(q)
  /\ NoHistory /\ NoTrouble

\* checkStale: the key a reader waits on is failed when its writer went silent.
ReaderLoses(q) ==
  /\ Cas(q, "stale", Ended("failed", TRUE), "page", "page")
  /\ NoRead /\ NoHistory /\ NoTrouble

-----------------------------------------------------------------------------
(* Cancel, removal, expiry. *)

\* cancel(): what was read decides.
ReadForCancel(c) ==
  /\ Advances(c, "read", IF key.st # "open" \/ (key.cancel /\ ~key.aged) THEN "answered"
                     ELSE IF key.aged THEN "lose" ELSE "mark")
  /\ Reads(c)
  /\ NoRead /\ NoHistory /\ NoTrouble
MarkCancel(c) ==
  /\ \/ Cas(c, "mark", [key EXCEPT !.cancel = TRUE, !.aged = FALSE], "answered", "read")
     \/ Cas(c, "lose", Ended("failed", TRUE), "answered", "read")
  /\ NoRead /\ NoHistory /\ NoTrouble

ReadForRemoval(r) ==
  /\ Advances(r, "read", IF key.st \in {"absent", "removed"} THEN "answered" ELSE "remove")
  /\ Reads(r)
  /\ NoRead /\ NoHistory /\ NoTrouble
Truncate(r) ==
  /\ Cas(r, "remove", Marker, "answered", "read")
  /\ NoRead /\ NoHistory /\ NoTrouble

\* One pass of expire() finds the key when its header is old.
ScanKey ==
  /\ key.aged
  /\ Advances(Keeper, "read", CASE key.st = "open" -> "lose" [] key.st = "removed" -> "delete"
                            [] OTHER -> "remove")
  /\ Reads(Keeper)
  /\ NoRead /\ NoHistory /\ NoTrouble
ExpireKey ==
  /\ \/ Cas(Keeper, "lose", Ended("failed", TRUE), "read", "read")
     \/ Cas(Keeper, "remove", Marker, "read", "read")
     \/ Cas(Keeper, "delete", NoKey, "read", "read")
  /\ deleted' = (deleted \/ (pc[Keeper] = "delete" /\ at[Keeper]))
  /\ UNCHANGED finals /\ NoRead /\ NoTrouble

-----------------------------------------------------------------------------
(* Time and failures. *)

\* The header grows old, past the writer's timeout or the retention.  A drain that lives
\* refreshes it, unless its process is held up.
HeaderAges ==
  /\ key.st # "absent" /\ ~key.aged
  /\ key' = [key EXCEPT !.aged = TRUE]
  /\ IF key.st = "open" /\ key.drain # NoDrain /\ pc[key.drain] = "drain"
     THEN troubles < MaxTroubles /\ troubles' = troubles + 1
     ELSE NoTrouble
  /\ UNCHANGED <<at, pc>> /\ NoRead /\ NoHistory

DrainDies(d) ==
  /\ troubles < MaxTroubles
  /\ pc[d] \in {"drain", "refused", "failing", "cancelling", "cancelled"}
  /\ pc' = [pc EXCEPT ![d] = "dead"]
  /\ at' = [at EXCEPT ![d] = FALSE]
  /\ troubles' = troubles + 1
  /\ UNCHANGED key /\ NoRead /\ NoHistory

JournalNext ==
  \/ \E x \in Judges : ClaimKey(x) \/ JudgeKey(x) \/ LoseWriter(x) \/ TakeOver(x) \/ Adopt(x)
  \/ \E d \in Drains : DrainStep(d) \/ DrainDies(d)
  \/ \E q \in Readers : ReadPage(q) \/ ReaderLoses(q)
  \/ \E c \in Cancels : ReadForCancel(c) \/ MarkCancel(c)
  \/ \E r \in Removals : ReadForRemoval(r) \/ Truncate(r)
  \/ ScanKey \/ ExpireKey
  \/ HeaderAges

JournalSpec == JournalInit /\ [][JournalNext]_journalVars

-----------------------------------------------------------------------------
(* Properties. *)

JournalTypeOK ==
  /\ key \in [st : {"absent", "open", "finished", "failed", "removed"},
             holder : Drains \cup {Writer, NoDrain}, drain : Drains \cup {NoDrain},
             cancel : BOOLEAN, lost : BOOLEAN, aged : BOOLEAN, log : Seq(Drains)]
  /\ Len(key.log) <= MaxRecords
  /\ at \in [Actors -> BOOLEAN]
  /\ got \in [Readers -> Seq(Drains)]
  /\ met \subseteq Readers /\ finals \subseteq Seq(Drains)
  /\ deleted \in BOOLEAN /\ troubles \in 0..MaxTroubles

\* A reader that was told the stream ended got every record the key finished with, and one
\* that still reads has got a prefix of the log, across takeovers, lost writers, cancels and
\* removals (journal.ts JournalReader.accept).
ReplayIsWhole ==
  ~deleted => \A q \in Readers :
    /\ pc[q] = "end" => got[q] \in finals
    /\ key.st \in {"open", "finished", "failed"} => IsPrefix(got[q], key.log)

\* The log grows by the drain the key is open under and by nobody that lost it; a key
\* that finished never opens again; a cancel that was requested stays requested for as
\* long as the key is open, whoever adopts it (journal.ts acquire and JournalWriter).
KeyFollowsItsDrain == [][
  /\ Len(key'.log) > Len(key.log) =>
       key.st = "open" /\ key' = [key EXCEPT !.log = Append(@, key.drain)]
  /\ key.st = "finished" => key'.st \in {"finished", "removed"}
  /\ key.st = "open" /\ key.cancel /\ key'.st = "open" => key'.cancel]_journalVars

-----------------------------------------------------------------------------
(* Statements of the source that the code does not keep. *)

\* journal.ts cancel(), "which makes the writer's next append or heartbeat refused": a
\* drain that adopts a key already marked appends to it.
CancelStops == [][
  key.st = "open" /\ key.cancel /\ key'.st = "open" => key'.log = key.log]_journalVars

\* journal.ts JournalReader.accept, "never a short replay presented as finished": a key
\* whose marker was deleted and that was claimed again, both between two pages, ends for
\* the reader with what the two incarnations' logs happen to line up to.
NeverMixed == \A q \in Readers : pc[q] = "end" => got[q] \in finals
==============================================================================
