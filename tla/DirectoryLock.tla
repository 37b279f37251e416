---------------------------- MODULE DirectoryLock ----------------------------
(***************************************************************************)
(* withDirectoryLock, for one directory: the callers of a process take     *)
(* turns, and the one whose turn it is takes `<dir>/.lock` by an exclusive *)
(* create.  The holder refreshes the file's mtime; a waiter that finds it  *)
(* silent for too long renames it away and tries again.                    *)
(*                                                                         *)
(* One file operation is one step.  The file system knows the lock by its  *)
(* path alone: refreshing, renaming and removing act on the file that is   *)
(* there, whoever made it.                                                 *)
(***************************************************************************)
EXTENDS Naturals

CONSTANTS
  Fleet,         \* the processes, each the set of its calls of withDirectoryLock
  NoFile,        \* the lock file is absent
  MaxSilences,   \* bound on mtimes growing old under a holder that lives
  MaxCrashes     \* bound on processes ending

Callers == UNION Fleet

ASSUME LockConstants ==
  /\ \A p, q \in Fleet : p \cap q # {} => p = q
  /\ NoFile \notin [by : Callers, fresh : BOOLEAN]
  /\ {MaxSilences, MaxCrashes} \subseteq Nat

VARIABLES
  lockFile,   \* the file at lockPath: who made it, and whether its mtime is recent
  caller,     \* caller[c]: where the call stands
  raced,      \* history: a rename took another file than the one found stale
  silences,   \* so far
  crashes     \* so far

lockVars == <<lockFile, caller, raced, silences, crashes>>

\* The caller of its process whose turn it is.
Turn == {"open", "write", "stat", "rename", "sleep", "fn", "rm"}
InLock == {"write", "fn", "rm"}

LockInit ==
  /\ lockFile = NoFile
  /\ caller = [c \in Callers |-> "queued"]
  /\ raced = FALSE
  /\ silences = 0 /\ crashes = 0

Steps(c, from, to) ==
  /\ caller[c] = from
  /\ caller' = [caller EXCEPT ![c] = to]

\* withLocalQueue: one caller of a process at a time reaches the file.
TakeTurn(c) ==
  /\ \A p \in Fleet : c \in p => \A d \in p : caller[d] \notin Turn
  /\ Steps(c, "queued", "open")
  /\ UNCHANGED <<lockFile, raced, silences, crashes>>

\* Mutant: the file is opened whether or not it exists.
OpenLock_Shared(c) ==
  /\ Steps(c, "open", "write")
  /\ lockFile' = [by |-> c, fresh |-> TRUE]
  /\ UNCHANGED <<raced, silences, crashes>>

\* fs.open(lockPath, "wx").
OpenLock(c) ==
  /\ IF lockFile = NoFile
     THEN Steps(c, "open", "write") /\ lockFile' = [by |-> c, fresh |-> TRUE]
     ELSE Steps(c, "open", "stat") /\ UNCHANGED lockFile
  /\ UNCHANGED <<raced, silences, crashes>>

\* The body of the file is written.
WriteBody(c) ==
  /\ Steps(c, "write", "fn")
  /\ UNCHANGED <<lockFile, raced, silences, crashes>>

\* A file operation fails otherwise and the call raises; a file it made stays.
Raises(c) ==
  /\ caller[c] \in {"open", "write", "stat", "rename"}
  /\ caller' = [caller EXCEPT ![c] = "raised"]
  /\ UNCHANGED <<lockFile, raced, silences, crashes>>

\* reclaimIfStale: only a file whose mtime is old is renamed.
StatLock(c) ==
  /\ Steps(c, "stat", IF lockFile = NoFile THEN "open"
                      ELSE IF lockFile.fresh THEN "sleep" ELSE "rename")
  /\ UNCHANGED <<lockFile, raced, silences, crashes>>

\* The rename takes what is at the path by now; ENOENT sends the caller round again.
RenameLock(c) ==
  /\ Steps(c, "rename", "open")
  /\ raced' = (raced \/ (lockFile # NoFile /\ lockFile.fresh))
  /\ lockFile' = NoFile
  /\ UNCHANGED <<silences, crashes>>

\* A waiter tries again, or has waited for too long.
Wake(c) ==
  /\ \E to \in {"open", "raised"} : Steps(c, "sleep", to)
  /\ UNCHANGED <<lockFile, raced, silences, crashes>>

\* The heartbeat.
Refresh(c) ==
  /\ caller[c] = "fn"
  /\ lockFile # NoFile /\ ~lockFile.fresh
  /\ lockFile' = [lockFile EXCEPT !.fresh = TRUE]
  /\ UNCHANGED <<caller, raced, silences, crashes>>

\* fn settles, and the file is removed; a failure to do so is only logged.
FnSettles(c) ==
  /\ Steps(c, "fn", "rm")
  /\ UNCHANGED <<lockFile, raced, silences, crashes>>
RemoveLock(c) ==
  /\ Steps(c, "rm", "done")
  /\ lockFile' \in {NoFile, lockFile}
  /\ UNCHANGED <<raced, silences, crashes>>

\* The mtime grows old: nobody refreshes the file of a holder that is gone; that of a
\* holder that lives goes unrefreshed when its process is held up.
GrowsOld ==
  /\ lockFile # NoFile /\ lockFile.fresh
  /\ lockFile' = [lockFile EXCEPT !.fresh = FALSE]
  /\ IF \E c \in Callers : caller[c] \in InLock
     THEN silences < MaxSilences /\ silences' = silences + 1
     ELSE UNCHANGED silences
  /\ UNCHANGED <<caller, raced, crashes>>

\* A process ends, with all its callers.
Crash(p) ==
  /\ crashes < MaxCrashes
  /\ \E c \in p : caller[c] \in Turn
  /\ crashes' = crashes + 1
  /\ caller' = [c \in Callers |-> IF c \in p /\ caller[c] \in Turn \cup {"queued"}
                                  THEN "gone" ELSE caller[c]]
  /\ UNCHANGED <<lockFile, raced, silences>>

LockNext ==
  \/ \E c \in Callers :
       TakeTurn(c) \/ OpenLock(c) \/ WriteBody(c) \/ Raises(c) \/ StatLock(c) \/ RenameLock(c)
         \/ Wake(c) \/ Refresh(c) \/ FnSettles(c) \/ RemoveLock(c)
  \/ GrowsOld
  \/ \E p \in Fleet : Crash(p)

LockSpec == LockInit /\ [][LockNext]_lockVars

-----------------------------------------------------------------------------
(* Properties. *)

LockTypeOK ==
  /\ lockFile \in [by : Callers, fresh : BOOLEAN] \cup {NoFile}
  /\ caller \in [Callers -> Turn \cup {"queued", "raised", "done", "gone"}]
  /\ raced \in BOOLEAN
  /\ silences \in 0..MaxSilences /\ crashes \in 0..MaxCrashes

Excluded == \A c, d \in Callers : caller[c] = "fn" /\ caller[d] = "fn" => c = d

\* As long as every holder that lives refreshes its file in time, no two callers populate
\* the directory together, across processes, crashes and reclaims, unless a waiter renamed
\* another file than the one it had found stale (directory-lock.ts withFileLock).
LockExcludes == silences = 0 /\ ~raced => Excluded

-----------------------------------------------------------------------------
(* A statement of the source that the code does not keep. *)

\* directory-lock.ts, "Reclaim is via atomic rename to a unique tombstone so two waiters
\* that both see the lock stale can't both win": the first one's new lock is what the
\* second one renames.
ReclaimedByOne == silences = 0 => Excluded
==============================================================================
