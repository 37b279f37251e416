------------------------------- MODULE KvStore -------------------------------
(***************************************************************************)
(* KvStore.Store and the claim protocol KeyedClaim runs over it.  A key    *)
(* holds one cell; each operation of the contract is one atomic step at    *)
(* the backend, so it is an operator from the cell it finds to the cell it *)
(* leaves.  A cell whose TTL has passed reads as absent.                   *)
(*                                                                         *)
(* A version is whatever the writer says it is: the contract only promises *)
(* that no two writes have the same.                                       *)
(***************************************************************************)
CONSTANTS
  NoCell,   \* the key is absent
  Nobody    \* no claimer

\* What a key holds: a claim by one owner, or a terminal record.  The retained
\* value is that of the call that settled it, so `holder` names the value too.
Cell(holder, settled, version) ==
  [holder |-> holder, settled |-> settled, version |-> version, live |-> TRUE]
Cells(holders, versions) ==
  [holder : holders, settled : BOOLEAN, version : versions, live : BOOLEAN]

Live(cell) == cell # NoCell /\ cell.live

\* putIfAbsent answers the new revision when the key is free.
PutIfAbsent(cell, new) == IF Live(cell) THEN cell ELSE new

\* The condition of compareAndSet and of compareAndDelete.
Current(cell, version) == Live(cell) /\ cell.version = version

CompareAndSet(cell, version, new) == IF Current(cell, version) THEN new ELSE cell
CompareAndDelete(cell, version) == IF Current(cell, version) THEN NoCell ELSE cell

\* A TTL passes.
Lapsed(cell) == [cell EXCEPT !.live = FALSE]

\* The owner of a live claim; a terminal record is nobody's.
Claimant(cell) == IF Live(cell) /\ ~cell.settled THEN cell.holder ELSE Nobody
==============================================================================
