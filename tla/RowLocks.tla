------------------------------ MODULE RowLocks ------------------------------
(***************************************************************************)
(* SELECT ... FOR UPDATE in PostgreSQL, as Django issues it inside         *)
(* transaction.atomic at the default isolation level READ COMMITTED.       *)
(*                                                                         *)
(* A statement finds its rows in a snapshot taken when it starts, then     *)
(* locks them one after another, in no particular order when the query has *)
(* no ORDER BY, and waits for every row somebody else has locked.  All     *)
(* locks are kept until the transaction ends.                              *)
(***************************************************************************)
CONSTANT Sessions   \* the database connections of the web workers

VARIABLES
  held,   \* the rows a session has locked
  want    \* the rows its current statement found and has not locked yet

locks == <<held, want>>

LocksInit == held = [s \in Sessions |-> {}] /\ want = [s \in Sessions |-> {}]

LockRow(s, row) ==
  /\ row \in want[s]
  /\ \A other \in Sessions \ {s} : row \notin held[other]
  /\ held' = [held EXCEPT ![s] = @ \cup {row}]
  /\ want' = [want EXCEPT ![s] = @ \ {row}]

(* The next statement: rows the session has locked before cost no wait.    *)
SelectForUpdate(s, rows) ==
  /\ want[s] = {}
  /\ want' = [want EXCEPT ![s] = rows \ held[s]]
  /\ UNCHANGED held

(* COMMIT or ROLLBACK. *)
EndTransaction(s) ==
  /\ held' = [held EXCEPT ![s] = {}]
  /\ want' = [want EXCEPT ![s] = {}]

WaitsFor(s, other) == s # other /\ want[s] \cap held[other] # {}

(* s waits among sessions that all wait for each other.                    *)
Deadlocked(s) ==
  \E C \in SUBSET Sessions :
    s \in C /\ \A a \in C : \E b \in C : WaitsFor(a, b)

(* A locked row has one owner. *)
LocksAreExclusive ==
  \A s, other \in Sessions : s # other => held[s] \cap held[other] = {}
=============================================================================
