------------------------------- MODULE Imports -------------------------------
(***************************************************************************)
(* apps/imports/services.py: a statement is staged as a batch of rows, and *)
(* a confirmed batch posts its rows to the ledger: invoices, transactions  *)
(* and the balance of the account.  Several web workers stage and confirm  *)
(* at once, statement by statement, and upload invoice PDFs beside it.     *)
(*                                                                         *)
(* Reads see what is committed when they run and the transaction's own     *)
(* writes.  An INSERT waits for an uncommitted one of the same key, as for *)
(* a row lock: both are locks on the key.                                  *)
(***************************************************************************)
EXTENDS Uploads, Sequences, FiniteSetsExt

CONSTANTS
  Statements,   \* the contents that are statements; the others are PDFs
  Invoices,     \* invoice number and seller
  Transactions, \* fingerprints of money transactions
  Parsed        \* the parsed rows of each statement

Keys == Invoices \cup Transactions

ParsedRows == UNION {{Parsed[x][i] : i \in DOMAIN Parsed[x]} : x \in Statements}

(* A record of the ledger knows the batch and the row it comes from.       *)
Entries == [face : {r.face : r \in ParsedRows}, status : {"normal", "red", "void"},
            batch : Nat, row : Nat]

(* A row with issues has no key.  face stands for the business fields that *)
(* must match, status is the invoice status, at and balance come from a    *)
(* bank statement.                                                         *)
ASSUME StatementsAssumption ==
  /\ Statements \subseteq Shas /\ Invoices \cap Transactions = {}
  /\ \A x \in Statements : Parsed[x] \in Seq(ParsedRows)
  /\ \A r \in ParsedRows : /\ r.key \in Keys \cup {None}
                           /\ r.status \in {"normal", "red", "void"}
                           /\ r.at \in Nat

ASSUME NoneIsNoEntry == None \notin Entries \cup ParsedRows \cup Nat

VARIABLES
  batches,   \* ImportBatch with the states of its StagedRows
  ledger,    \* Invoice and MoneyTransaction by key, or None
  balances,  \* AccountBalanceSnapshot of the account by instant, or None
  pc,        \* per session: the statement under way
  work       \* per session: the request and what it has written so far

vars == <<storage, locks, batches, ledger, balances, pc, work>>

Instants == UNION {{Parsed[x][i].at : i \in DOMAIN Parsed[x]} : x \in Statements}

BatchRow(b) == <<"batch", b>>
KeyRow(k) == <<"key", k>>
Slot(t) == <<"balance", t>>

NoWork == [sha |-> None, file |-> 0, batch |-> 0, rows |-> <<>>, todo |-> {},
           posts |-> [k \in Keys |-> None], snapshot |-> None, dups |-> 0, errs |-> 0]

Final == {"partial", "completed"}

(* A row as its batch b knows it. *)
RowOf(b, i) == Parsed[batches[b].sha][i]
Count(rows, state) == Cardinality({i \in DOMAIN rows : rows[i] = state})

-----------------------------------------------------------------------------
(* Dispositions.                                                           *)

(* Mutant: a red or void invoice takes the status of a later row. *)
DispositionAnyStatus(old, row) ==
  IF old = None THEN "new"
  ELSE IF row.key \in Transactions THEN "duplicate"
  ELSE IF old.face # row.face THEN "conflict"
  ELSE IF old.status = row.status THEN "duplicate" ELSE "status_update"

(* _formal_disposition_for, _invoice_disposition, _invoice_rows_disposition *)
Disposition(old, row) ==
  IF old = None THEN "new"
  ELSE IF row.key \in Transactions THEN "duplicate"
  ELSE IF old.face # row.face THEN "conflict"
  ELSE IF old.status = row.status THEN "duplicate"
  ELSE IF old.status = "normal" THEN "status_update" ELSE "conflict"

(* Mutant: a row keeps its disposition, so that it is never posted. *)
StagedDisposition(disposition) ==
  IF disposition = "new" THEN "valid" ELSE disposition

StagedState(disposition) ==
  CASE disposition = "duplicate" -> "duplicate"
    [] disposition = "conflict" -> "error"
    [] OTHER -> "valid"

(* _prepare_staged_row: a row is compared with the last row of its key     *)
(* that the same file had without conflict, or else with the ledger.       *)
Compared(x, state, i) ==
  LET rows == Parsed[x]
      earlier == {j \in 1..(i - 1) : rows[j].key = rows[i].key /\ state[j] # "error"}
      old == IF earlier = {} THEN ledger[rows[i].key] ELSE rows[Max(earlier)]
  IN IF rows[i].key = None THEN "error" ELSE StagedState(Disposition(old, rows[i]))

(* _prepare_rows *)
Prepared(x) == LET state[i \in DOMAIN Parsed[x]] == Compared(x, state, i) IN state

-----------------------------------------------------------------------------
Init ==
  /\ UploadsInit /\ LocksInit
  /\ batches = <<>> /\ ledger = [k \in Keys |-> None]
  /\ balances = [t \in Instants |-> None]
  /\ pc = [s \in Sessions |-> "idle"] /\ work = [s \in Sessions |-> NoWork]

(* The ways through a transaction.                                         *)
Goto(s, label, w) == pc' = [pc EXCEPT ![s] = label] /\ work' = [work EXCEPT ![s] = w]
Leave(s) == EndTransaction(s) /\ Goto(s, "idle", NoWork)
Finished(s, label) == pc[s] = label /\ want[s] = {}
Published == <<batches, ledger, balances>>

Lock(s) ==
  /\ \E row \in want[s] : LockRow(s, row)
  /\ UNCHANGED <<storage, Published, pc, work>>

(* An exception, a commit that fails, or the victim of a deadlock.         *)
Fail(s) ==
  /\ pc[s] # "idle"
  /\ IF work[s].file = 0 THEN UNCHANGED storage
     ELSE DeleteUncommitted(work[s].sha, work[s].file)
  /\ Leave(s)
  /\ UNCHANGED Published

(* In a confirmation a worker that dies is an exception like any other.    *)
WorkerDies(s) ==
  /\ work[s].file # 0 /\ Crash(work[s].file)
  /\ Leave(s)
  /\ UNCHANGED Published

-----------------------------------------------------------------------------
(* stage_upload and attach_invoice_pdf.                                    *)

(* The content is not stored yet; a statement is parsed and its rows are   *)
(* compared with the ledger before the transaction begins.                 *)
Upload(s, x) ==
  /\ pc[s] = "idle" /\ stored[x] = None
  /\ Goto(s, "write", [NoWork EXCEPT !.sha = x,
                                     !.rows = IF x \in Statements THEN Prepared(x) ELSE <<>>])
  /\ UNCHANGED <<storage, locks, Published>>

WriteSource(s) ==
  /\ pc[s] = "write" /\ WriteFile(work[s].sha)
  /\ SelectForUpdate(s, {ShaRow(work[s].sha)})
  /\ Goto(s, "insert", [work[s] EXCEPT !.file = uploads'])
  /\ UNCHANGED Published

(* Mutant: the loser returns without removing its file. *)
InsertKeepingFile(s) ==
  /\ Finished(s, "insert")
  /\ IF stored[work[s].sha] = None
     THEN Goto(s, "publish", work[s]) /\ UNCHANGED locks
     ELSE Leave(s)
  /\ UNCHANGED <<storage, Published>>

(* Mutant: no unique constraint. *)
InsertTwice(s) ==
  /\ Finished(s, "insert")
  /\ Goto(s, "publish", work[s])
  /\ UNCHANGED <<storage, locks, Published>>

(* The unique constraint: a statement is refused, a PDF is the one stored. *)
InsertSource(s) ==
  /\ Finished(s, "insert")
  /\ IF stored[work[s].sha] = None
     THEN Goto(s, "publish", work[s]) /\ UNCHANGED <<storage, locks>>
     ELSE DeleteUncommitted(work[s].sha, work[s].file) /\ Leave(s)
  /\ UNCHANGED Published

CommitUpload(s) ==
  /\ pc[s] = "publish" /\ Publish(work[s].sha, work[s].file)
  /\ batches' = IF work[s].sha \notin Statements THEN batches
                ELSE Append(batches, [sha |-> work[s].sha, rows |-> work[s].rows, status |-> "previewed",
                                      valid |-> Count(work[s].rows, "valid"),
                                      duplicate |-> Count(work[s].rows, "duplicate"),
                                      error |-> Count(work[s].rows, "error")])
  /\ Leave(s)
  /\ UNCHANGED <<ledger, balances>>

DisableAttachment(x) ==
  /\ x \notin Statements /\ Disable(x)
  /\ UNCHANGED <<locks, Published, pc, work>>

-----------------------------------------------------------------------------
(* confirm_batch.                                                          *)

(* Mutant: the batch is read without FOR UPDATE. *)
ConfirmUnlocked(s, b) ==
  /\ pc[s] = "idle"
  /\ SelectForUpdate(s, {})
  /\ Goto(s, "batch", [NoWork EXCEPT !.batch = b])
  /\ UNCHANGED <<storage, Published>>

Confirm(s, b) ==
  /\ pc[s] = "idle"
  /\ SelectForUpdate(s, {BatchRow(b)})
  /\ Goto(s, "batch", [NoWork EXCEPT !.batch = b])
  /\ UNCHANGED <<storage, Published>>

BatchLocked(s) ==
  LET b == batches[work[s].batch] IN
  /\ Finished(s, "batch")
  /\ IF b.status \in Final THEN Leave(s)
     ELSE /\ Goto(s, "row", [work[s] EXCEPT !.rows = b.rows,
                                            !.todo = {i \in DOMAIN b.rows : b.rows[i] = "valid"}])
          /\ UNCHANGED locks
  /\ UNCHANGED <<storage, Published>>

(* What the transaction sees under a key. *)
Seen(s, k) == IF work[s].posts[k] # None THEN work[s].posts[k] ELSE ledger[k]

Current(s) == Min(work[s].todo)
Row(s) == RowOf(work[s].batch, Current(s))
Entry(s) == [face |-> Row(s).face, status |-> Row(s).status,
             batch |-> work[s].batch, row |-> Current(s)]

(* _mark_duplicate, _mark_invoice_conflict, _post_normalized_row and       *)
(* _update_invoice_status.                                                 *)
Disposed(s, disposition) ==
  LET i == Current(s)
      k == Row(s).key
      w == [work[s] EXCEPT !.todo = @ \ {i}]
  IN CASE disposition = "duplicate" -> [w EXCEPT !.rows[i] = "duplicate", !.dups = @ + 1]
       [] disposition = "conflict" -> [w EXCEPT !.rows[i] = "error", !.errs = @ + 1]
       [] disposition = "new" -> [w EXCEPT !.rows[i] = "posted", !.posts[k] = Entry(s)]
       [] OTHER -> [w EXCEPT !.rows[i] = "posted",
                             !.posts[k] = [Seen(s, k) EXCEPT !.status = Row(s).status]]

(* Mutant: the disposition is found without locking the invoice. *)
ExamineUnlocked(s) ==
  /\ pc[s] = "row" /\ work[s].todo # {}
  /\ IF Seen(s, Row(s).key) # None
     THEN Goto(s, "row", Disposed(s, Disposition(Seen(s, Row(s).key), Row(s)))) /\ UNCHANGED locks
     ELSE SelectForUpdate(s, {KeyRow(Row(s).key)}) /\ Goto(s, "locked", work[s])
  /\ UNCHANGED <<storage, Published>>

(* A transaction that exists is no matter for a lock; an invoice that      *)
(* exists is locked, and a row that seems new is inserted.                 *)
Examine(s) ==
  /\ pc[s] = "row" /\ work[s].todo # {}
  /\ IF Row(s).key \in Transactions /\ Seen(s, Row(s).key) # None
     THEN Goto(s, "row", Disposed(s, "duplicate")) /\ UNCHANGED locks
     ELSE SelectForUpdate(s, {KeyRow(Row(s).key)}) /\ Goto(s, "locked", work[s])
  /\ UNCHANGED <<storage, Published>>

(* Mutant: an IntegrityError means that the row is a duplicate. *)
DisposeDuplicate(s) ==
  /\ Finished(s, "locked")
  /\ Goto(s, "row", Disposed(s, IF Seen(s, Row(s).key) = None THEN "new" ELSE "duplicate"))
  /\ UNCHANGED <<storage, locks, Published>>

(* Under the lock: the invoice as it is now, the inserted row, or after an *)
(* IntegrityError what somebody else has inserted.                         *)
Dispose(s) ==
  /\ Finished(s, "locked")
  /\ Goto(s, "row", Disposed(s, Disposition(Seen(s, Row(s).key), Row(s))))
  /\ UNCHANGED <<storage, locks, Published>>

(* _create_balance_snapshots: the latest posted row with a balance, and    *)
(* the first in the file among equals.                                     *)
WithBalance(b, rows) ==
  {i \in DOMAIN rows : rows[i] = "posted" /\ RowOf(b, i).balance # None}

LatestRow(b, rows) ==
  LET R == WithBalance(b, rows)
      latest == {i \in R : \A j \in R : RowOf(b, j).at <= RowOf(b, i).at}
  IN Min(latest)

RowsDone(s) ==
  LET b == work[s].batch IN
  /\ pc[s] = "row" /\ work[s].todo = {}
  /\ IF WithBalance(b, work[s].rows) = {}
     THEN Goto(s, "confirm", work[s]) /\ UNCHANGED locks
     ELSE LET i == LatestRow(b, work[s].rows) IN
          /\ SelectForUpdate(s, {Slot(RowOf(b, i).at)})
          /\ Goto(s, "balance", [work[s] EXCEPT !.snapshot = RowOf(b, i)])
  /\ UNCHANGED <<storage, Published>>

(* Mutant: a balance that differs is left as it is. *)
SnapshotKept(s) ==
  LET r == work[s].snapshot IN
  /\ Finished(s, "balance")
  /\ Goto(s, "confirm", [work[s] EXCEPT !.snapshot = IF balances[r.at] = None THEN r ELSE None])
  /\ UNCHANGED <<storage, locks, Published>>

(* _create_balance_snapshot: another balance at the same instant refuses   *)
(* the whole batch.                                                        *)
Snapshot(s) ==
  LET r == work[s].snapshot IN
  /\ Finished(s, "balance")
  /\ IF balances[r.at] \in {None, r.balance} THEN Goto(s, "confirm", work[s]) /\ UNCHANGED locks
     ELSE Leave(s)
  /\ UNCHANGED <<storage, Published>>

(* Mutant: conflicts found while confirming stay counted as valid. *)
ConfirmedCountingErrors(b, w) ==
  [b EXCEPT !.rows = w.rows, !.valid = @ - w.dups,
            !.duplicate = @ + w.dups, !.error = @ + w.errs,
            !.status = IF b.error > 0 THEN "partial" ELSE "completed"]

(* The counters of batch b move with the rows the confirmation found to be *)
(* duplicates and conflicts.                                               *)
Confirmed(b, w) ==
  [b EXCEPT !.rows = w.rows, !.valid = @ - w.dups - w.errs,
            !.duplicate = @ + w.dups, !.error = @ + w.errs,
            !.status = IF b.error + w.errs > 0 THEN "partial" ELSE "completed"]

CommitConfirm(s) ==
  LET w == work[s] IN
  /\ pc[s] = "confirm"
  /\ batches' = [batches EXCEPT ![w.batch] = Confirmed(@, w)]
  /\ ledger' = [k \in Keys |-> Seen(s, k)]
  /\ balances' = IF w.snapshot = None THEN balances
                 ELSE [balances EXCEPT ![w.snapshot.at] = w.snapshot.balance]
  /\ Leave(s)
  /\ UNCHANGED storage

-----------------------------------------------------------------------------
Request(s) == \/ \E x \in Shas : Upload(s, x)
              \/ \E b \in DOMAIN batches : Confirm(s, b)

Step(s) == \/ Lock(s) \/ WriteSource(s) \/ InsertSource(s) \/ CommitUpload(s)
           \/ BatchLocked(s) \/ Examine(s) \/ Dispose(s) \/ RowsDone(s) \/ Snapshot(s)
           \/ CommitConfirm(s)

Next == \/ \E s \in Sessions : Request(s) \/ Step(s) \/ Fail(s) \/ WorkerDies(s)
        \/ \E x \in Shas : DisableAttachment(x)

Spec == Init /\ [][Next]_vars
=============================================================================
