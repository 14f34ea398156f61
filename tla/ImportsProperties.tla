-------------------------- MODULE ImportsProperties --------------------------
(* What a ledger built from statements has to keep.                        *)
EXTENDS Imports

States == {"valid", "duplicate", "error", "posted"}

(* Every variable keeps its type; files are never more than were written.  *)
TypeOK ==
  /\ files \subseteq 1..uploads /\ uploads \in 0..MaxUploads
  /\ \A x \in Shas : stored[x] \in {None} \cup 1..uploads
  /\ disabled \subseteq Shas \ Statements
  /\ ledger \in [Keys -> Entries \cup {None}]
  /\ \A b \in DOMAIN batches :
       /\ batches[b].sha \in Statements
       /\ \A i \in DOMAIN batches[b].rows : batches[b].rows[i] \in States
  /\ \A s \in Sessions : pc[s] = "idle" => work[s] = NoWork /\ held[s] = {} /\ want[s] = {}

(* stage_upload, confirm_batch: every record of the ledger can be traced   *)
(* to a posted row of a confirmed batch with the same business fields, and *)
(* on to the stored statement, of which there is one batch.                *)
LedgerIsTraceable ==
  \A k \in Keys : ledger[k] # None =>
    LET e == ledger[k] IN
    /\ batches[e.batch].status \in Final
    /\ batches[e.batch].rows[e.row] = "posted"
    /\ RowOf(e.batch, e.row).key = k /\ RowOf(e.batch, e.row).face = e.face
    /\ stored[batches[e.batch].sha] \in files
    /\ \A b \in DOMAIN batches \ {e.batch} : batches[b].sha # batches[e.batch].sha

(* ImportResult: the counters of a batch count its rows, also after the    *)
(* confirmation found new duplicates and conflicts.                        *)
CountersFit ==
  \A b \in DOMAIN batches :
    LET rows == batches[b].rows IN
    /\ batches[b].valid = Count(rows, "valid") + Count(rows, "posted")
    /\ batches[b].duplicate = Count(rows, "duplicate")
    /\ batches[b].error = Count(rows, "error")
    /\ batches[b].status = "completed" => batches[b].error = 0

(* Row r is in the ledger, an invoice with its fields and with its status  *)
(* or, if it was issued as normal, a later one.                            *)
Recorded(r) ==
  /\ ledger[r.key] # None
  /\ r.key \in Invoices => /\ ledger[r.key].face = r.face
                           /\ r.status \in {"normal", ledger[r.key].status}

(* An earlier row of the same batch that says the same is shown as an error. *)
RefusedBefore(b, i) ==
  \E j \in 1..(i - 1) :
    /\ batches[b].rows[j] = "error" /\ RowOf(b, j).key = RowOf(b, i).key
    /\ RowOf(b, j).face = RowOf(b, i).face /\ RowOf(b, j).status = RowOf(b, i).status

(* confirm_batch: a row of a confirmed batch that is not shown as an error *)
(* is recorded, as posted by it or by another one, unless it repeats a row *)
(* that is; and the counters of the batch tell how many they are.          *)
NoRowIsDropped ==
  CountersFit /\
  \A b \in DOMAIN batches : batches[b].status \in Final =>
    \A i \in DOMAIN batches[b].rows :
      /\ batches[b].rows[i] \in {"posted", "duplicate", "error"}
      /\ batches[b].rows[i] = "posted" => Recorded(RowOf(b, i))
      /\ batches[b].rows[i] = "duplicate" => Recorded(RowOf(b, i)) \/ RefusedBefore(b, i)

(* _create_balance_snapshot: what a confirmed bank statement says of its   *)
(* last instant is the balance on record, whoever confirmed first.         *)
BalancesAgree ==
  \A b \in DOMAIN batches :
    batches[b].status \in Final /\ WithBalance(b, batches[b].rows) # {} =>
      LET r == RowOf(b, LatestRow(b, batches[b].rows)) IN balances[r.at] = r.balance

(* _delete_uncommitted_source_file, _delete_uncommitted_attachment_file:   *)
(* stored contents keep their file, and no other file is left behind but   *)
(* by a worker that died.                                                  *)
FilesAreOwned ==
  /\ \A x \in Shas : stored[x] # None => stored[x] \in files
  /\ \A f \in files : \/ f \in crashed
                      \/ \E x \in Shas : stored[x] = f
                      \/ \E s \in Sessions : work[s].file = f

(* _invoice_disposition: a record is posted once and for good; an invoice  *)
(* turns red or void, never back and never from one to the other.          *)
StatusMovesForward ==
  [][\A k \in Keys : ledger[k] # None =>
       ledger'[k] = ledger[k] \/ (ledger[k].status = "normal"
                                  /\ ledger'[k] = [ledger[k] EXCEPT !.status = ledger'[k].status])]_vars
=============================================================================
