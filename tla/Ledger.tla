------------------------------- MODULE Ledger -------------------------------
(***************************************************************************)
(* What reconciliation promises, as if every request were one indivisible  *)
(* step on the ledger: an allocation gives part of a money transaction (a  *)
(* fund) to an invoice, nobody ever gives more than is open, and what was  *)
(* allocated is only undone by reversing the whole reconciliation.         *)
(***************************************************************************)
EXTENDS Integers, Sequences, FiniteSets, Functions

CONSTANTS
  Invoices, Funds,   \* the posted Invoice and MoneyTransaction records
  Face,              \* their total_amount and amount, in cents
  Parties,           \* the records of one counterparty and one direction
  Periods,           \* the records dated within one settlement period
  None               \* no settlement batch

Records == Invoices \cup Funds

ASSUME RecordsAreDisjoint == Invoices \cap Funds = {}
ASSUME RecordsAreFinite == IsFiniteSet(Invoices) /\ IsFiniteSet(Funds)
ASSUME FaceAssumption == Face \in [Records -> Nat \ {0}]
ASSUME ScopeAssumption == Parties \cup Periods \subseteq SUBSET Records
ASSUME PartiesAreDisjoint ==
  \A party, other \in Parties : party = other \/ party \cap other = {}
ASSUME NoneAssumption == None \notin Nat

VARIABLES
  recs,       \* Reconciliation rows with their allocations, in commit order
  reversed,   \* the reconciliations that have a ReconciliationReversal
  cancelled,  \* invoices whose status is VOID or RED
  batches     \* SettlementBatch rows with their items

ledger == <<recs, reversed, cancelled, batches>>

Allocations == [invoice : Invoices, fund : Funds, amount : Nat \ {0}]

Active == DOMAIN recs \ reversed

ActiveAllocations == UNION {{<<r, a>> : a \in recs[r].allocations} : r \in Active}

(* The active allocations that touch x.                                    *)
Holds(a, x) == x = a.invoice \/ x = a.fund
Touching(x) == {p \in ActiveAllocations : Holds(p[2], x)}
Occupied(x) == Touching(x) # {}

(* _allocated_amounts, invoice_open_amount and transaction_open_amount.    *)
Allocated(x) == SumFunction([p \in Touching(x) |-> p[2].amount])
Open(x) == Face[x] - Allocated(x)

(* What a request asks of one record. *)
Requested(A, x) == SumFunction([a \in {a \in A : Holds(a, x)} |-> a.amount])

InvoicesOf(A) == {a.invoice : a \in A}
FundsOf(A) == {a.fund : a \in A}
RecordsOf(A) == InvoicesOf(A) \cup FundsOf(A)

(* Direction and counterparty fit.                                         *)
Fits(A) == \A a \in A : \E party \in Parties : {a.invoice, a.fund} \subseteq party

(* What may go on record: some positive amounts of existing records that   *)
(* fit and of which no invoice is void or red.                             *)
Sound(A) ==
  /\ IsFiniteSet(A) /\ A # {} /\ A \subseteq Allocations
  /\ Fits(A) /\ InvoicesOf(A) \cap cancelled = {}

-----------------------------------------------------------------------------
LedgerInit == /\ recs = <<>> /\ reversed = {}
              /\ cancelled = {}
              /\ batches = <<>>

Record(A, b) == recs' = Append(recs, [allocations |-> A, batch |-> b])

Reconcile(A) ==
  /\ Record(A, None)
  /\ Sound(A)
  /\ \A x \in RecordsOf(A) : Requested(A, x) <= Open(x)
  /\ UNCHANGED <<reversed, cancelled, batches>>

Confirmed(batch) ==
  [items |-> batch.items, status |-> "confirmed", version |-> batch.version + 1]

(* A batch settles all of its items to the cent, once, and only if nobody  *)
(* else has a claim on any of them.                                        *)
Settle(b, A) ==
  /\ Record(A, b) /\ batches[b].status = "draft"
  /\ Sound(A) /\ RecordsOf(A) = batches[b].items
  /\ \A x \in batches[b].items : ~Occupied(x) /\ Requested(A, x) = Open(x)
  /\ batches' = [batches EXCEPT ![b] = Confirmed(@)]
  /\ UNCHANGED <<reversed, cancelled>>

Draft(items) ==
  /\ items \cap Invoices # {} /\ items \cap Funds # {}
  /\ items \cap cancelled = {}
  /\ \E party \in Parties, period \in Periods : items \subseteq party \cap period
  /\ \A x \in items : Open(x) > 0
  /\ batches' = Append(batches, [items |-> items, status |-> "draft", version |-> 1])
  /\ UNCHANGED <<recs, reversed, cancelled>>

Reverse(r) ==
  /\ r \in Active
  /\ reversed' = reversed \cup {r}
  /\ UNCHANGED <<recs, cancelled, batches>>

Cancel(N) ==
  /\ N \subseteq Invoices
  /\ cancelled' = cancelled \cup N
  /\ UNCHANGED <<recs, reversed, batches>>

(* What is on record; the plan or the items of a step are among what it    *)
(* puts there.                                                             *)
Plans == {recs[r].allocations : r \in DOMAIN recs}
Drafts == {batches[b].items : b \in DOMAIN batches}

LedgerNext ==
  \/ \E A \in Plans' : Reconcile(A) \/ \E b \in DOMAIN batches : Settle(b, A)
  \/ \E items \in Drafts' : Draft(items)
  \/ \E r \in DOMAIN recs : Reverse(r)
  \/ \E N \in SUBSET Invoices : Cancel(N)

LedgerSpec == LedgerInit /\ [][LedgerNext]_ledger

-----------------------------------------------------------------------------
(* Money is never given twice: the active allocations of an invoice or a   *)
(* fund never exceed its amount, whatever requests run at the same time.   *)
NoOverAllocation == \A x \in Records : Allocated(x) <= Face[x]

(* A batch is confirmed by exactly one reconciliation, which settles its   *)
(* items to the cent, even if that reconciliation is reversed later.       *)
BatchesAreSettledOnce ==
  \A b \in DOMAIN batches :
    LET settling == {r \in DOMAIN recs : recs[r].batch = b}
    IN IF batches[b].status = "draft" THEN settling = {}
       ELSE /\ Cardinality(settling) = 1
            /\ \A r \in settling, x \in batches[b].items :
                 Requested(recs[r].allocations, x) = Face[x]
=============================================================================
