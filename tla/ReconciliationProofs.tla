------------------------ MODULE ReconciliationProofs ------------------------
(***************************************************************************)
(* Every behaviour of the concurrent requests is a behaviour of the        *)
(* ledger: a request takes effect in one step, its commit, and what it     *)
(* read before is still true then, because it has locked the rows of all   *)
(* invoices and funds that it read about.                                  *)
(***************************************************************************)
EXTENDS ReconciliationProperties, SumTheorems

-----------------------------------------------------------------------------
(* The ledger keeps its promises whatever the records and the bounds: the  *)
(* active allocations of a record never exceed its amount, and a confirmed *)
(* batch was settled to the cent by exactly one reconciliation.            *)

Batches == [items : SUBSET Records, status : {"draft", "confirmed"}, version : {1, 2}]
Rows == [allocations : SUBSET Allocations, batch : DOMAIN batches \cup {None}]

LedgerTypes ==
  /\ recs \in Seq(Rows)
  /\ \A r \in DOMAIN recs : IsFiniteSet(recs[r].allocations) /\ recs[r].allocations # {}
  /\ reversed \subseteq DOMAIN recs
  /\ cancelled \subseteq Invoices
  /\ batches \in Seq(Batches)
  /\ \A b \in DOMAIN batches : batches[b].status = "draft" => batches[b].version = 1

LedgerInv == LedgerTypes /\ NoOverAllocation /\ BatchesAreSettledOnce

-----------------------------------------------------------------------------
(* What is allocated.                                                      *)

(* All allocations on record, active or not. *)
Recorded == UNION {{<<r, a>> : a \in recs[r].allocations} : r \in DOMAIN recs}

(* Only finitely many allocations are on record, all of positive amounts.  *)
LEMMA RecordedIsFinite ==
  ASSUME LedgerTypes, NEW S \in SUBSET Recorded
  PROVE  IsFiniteSet(S) /\ \A p \in S : p[2].amount \in Nat
<1>1. \A r \in DOMAIN recs : recs[r].allocations \in SUBSET Allocations /\ IsFiniteSet(recs[r].allocations)
  <2>1. \A r \in DOMAIN recs : recs[r] \in Rows
    BY DEF LedgerTypes
  <2> QED BY <2>1 DEF LedgerTypes, Rows
<1>2. IsFiniteSet(DOMAIN recs)
  <2>1. DOMAIN recs = 1..Len(recs) /\ Len(recs) \in Nat
    BY DEF LedgerTypes
  <2> QED BY <2>1, FS_Interval
<1> DEFINE row(r) == {<<r, a>> : a \in recs[r].allocations}
           rows == {row(r) : r \in DOMAIN recs}
<1>3. \A r \in DOMAIN recs : IsFiniteSet(row(r))
  <2> TAKE r \in DOMAIN recs
  <2>1. IsFiniteSet(recs[r].allocations)
    BY <1>1
  <2>2. [a \in recs[r].allocations |-> <<r, a>>] \in Surjection(recs[r].allocations, row(r))
    BY DEF Surjection
  <2> HIDE DEF row
  <2> QED BY <2>1, <2>2, FS_Surjection
<1>4. IsFiniteSet(rows)
  <2>1. [r \in DOMAIN recs |-> row(r)] \in Surjection(DOMAIN recs, rows)
    <3> HIDE DEF row
    <3> QED BY DEF Surjection
  <2> HIDE DEF rows
  <2> QED BY <1>2, <2>1, FS_Surjection
<1>5. IsFiniteSet(UNION rows)
  <2>1. \A T \in rows : IsFiniteSet(T)
    BY <1>3
  <2> HIDE DEF rows
  <2> QED BY <1>4, <2>1, FS_UNION
<1>6. S \in SUBSET UNION rows
  BY DEF Recorded
<1>7. \A p \in S : p[2] \in Allocations
  BY <1>1 DEF Recorded
<1> QED BY <1>5, <1>6, <1>7, FS_Subset DEF Allocations

(* So it is with those that touch a record.                                *)
LEMMA TouchingIsFinite ==
  ASSUME LedgerTypes, NEW x
  PROVE  IsFiniteSet(Touching(x)) /\ \A p \in Touching(x) : p[2].amount \in Nat
<1>1. Touching(x) \in SUBSET Recorded
  BY DEF Touching, ActiveAllocations, Active, Recorded
<1> QED BY <1>1, RecordedIsFinite

(* Fewer allocations amount to no more.                                    *)
LEMMA FewerAllocations ==
  ASSUME NEW S, IsFiniteSet(S), \A p \in S : p[2].amount \in Nat, NEW T \in SUBSET S
  PROVE  /\ SumFunction([p \in T |-> p[2].amount]) \in Nat
         /\ SumFunction([p \in T |-> p[2].amount]) <= SumFunction([p \in S |-> p[2].amount])
<1> DEFINE f == [p \in T |-> p[2].amount]
           h == [p \in S |-> p[2].amount]
           same == [p \in T |-> p]
<1>1. DOMAIN f = T /\ DOMAIN h = S /\ \A p \in S : h[p] \in Nat
  OBVIOUS
<1>2. IsFiniteSet(T)
  BY FS_Subset
<1>3. same \in Bijection(T, T)
  BY DEF Bijection, Injection, Surjection, IsInjective
<1>4. \A p \in T : f[p] \in Nat /\ h[same[p]] = f[p]
  OBVIOUS
<1> HIDE DEF f, h, same
<1>5. SumFunctionOnSet(h, T) = SumFunctionOnSet(f, T)
  BY <1>2, <1>3, <1>4, SumRenamed
<1>6. SumFunctionOnSet(h, T) <= SumFunctionOnSet(h, S)
  BY <1>1, SumOfSubset
<1>7. SumFunctionOnSet(f, T) \in Nat
  BY <1>2, <1>4, SumType
<1>8. SumFunction(f) <= SumFunction(h) /\ SumFunction(f) \in Nat
  BY <1>1, <1>5, <1>6, <1>7 DEF SumFunction
<1> QED BY <1>8 DEF f, h

(* What is allocated of a record is a natural number of cents.             *)
LEMMA AllocatedType ==
  ASSUME LedgerTypes, NEW x
  PROVE  Allocated(x) \in Nat
<1> DEFINE f == [p \in Touching(x) |-> p[2].amount]
<1>1. \A p \in Touching(x) : f[p] \in Nat
  BY TouchingIsFinite
<1>2. DOMAIN f = Touching(x)
  OBVIOUS
<1> HIDE DEF f
<1>3. SumFunctionOnSet(f, Touching(x)) \in Nat
  BY <1>1, TouchingIsFinite, SumType
<1> QED BY <1>2, <1>3 DEF Allocated, f, SumFunction

(* What a request asks of a record is a natural number of cents.           *)
LEMMA RequestedType ==
  ASSUME NEW A, IsFiniteSet(A), A \subseteq Allocations, NEW x
  PROVE  Requested(A, x) \in Nat
<1> DEFINE S == {a \in A : Holds(a, x)}
           f == [a \in S |-> a.amount]
<1>1. IsFiniteSet(S)
  BY FS_Subset
<1>2. \A a \in S : f[a] \in Nat
  BY DEF Allocations
<1>3. DOMAIN f = S
  OBVIOUS
<1> HIDE DEF f, S
<1>4. SumFunctionOnSet(f, S) \in Nat
  BY <1>1, <1>2, SumType
<1> QED BY <1>3, <1>4 DEF Requested, f, S, SumFunction

(* Nothing is allocated of a record that is not occupied.                  *)
LEMMA UnoccupiedIsOpen ==
  ASSUME NEW x \in Records, ~Occupied(x)
  PROVE  Allocated(x) = 0 /\ Open(x) = Face[x]
<1> DEFINE f == [p \in Touching(x) |-> p[2].amount]
<1>1. DOMAIN f = {}
  BY DEF Occupied
<1> HIDE DEF f
<1>2. SumFunction(f) = 0
  BY <1>1, SumOfNothing DEF SumFunction
<1>3. Allocated(x) = 0
  BY <1>2 DEF Allocated, f
<1>4. Face[x] \in Nat
  BY FaceAssumption
<1> QED BY <1>3, <1>4 DEF Open

(* A new reconciliation adds to a record what it asks of it.               *)
LEMMA RecordAllocates ==
  ASSUME LedgerTypes, LedgerTypes', NEW A, NEW b, IsFiniteSet(A), A \subseteq Allocations,
         Record(A, b), UNCHANGED reversed, NEW x
  PROVE  Allocated(x)' = Allocated(x) + Requested(A, x)
<1> DEFINE n == Len(recs) + 1
           S == {a \in A : Holds(a, x)}
           new == {<<n, a>> : a \in S}
           old == Touching(x)
           all == Touching(x)'
           f == [p \in all |-> p[2].amount]
           g == [a \in S |-> a.amount]
<1>1. /\ DOMAIN recs' = DOMAIN recs \cup {n} /\ n \notin DOMAIN recs
      /\ \A r \in DOMAIN recs : recs'[r] = recs[r]
      /\ recs'[n].allocations = A
  BY DEF LedgerTypes, Record
<1>2. Active' = Active \cup {n} /\ n \notin Active
  BY <1>1 DEF Active, LedgerTypes
<1>3. all = old \cup new /\ old \cap new = {}
  <2>1. \A p : p \in old <=> \E r \in Active : \E a \in recs[r].allocations : p = <<r, a>> /\ Holds(a, x)
    BY DEF Touching, ActiveAllocations
  <2>2. \A p : p \in all <=> \E r \in Active' : \E a \in recs'[r].allocations : p = <<r, a>> /\ Holds(a, x)
    BY DEF Touching, ActiveAllocations, Holds
  <2>3. \A r \in Active : r \in DOMAIN recs
    BY DEF Active
  <2>4. \A p : p \in new <=> \E a \in recs'[n].allocations : p = <<n, a>> /\ Holds(a, x)
    BY <1>1
  <2>5. \A p \in all : p \in old \/ p \in new
    <3> TAKE p \in all
    <3>1. PICK r \in Active' : \E a \in recs'[r].allocations : p = <<r, a>> /\ Holds(a, x)
      BY <2>2
    <3>2. CASE r = n
      BY <2>4, <3>1, <3>2
    <3>3. CASE r # n
      <4>1. r \in Active /\ recs'[r] = recs[r]
        BY <1>1, <1>2, <2>3, <3>3
      <4> QED BY <2>1, <3>1, <4>1
    <3> QED BY <3>2, <3>3
  <2>6. \A p \in new : p \in all
    <3> HIDE DEF new, all, n
    <3> QED BY <1>2, <2>2, <2>4
  <2>7. \A p \in old : p \in all
    <3> TAKE p \in old
    <3>1. PICK r \in Active : \E a \in recs[r].allocations : p = <<r, a>> /\ Holds(a, x)
      BY <2>1
    <3>2. r \in Active' /\ recs'[r] = recs[r]
      BY <1>1, <1>2, <2>3
    <3> HIDE DEF old, all
    <3> QED BY <2>2, <3>1, <3>2
  <2>8. \A p \in new : p \notin old
    <3> HIDE DEF old
    <3> QED BY <1>2, <2>1
  <2> HIDE DEF old, all, new
  <2> QED BY <2>5, <2>6, <2>7, <2>8
<1>4. IsFiniteSet(S) /\ IsFiniteSet(old) /\ \A a \in S : a.amount \in Nat
  <2>1. IsFiniteSet(S)
    BY FS_Subset
  <2> QED BY <2>1, TouchingIsFinite DEF Allocations
<1>5. \A p \in all : f[p] \in Nat
  BY <1>3, <1>4, TouchingIsFinite
<1>6. DOMAIN f = all /\ DOMAIN g = S
  OBVIOUS
<1>7. IsFiniteSet(new) /\ SumFunctionOnSet(f, new) = SumFunctionOnSet(g, S)
  <2> DEFINE name == [a \in S |-> <<n, a>>]
  <2>1. name \in Bijection(S, new)
    BY DEF Bijection, Injection, Surjection, IsInjective
  <2>2. \A a \in S : g[a] \in Nat /\ f[name[a]] = g[a]
    <3>1. \A a \in S : name[a] \in new /\ name[a][2] = a
      OBVIOUS
    <3> HIDE DEF name, new, all, S
    <3> QED BY <1>3, <1>4, <3>1
  <2>3. name \in Surjection(S, new)
    BY <2>1 DEF Bijection
  <2> HIDE DEF name, new, f, g, S
  <2>4. IsFiniteSet(new)
    BY <1>4, <2>3, FS_Surjection
  <2>5. SumFunctionOnSet(f, new) = SumFunctionOnSet(g, S)
    BY <1>4, <2>1, <2>2, SumRenamed
  <2> QED BY <2>4, <2>5
<1>8. SumFunctionOnSet(f, all) = SumFunctionOnSet(f, old) + SumFunctionOnSet(f, new)
  <2> HIDE DEF new, old, all, f
  <2> QED BY <1>3, <1>4, <1>5, <1>7, SumOfUnion
<1>9. SumFunctionOnSet(f, old) = Allocated(x)
  <2> DEFINE h == [p \in old |-> p[2].amount]
             same == [p \in old |-> p]
  <2>1. same \in Bijection(old, old) /\ DOMAIN h = old
    BY DEF Bijection, Injection, Surjection, IsInjective
  <2>2. \A p \in old : h[p] \in Nat /\ f[same[p]] = h[p]
    BY <1>3, TouchingIsFinite
  <2>3. Allocated(x) = SumFunctionOnSet(h, DOMAIN h)
    BY DEF Allocated, SumFunction
  <2> HIDE DEF h, same, f, old
  <2> QED BY <1>4, <2>1, <2>2, <2>3, SumRenamed
<1>10. Allocated(x)' = SumFunctionOnSet(f, DOMAIN f) /\ Requested(A, x) = SumFunctionOnSet(g, DOMAIN g)
  BY DEF Allocated, Requested, SumFunction
<1> QED BY <1>6, <1>7, <1>8, <1>9, <1>10

(* A reversal takes nothing from anybody.                                  *)
LEMMA ReversalFrees ==
  ASSUME LedgerTypes, NEW r, Reverse(r), NEW x
  PROVE  Allocated(x)' \in Nat /\ Allocated(x)' <= Allocated(x)
<1>1. Touching(x)' \in SUBSET Touching(x)
  BY DEF Reverse, Touching, ActiveAllocations, Active
<1> QED BY <1>1, TouchingIsFinite, FewerAllocations DEF Allocated

-----------------------------------------------------------------------------
(* The ledger's invariant.                                                 *)

LEMMA LedgerInitInv == LedgerInit => LedgerInv
<1> SUFFICES ASSUME LedgerInit PROVE LedgerInv
  OBVIOUS
<1>1. LedgerTypes
  BY DEF LedgerInit, LedgerTypes
<1>2. \A x \in Records : Allocated(x) <= Face[x]
  <2> TAKE x \in Records
  <2>1. ~Occupied(x)
    BY DEF LedgerInit, Occupied, Touching, ActiveAllocations, Active
  <2>2. Allocated(x) = 0 /\ Face[x] \in Nat
    BY <2>1, UnoccupiedIsOpen, FaceAssumption
  <2> QED BY <2>2
<1>3. BatchesAreSettledOnce
  BY DEF LedgerInit, BatchesAreSettledOnce
<1> QED BY <1>1, <1>2, <1>3 DEF LedgerInv, NoOverAllocation

(* A step of the ledger keeps the shapes of its tables.                    *)
LEMMA LedgerTypesStep ==
  ASSUME LedgerTypes, [LedgerNext]_ledger
  PROVE  LedgerTypes'
<1>1. ASSUME NEW A, Reconcile(A) PROVE LedgerTypes'
  <2> DEFINE row == [allocations |-> A, batch |-> None]
  <2>1. row \in Rows /\ IsFiniteSet(A) /\ A # {}
    BY <1>1 DEF Reconcile, Sound, Rows
  <2>2. recs \in Seq(Rows) /\ recs' = Append(recs, row) /\ UNCHANGED <<reversed, cancelled, batches>>
    BY <1>1 DEF Reconcile, Record, LedgerTypes
  <2>3. Rows' = Rows
    BY <2>2 DEF Rows
  <2>4. \A r \in DOMAIN recs' : IsFiniteSet(recs'[r].allocations) /\ recs'[r].allocations # {}
    BY <2>1, <2>2 DEF LedgerTypes
  <2> HIDE DEF row
  <2>5. recs' \in Seq(Rows') /\ DOMAIN recs \subseteq DOMAIN recs'
    BY <2>1, <2>2, <2>3
  <2> QED BY <2>2, <2>4, <2>5 DEF LedgerTypes
<1>2. ASSUME NEW A, NEW b \in DOMAIN batches, Settle(b, A) PROVE LedgerTypes'
  <2> DEFINE row == [allocations |-> A, batch |-> b]
             batch == Confirmed(batches[b])
  <2>1. row \in Rows /\ IsFiniteSet(A) /\ A # {}
    BY <1>2 DEF Settle, Sound, Rows
  <2>2. recs \in Seq(Rows) /\ recs' = Append(recs, row) /\ UNCHANGED <<reversed, cancelled>>
    BY <1>2 DEF Settle, Record, LedgerTypes
  <2>3. batch \in Batches /\ batch.status = "confirmed"
    <3>1. batches[b] \in Batches /\ batches[b].version = 1
      BY <1>2 DEF Settle, LedgerTypes
    <3>2. batches[b].items \in SUBSET Records /\ batches[b].version + 1 = 2
      BY <3>1 DEF Batches
    <3> QED BY <3>2 DEF Batches, Confirmed
  <2>4. batches' = [batches EXCEPT ![b] = batch] /\ batches \in Seq(Batches)
    BY <1>2 DEF Settle, LedgerTypes
  <2>5. \A r \in DOMAIN recs' : IsFiniteSet(recs'[r].allocations) /\ recs'[r].allocations # {}
    BY <2>1, <2>2 DEF LedgerTypes
  <2> HIDE DEF row, batch
  <2>6. /\ batches' \in Seq(Batches) /\ DOMAIN batches' = DOMAIN batches
        /\ \A d \in DOMAIN batches : batches'[d] = IF d = b THEN batch ELSE batches[d]
    BY <2>3, <2>4
  <2>7. Rows' = Rows
    BY <2>6 DEF Rows
  <2>8. recs' \in Seq(Rows') /\ DOMAIN recs \subseteq DOMAIN recs'
    BY <2>1, <2>2, <2>7
  <2> QED BY <2>2, <2>3, <2>5, <2>6, <2>8 DEF LedgerTypes
<1>3. ASSUME NEW items, Draft(items) PROVE LedgerTypes'
  <2> DEFINE batch == [items |-> items, status |-> "draft", version |-> 1]
  <2>1. batch \in Batches /\ batch.version = 1
    BY <1>3, ScopeAssumption DEF Draft, Batches
  <2>2. batches' = Append(batches, batch) /\ UNCHANGED <<recs, reversed, cancelled>>
    BY <1>3 DEF Draft
  <2> HIDE DEF batch
  <2>3. /\ batches' \in Seq(Batches) /\ DOMAIN batches \subseteq DOMAIN batches'
        /\ \A b \in DOMAIN batches' : batches'[b].status = "draft" => batches'[b].version = 1
    BY <2>1, <2>2 DEF LedgerTypes
  <2>4. Rows \subseteq Rows'
    BY <2>3 DEF Rows
  <2>5. recs \in Seq(Rows')
    BY <2>4 DEF LedgerTypes
  <2> QED BY <2>2, <2>3, <2>5 DEF LedgerTypes
<1>4. ASSUME NEW r \in DOMAIN recs, Reverse(r) PROVE LedgerTypes'
  BY <1>4 DEF Reverse, LedgerTypes, Rows
<1>5. ASSUME NEW N \in SUBSET Invoices, Cancel(N) PROVE LedgerTypes'
  BY <1>5 DEF Cancel, LedgerTypes, Rows
<1>6. CASE UNCHANGED ledger
  BY <1>6 DEF ledger, LedgerTypes, Rows
<1> QED BY <1>1, <1>2, <1>3, <1>4, <1>5, <1>6 DEF LedgerNext

(* A step of the ledger gives nobody more than is open.                    *)
LEMMA NoOverAllocationStep ==
  ASSUME LedgerTypes, LedgerTypes', NoOverAllocation, [LedgerNext]_ledger
  PROVE  NoOverAllocation'
<1> SUFFICES ASSUME NEW x \in Records PROVE Allocated(x)' <= Face[x]
  BY DEF NoOverAllocation
<1>0. Allocated(x) <= Face[x] /\ Allocated(x) \in Nat /\ Face[x] \in Nat
  BY AllocatedType, FaceAssumption DEF NoOverAllocation
<1>a. ASSUME NEW A, Sound(A), x \notin RecordsOf(A) PROVE Requested(A, x) = 0
  <2> DEFINE f == [a \in {a \in A : Holds(a, x)} |-> a.amount]
  <2>1. DOMAIN f = {}
    BY <1>a DEF RecordsOf, InvoicesOf, FundsOf, Holds
  <2> HIDE DEF f
  <2>2. SumFunction(f) = 0
    BY <2>1, SumOfNothing DEF SumFunction
  <2> QED BY <2>2 DEF Requested, f
<1>b. ASSUME NEW A, NEW b, Record(A, b), Sound(A), UNCHANGED reversed,
             \A y \in RecordsOf(A) : Requested(A, y) <= Open(y)
      PROVE  Allocated(x)' <= Face[x]
  <2>1. IsFiniteSet(A) /\ A \subseteq Allocations
    BY <1>b DEF Sound
  <2>2. Allocated(x)' = Allocated(x) + Requested(A, x)
    BY <1>b, <2>1, RecordAllocates
  <2>3. Requested(A, x) \in Nat
    BY <2>1, RequestedType
  <2>4. CASE x \in RecordsOf(A)
    BY <1>0, <1>b, <2>2, <2>3, <2>4 DEF Open
  <2>5. CASE x \notin RecordsOf(A)
    <3>1. Requested(A, x) = 0
      BY <1>a, <1>b, <2>5
    <3> QED BY <1>0, <2>2, <3>1
  <2> QED BY <2>4, <2>5
<1>1. ASSUME NEW A, Reconcile(A) PROVE Allocated(x)' <= Face[x]
  BY <1>1, <1>b DEF Reconcile
<1>2. ASSUME NEW A, NEW b \in DOMAIN batches, Settle(b, A) PROVE Allocated(x)' <= Face[x]
  <2>1. \A y \in RecordsOf(A) : Requested(A, y) <= Open(y)
    <3> TAKE y \in RecordsOf(A)
    <3>1. Requested(A, y) \in Nat /\ Requested(A, y) = Open(y)
      BY <1>2, RequestedType DEF Settle, Sound
    <3> QED BY <3>1
  <2> QED BY <1>2, <1>b, <2>1 DEF Settle
<1>3. ASSUME NEW r \in DOMAIN recs, Reverse(r) PROVE Allocated(x)' <= Face[x]
  <2>1. Allocated(x)' <= Allocated(x) /\ Allocated(x)' \in Nat
    BY <1>3, ReversalFrees
  <2> QED BY <1>0, <2>1
<1>4. CASE UNCHANGED <<recs, reversed>>
  <2>1. Allocated(x)' = Allocated(x)
    BY <1>4 DEF Allocated, Touching, ActiveAllocations, Active
  <2> QED BY <1>0, <2>1
<1> QED BY <1>1, <1>2, <1>3, <1>4 DEF LedgerNext, Draft, Cancel, ledger

Settling(b) == {r \in DOMAIN recs : recs[r].batch = b}

IsSettledOnce(b) ==
  /\ batches[b].status = "draft" => Settling(b) = {}
  /\ batches[b].status # "draft" =>
       /\ Cardinality(Settling(b)) = 1
       /\ \A r \in Settling(b), x \in batches[b].items : Requested(recs[r].allocations, x) = Face[x]

(* A step of the ledger settles a draft once and nothing else.             *)
LEMMA SettledOnceStep ==
  ASSUME LedgerTypes, BatchesAreSettledOnce, [LedgerNext]_ledger
  PROVE  BatchesAreSettledOnce'
<1>0. \A b \in DOMAIN batches : IsSettledOnce(b) /\ b \in Nat /\ b # None
  <2>1. \A b \in DOMAIN batches : b \in Nat /\ b # None
    BY NoneAssumption DEF LedgerTypes
  <2>2. \A b \in DOMAIN batches : IsSettledOnce(b)
    BY Zenon DEF BatchesAreSettledOnce, IsSettledOnce, Settling
  <2> QED BY <2>1, <2>2
<1> SUFFICES \A b \in DOMAIN batches' : IsSettledOnce(b)'
  BY Zenon DEF BatchesAreSettledOnce, IsSettledOnce, Settling
(* A batch that a step leaves alone stays settled or open.                 *)
<1>a. ASSUME NEW b \in DOMAIN batches, batches'[b] = batches[b], Settling(b)' = Settling(b),
             \A r \in DOMAIN recs : recs'[r] = recs[r]
      PROVE  IsSettledOnce(b)'
  <2>1. \A r \in Settling(b) : recs'[r] = recs[r]
    BY <1>a DEF Settling
  <2>2. \A r \in Settling(b), x \in batches[b].items :
          Requested(recs'[r].allocations, x) = Requested(recs[r].allocations, x)
    BY <2>1
  <2> QED BY <1>0, <1>a, <2>2 DEF IsSettledOnce
<1>b. ASSUME NEW A, NEW d, Record(A, d)
      PROVE  /\ DOMAIN recs' = DOMAIN recs \cup {Len(recs) + 1} /\ Len(recs) + 1 \notin DOMAIN recs
             /\ \A r \in DOMAIN recs : recs'[r] = recs[r]
             /\ recs'[Len(recs) + 1].allocations = A /\ recs'[Len(recs) + 1].batch = d
  BY <1>b DEF Record, LedgerTypes
<1>1. ASSUME NEW A, Reconcile(A) PROVE \A b \in DOMAIN batches' : IsSettledOnce(b)'
  <2> SUFFICES ASSUME NEW b \in DOMAIN batches PROVE IsSettledOnce(b)'
    BY <1>1 DEF Reconcile
  <2>1. b # None /\ Record(A, None) /\ batches' = batches
    BY <1>0, <1>1 DEF Reconcile
  <2>2. Settling(b)' = Settling(b)
    BY <1>b, <2>1 DEF Settling
  <2> QED BY <1>a, <1>b, <2>1, <2>2
<1>2. ASSUME NEW A, NEW d \in DOMAIN batches, Settle(d, A)
      PROVE  \A b \in DOMAIN batches' : IsSettledOnce(b)'
  <2> SUFFICES ASSUME NEW b \in DOMAIN batches PROVE IsSettledOnce(b)'
    BY <1>2 DEF Settle
  <2>1. Record(A, d) /\ batches[d].status = "draft" /\ batches' = [batches EXCEPT ![d] = Confirmed(@)]
    BY <1>2 DEF Settle
  <2>2. CASE b # d
    <3>1. Settling(b)' = Settling(b)
      BY <1>b, <2>1, <2>2 DEF Settling
    <3> QED BY <1>a, <1>b, <2>1, <2>2, <3>1
  <2>3. CASE b = d
    <3>1. Settling(b)' = {Len(recs) + 1}
      <4>1. Settling(b) = {}
        BY <1>0, <2>1, <2>3 DEF IsSettledOnce
      <4> QED BY <1>b, <2>1, <2>3, <4>1 DEF Settling
    <3>2. batches'[b].status = "confirmed" /\ batches'[b].items = batches[b].items
      BY <2>1, <2>3 DEF Confirmed
    <3>3. \A x \in batches[b].items : Requested(A, x) = Face[x]
      <4> TAKE x \in batches[b].items
      <4>1. x \in Records
        <5>1. batches[b] \in Batches
          BY DEF LedgerTypes
        <5> QED BY <5>1 DEF Batches
      <4>2. ~Occupied(x) /\ Requested(A, x) = Open(x)
        BY <1>2, <2>3 DEF Settle
      <4> QED BY <4>1, <4>2, UnoccupiedIsOpen
    <3>4. Cardinality(Settling(b)') = 1
      BY <3>1, FS_Singleton
    <3>5. \A r \in Settling(b)', x \in batches'[b].items : Requested(recs'[r].allocations, x) = Face[x]
      BY <1>b, <2>1, <3>1, <3>2, <3>3
    <3> QED BY <3>2, <3>4, <3>5 DEF IsSettledOnce
  <2> QED BY <2>2, <2>3
<1>3. ASSUME NEW items, Draft(items) PROVE \A b \in DOMAIN batches' : IsSettledOnce(b)'
  <2>0. PICK n : n = Len(batches) + 1
    OBVIOUS
  <2>1. /\ DOMAIN batches' = DOMAIN batches \cup {n} /\ n \notin DOMAIN batches /\ n \in Nat
        /\ \A b \in DOMAIN batches : batches'[b] = batches[b]
        /\ batches'[n].status = "draft" /\ recs' = recs
    BY <1>3, <2>0 DEF Draft, LedgerTypes
  <2>2. IsSettledOnce(n)'
    <3>1. \A r \in DOMAIN recs : recs[r].batch \in DOMAIN batches \cup {None}
      <4>1. \A r \in DOMAIN recs : recs[r] \in Rows
        BY DEF LedgerTypes
      <4> QED BY <4>1 DEF Rows
    <3>2. Settling(n)' = {}
      BY <2>1, <3>1, NoneAssumption DEF Settling
    <3> QED BY <2>1, <3>2 DEF IsSettledOnce
  <2>3. ASSUME NEW b \in DOMAIN batches PROVE IsSettledOnce(b)'
    BY <1>a, <2>1 DEF Settling
  <2> QED BY <2>1, <2>2, <2>3
<1>4. ASSUME UNCHANGED <<recs, batches>> PROVE \A b \in DOMAIN batches' : IsSettledOnce(b)'
  <2> SUFFICES ASSUME NEW b \in DOMAIN batches PROVE IsSettledOnce(b)'
    BY <1>4
  <2>1. Settling(b)' = Settling(b)
    BY <1>4 DEF Settling
  <2> QED BY <1>4, <1>a, <2>1
<1> QED BY <1>1, <1>2, <1>3, <1>4 DEF LedgerNext, Reverse, Cancel, ledger

-----------------------------------------------------------------------------
(* The ledger's types and promises are an invariant of every behaviour of  *)
(* the ledger: each of its steps keeps all three.                          *)
THEOREM LedgerInvariance == LedgerSpec => []LedgerInv
<1>1. LedgerInv /\ [LedgerNext]_ledger => LedgerInv'
  BY LedgerTypesStep, NoOverAllocationStep, SettledOnceStep DEF LedgerInv
<1> QED BY LedgerInitInv, <1>1, PTL DEF LedgerSpec

(* Nobody ever gives more of a record than its amount (_allocated_amounts).*)
THEOREM LedgerNeverOverAllocates == LedgerSpec => []NoOverAllocation
<1>1. LedgerInv => NoOverAllocation
  BY DEF LedgerInv
<1> QED BY LedgerInvariance, <1>1, PTL

(* One reconciliation confirms a batch, and it settles the batch exactly.  *)
THEOREM LedgerSettlesOnce == LedgerSpec => []BatchesAreSettledOnce
<1>1. LedgerInv => BatchesAreSettledOnce
  BY DEF LedgerInv
<1> QED BY LedgerInvariance, <1>1, PTL

(* Every reconciliation on record is about one party. *)
RecsFit == \A r \in DOMAIN recs : Fits(recs[r].allocations)

(* Only what fits is put on record (_validate_allocations).                *)
LEMMA OnlyFittingRecs == LedgerSpec => []RecsFit
<1>1. LedgerInit => RecsFit
  BY DEF LedgerInit, RecsFit
<1>2. LedgerTypes /\ RecsFit /\ [LedgerNext]_ledger => RecsFit'
  <2> SUFFICES ASSUME LedgerTypes, RecsFit, [LedgerNext]_ledger PROVE RecsFit'
    OBVIOUS
  <2>1. ASSUME NEW A, NEW b, Record(A, b), Sound(A) PROVE RecsFit'
    <3>1. /\ DOMAIN recs' = DOMAIN recs \cup {Len(recs) + 1}
          /\ \A r \in DOMAIN recs : recs'[r] = recs[r]
          /\ recs'[Len(recs) + 1].allocations = A
      BY <2>1 DEF Record, LedgerTypes
    <3>2. Fits(A)
      BY <2>1 DEF Sound
    <3> QED BY <3>1, <3>2 DEF RecsFit, Fits
  <2>2. CASE UNCHANGED recs
    BY <2>2 DEF RecsFit, Fits
  <2> QED BY <2>1, <2>2 DEF LedgerNext, Reconcile, Settle, Draft, Reverse, Cancel, ledger
<1>3. LedgerInv => LedgerTypes
  BY DEF LedgerInv
<1> QED BY <1>1, <1>2, <1>3, LedgerInvariance, PTL DEF LedgerSpec

(* Every batch has items on both sides. *)
BatchesHaveBoth ==
  \A b \in DOMAIN batches : batches[b].items \cap Invoices # {} /\ batches[b].items \cap Funds # {}

(* A draft with items on one side only is refused, and items never change. *)
LEMMA OnlyTwoSidedBatches == LedgerSpec => []BatchesHaveBoth
<1>1. LedgerInit => BatchesHaveBoth
  BY DEF LedgerInit, BatchesHaveBoth
<1>2. LedgerTypes /\ BatchesHaveBoth /\ [LedgerNext]_ledger => BatchesHaveBoth'
  <2> SUFFICES ASSUME LedgerTypes, BatchesHaveBoth, [LedgerNext]_ledger PROVE BatchesHaveBoth'
    OBVIOUS
  <2>1. ASSUME NEW items, Draft(items) PROVE BatchesHaveBoth'
    <3>1. /\ DOMAIN batches' = DOMAIN batches \cup {Len(batches) + 1}
          /\ \A b \in DOMAIN batches : batches'[b] = batches[b]
          /\ batches'[Len(batches) + 1].items = items
      BY <2>1 DEF Draft, LedgerTypes
    <3>2. items \cap Invoices # {} /\ items \cap Funds # {}
      BY <2>1 DEF Draft
    <3> QED BY <3>1, <3>2 DEF BatchesHaveBoth
  <2>2. ASSUME NEW A, NEW d \in DOMAIN batches, Settle(d, A) PROVE BatchesHaveBoth'
    <3>1. batches' = [batches EXCEPT ![d] = Confirmed(@)]
      BY <2>2 DEF Settle
    <3>2. DOMAIN batches' = DOMAIN batches /\ \A b \in DOMAIN batches : batches'[b].items = batches[b].items
      BY <3>1 DEF Confirmed
    <3> QED BY <3>2 DEF BatchesHaveBoth
  <2>3. CASE UNCHANGED batches
    BY <2>3 DEF BatchesHaveBoth
  <2> QED BY <2>1, <2>2, <2>3 DEF LedgerNext, Reconcile, Reverse, Cancel, ledger
<1>3. LedgerInv => LedgerTypes
  BY DEF LedgerInv
<1> QED BY <1>1, <1>2, <1>3, LedgerInvariance, PTL DEF LedgerSpec

(* What the invoices of a party were given is what its funds have given.   *)
LEMMA PartyBalances ==
  ASSUME LedgerTypes, RecsFit, NEW party \in Parties,
         NEW f, \A x \in Records : f[x] = Allocated(x)
  PROVE  SumFunctionOnSet(f, party \cap Invoices) = SumFunctionOnSet(f, party \cap Funds)
<1> DEFINE I == party \cap Invoices
           F == party \cap Funds
           amount == [p \in Recorded |-> p[2].amount]
           part == [x \in Records |-> Touching(x)]
<1>1. \A p \in ActiveAllocations : /\ p[2] \in Allocations
                                   /\ \E other \in Parties : {p[2].invoice, p[2].fund} \subseteq other
  <2> SUFFICES ASSUME NEW r \in Active, NEW a \in recs[r].allocations
               PROVE  a \in Allocations /\ \E other \in Parties : {a.invoice, a.fund} \subseteq other
    BY DEF ActiveAllocations
  <2>1. r \in DOMAIN recs
    BY DEF Active
  <2>2. recs[r] \in Rows
    BY <2>1 DEF LedgerTypes
  <2>3. a \in Allocations
    BY <2>2 DEF Rows
  <2> QED BY <2>1, <2>3 DEF RecsFit, Fits
<1>2. \A p \in ActiveAllocations : p[2].invoice \in Invoices /\ p[2].fund \in Funds
  BY <1>1 DEF Allocations
<1>3. \A p \in ActiveAllocations : p[2].invoice \in party <=> p[2].fund \in party
  BY <1>1, PartiesAreDisjoint
<1>4. \A x \in Invoices : Touching(x) = {p \in ActiveAllocations : p[2].invoice = x}
  BY <1>2, RecordsAreDisjoint DEF Touching, Holds
<1>5. \A x \in Funds : Touching(x) = {p \in ActiveAllocations : p[2].fund = x}
  BY <1>2, RecordsAreDisjoint DEF Touching, Holds
<1>6. I \subseteq Records /\ F \subseteq Records
  BY DEF Records
<1>7. IsFiniteSet(I) /\ IsFiniteSet(F)
  BY RecordsAreFinite, FS_Subset
<1> DEFINE all == {p \in ActiveAllocations : p[2].invoice \in party}
<1>8. /\ \A x \in I : part[x] \subseteq all
      /\ \A p \in all : \E x \in I : p \in part[x]
      /\ \A x, y \in I : x # y => part[x] \cap part[y] = {}
  BY <1>2, <1>3, <1>4, <1>6 DEF Records
<1>11. /\ \A x \in F : part[x] \subseteq all
       /\ \A p \in all : \E x \in F : p \in part[x]
       /\ \A x, y \in F : x # y => part[x] \cap part[y] = {}
  BY <1>2, <1>3, <1>5, <1>6 DEF Records
<1>9. \A x \in Records : IsFiniteSet(part[x]) /\ part[x] \subseteq Recorded /\ \A p \in part[x] : amount[p] \in Nat
  <2> SUFFICES ASSUME NEW x \in Records
               PROVE  IsFiniteSet(Touching(x)) /\ Touching(x) \subseteq Recorded
                        /\ \A p \in Touching(x) : amount[p] \in Nat
    OBVIOUS
  <2>1. Touching(x) \subseteq Recorded
    BY DEF Touching, ActiveAllocations, Active, Recorded
  <2> QED BY <2>1, RecordedIsFinite
<1>10. \A x \in Records : f[x] = SumFunctionOnSet(amount, part[x])
  <2> SUFFICES ASSUME NEW x \in Records PROVE f[x] = SumFunctionOnSet(amount, Touching(x))
    OBVIOUS
  <2> DEFINE h == [p \in Touching(x) |-> p[2].amount]
  <2>1. IsFiniteSet(Touching(x)) /\ \A p \in Touching(x) : amount[p] \in Nat /\ h[p] = amount[p]
    BY <1>9
  <2>2. DOMAIN h = Touching(x)
    OBVIOUS
  <2> HIDE DEF h, amount
  <2>3. SumFunction(h) = SumFunctionOnSet(amount, Touching(x))
    BY <2>1, <2>2, SumSpelledOut
  <2> QED BY <2>3 DEF Allocated, h
<1> HIDE DEF I, F, amount, part, all
<1>12. SumFunctionOnSet(f, I) = SumFunctionOnSet(amount, all)
  <2>1. /\ \A x \in I : IsFiniteSet(part[x]) /\ f[x] = SumFunctionOnSet(amount, part[x])
        /\ \A x \in I : \A p \in part[x] : amount[p] \in Nat
    BY <1>6, <1>9, <1>10
  <2> QED BY <1>7, <1>8, <2>1, SumOfParts
<1>13. SumFunctionOnSet(f, F) = SumFunctionOnSet(amount, all)
  <2>1. /\ \A x \in F : IsFiniteSet(part[x]) /\ f[x] = SumFunctionOnSet(amount, part[x])
        /\ \A x \in F : \A p \in part[x] : amount[p] \in Nat
    BY <1>6, <1>9, <1>10
  <2> QED BY <1>7, <1>11, <2>1, SumOfParts
<1> QED BY <1>12, <1>13 DEF I, F

-----------------------------------------------------------------------------
(* What the sessions know.                                                 *)

Planned(s) == Creates(s) \/ req[s].kind = "reverse"

(* The labels a request reaches with all invoices, and all funds, locked.  *)
InvoicesHeld == {"lock_funds", "check_items", "lock_allocations", "lock_recs",
                 "sum_invoices", "sum_funds", "commit"}
FundsHeld == InvoicesHeld \ {"lock_funds"}
ItemsChecked == FundsHeld \ {"check_items"}

(* Each variable is a function on the sessions.                            *)
SessionTypes ==
  /\ pc \in [Sessions -> Labels]
  /\ req = [s \in Sessions |-> req[s]]
  /\ read = [s \in Sessions |-> read[s]]
  /\ held = [s \in Sessions |-> held[s]]
  /\ want = [s \in Sessions |-> want[s]]

(* Which request is at which statement.                                    *)
KindsFit(s) ==
  /\ pc[s] = "idle" => req[s] = Idle
  /\ pc[s] = "page" => Creates(s)
  /\ pc[s] \in {"lock_batch", "check_items"} => req[s].kind = "confirm"
  /\ pc[s] \in {"sum_invoices", "sum_funds"} => Creates(s)
  /\ pc[s] \in {"lock_allocations", "lock_recs"} => Planned(s)
  /\ pc[s] \in {"lock_funds", "commit"} => Planned(s) \/ req[s].kind = "draft"
  /\ req[s].kind = "cancel" => pc[s] = "lock_invoices"
  /\ req[s].kind = "draft" => pc[s] \in {"lock_invoices", "lock_funds", "commit"}

(* What a session has locked at each statement.                            *)
RowsHeld(s) ==
  /\ pc[s] \in {"idle", "page"} => held[s] = {} /\ want[s] = {}
  /\ pc[s] \in {"check_items", "sum_invoices", "sum_funds", "commit"} => want[s] = {}
  /\ req[s].kind = "confirm" /\ pc[s] = "lock_batch" =>
       BatchRow(req[s].batch) \in held[s] \cup want[s]
  /\ req[s].kind = "confirm" /\ pc[s] \notin {"page", "lock_batch"} =>
       BatchRow(req[s].batch) \in held[s]
  /\ Planned(s) /\ pc[s] = "lock_invoices" =>
       InvoicesOf(req[s].plan) \subseteq held[s] \cup want[s]
  /\ Planned(s) /\ pc[s] \in InvoicesHeld =>
       /\ InvoicesOf(req[s].plan) \subseteq held[s]
       /\ FundsOf(req[s].plan) \subseteq held[s] \cup want[s]
  /\ Planned(s) /\ pc[s] \in FundsHeld => FundsOf(req[s].plan) \subseteq held[s]
  /\ req[s].kind = "cancel" => req[s].invoices \subseteq (held[s] \cup want[s]) \cap Invoices

(* A reversal knows its reconciliation, and commits the first one.         *)
ReversalFits(s) ==
  req[s].kind = "reverse" =>
    /\ req[s].rec \in DOMAIN recs /\ req[s].plan = recs[req[s].rec].allocations
    /\ pc[s] = "commit" => req[s].rec \notin reversed

(* What has been validated of a plan stays valid.                          *)
PlanFits(s) ==
  /\ req[s].kind = "direct" => IsFiniteSet(req[s].plan) /\ req[s].plan # {}
  /\ Creates(s) /\ pc[s] \in InvoicesHeld => Sound(req[s].plan)

(* The batch of a confirmation stays a draft, its items stay free.         *)
BatchFits(s) ==
  req[s].kind = "confirm" =>
    /\ req[s].batch \in DOMAIN batches
    /\ pc[s] \notin {"page", "lock_batch"} =>
         /\ batches[req[s].batch].status = "draft"
         /\ InvoicesOf(req[s].plan) = batches[req[s].batch].items \cap Invoices
         /\ FundsOf(req[s].plan) = batches[req[s].batch].items \cap Funds
         /\ IsFiniteSet(req[s].plan) /\ req[s].plan # {}
    /\ pc[s] \in ItemsChecked =>
         \A x \in batches[req[s].batch].items : ~Occupied(x) /\ Requested(req[s].plan, x) = Open(x)

(* The items of a new draft stay open and valid.                           *)
DraftFits(s) ==
  req[s].kind = "draft" =>
    /\ req[s] \in [kind : {"draft"}, scope : SUBSET Records, items : SUBSET Records]
    /\ \E party \in Parties, period \in Periods : req[s].scope = party \cap period
    /\ held[s] \cup want[s] \subseteq req[s].scope
    /\ req[s].items \subseteq held[s] /\ req[s].items \cap cancelled = {}
    /\ \A x \in req[s].items : Open(x) > 0
    /\ pc[s] \in {"lock_funds", "commit"} => req[s].items \cap Invoices # {}
    /\ pc[s] = "commit" => req[s].items \cap Funds # {}

(* The open amounts that were read, and those that were shown, are current.*)
ReadFits(s) ==
  /\ DOMAIN read[s] \subseteq Records
  /\ Creates(s) /\ pc[s] = "sum_funds" =>
       \A x \in InvoicesOf(req[s].plan) : read[s][x] = Open(x)
  /\ Creates(s) /\ pc[s] = "commit" =>
       /\ \A x \in RecordsOf(req[s].plan) :
            read[s][x] = Open(x) /\ Requested(req[s].plan, x) <= Open(x)
       /\ req[s].kind = "direct" => \A x \in RecordsOf(req[s].plan) : req[s].shown[x] = Open(x)

Local(s) == /\ KindsFit(s) /\ RowsHeld(s) /\ ReversalFits(s) /\ PlanFits(s)
            /\ BatchFits(s) /\ DraftFits(s) /\ ReadFits(s)

Inv == /\ LedgerTypes /\ SessionTypes /\ LocksAreExclusive
       /\ \A s \in Sessions : Local(s)

-----------------------------------------------------------------------------
(* What the ways through a transaction change.                             *)

(* The other sessions do not move.                                         *)
Same(t) == /\ pc'[t] = pc[t] /\ req'[t] = req[t] /\ read'[t] = read[t]
           /\ held'[t] = held[t] /\ want'[t] = want[t]

(* A step of s keeps the shapes and the locks of everybody.                *)
Moves(s) == SessionTypes' /\ LocksAreExclusive' /\ \A t \in Sessions \ {s} : Same(t)

(* A statement locks rows for its own session only.                        *)
LEMMA ContinueMoves ==
  ASSUME SessionTypes, LocksAreExclusive, NEW s \in Sessions, NEW label \in Labels, NEW rows,
         Continue(s, label, rows)
  PROVE  /\ Moves(s) /\ UNCHANGED ledger
         /\ pc'[s] = label /\ req'[s] = req[s] /\ read'[s] = read[s]
         /\ want[s] = {} /\ held'[s] = held[s] /\ want'[s] = rows \ held[s]
BY DEF Continue, Statement, SelectForUpdate, SessionTypes, LocksAreExclusive, Moves, Same

(* So does the first statement of a transaction.                           *)
LEMMA BeginMoves ==
  ASSUME SessionTypes, LocksAreExclusive, NEW s \in Sessions, NEW label \in Labels, NEW rows,
         NEW request, Begin(s, request, label, rows)
  PROVE  /\ Moves(s) /\ UNCHANGED ledger
         /\ pc'[s] = label /\ req'[s] = request /\ read'[s] = read[s]
         /\ want[s] = {} /\ held'[s] = held[s] /\ want'[s] = rows \ held[s]
BY DEF Begin, Statement, SelectForUpdate, SessionTypes, LocksAreExclusive, Moves, Same

(* The end of a transaction gives all locks back.                          *)
LEMMA LeaveMoves ==
  ASSUME SessionTypes, LocksAreExclusive, NEW s \in Sessions, NEW label \in Labels, NEW request,
         Leave(s, label, request)
  PROVE  /\ Moves(s)
         /\ pc'[s] = label /\ req'[s] = request /\ read'[s] = Nothing
         /\ held'[s] = {} /\ want'[s] = {}
BY DEF Leave, EndTransaction, SessionTypes, LocksAreExclusive, Moves, Same

(* A row is locked by nobody else.                                         *)
LEMMA LockMoves ==
  ASSUME SessionTypes, LocksAreExclusive, NEW s \in Sessions, NEW row \in want[s],
         LockRow(s, row), UNCHANGED <<pc, req, read>>
  PROVE  /\ Moves(s)
         /\ pc'[s] = pc[s] /\ req'[s] = req[s] /\ read'[s] = read[s]
         /\ held'[s] = held[s] \cup {row} /\ want'[s] = want[s] \ {row}
<1>1. /\ pc' = pc /\ req' = req /\ read' = read
      /\ held'[s] = held[s] \cup {row} /\ want'[s] = want[s] \ {row}
      /\ \A t \in Sessions \ {s} : held'[t] = held[t] /\ want'[t] = want[t] /\ row \notin held[t]
  BY DEF LockRow, SessionTypes
<1>2. SessionTypes'
  BY <1>1 DEF LockRow, SessionTypes
<1>3. LocksAreExclusive'
  <2> SUFFICES ASSUME NEW a \in Sessions, NEW b \in Sessions, a # b
               PROVE  held'[a] \cap held'[b] = {}
    BY DEF LocksAreExclusive
  <2>1. held[a] \cap held[b] = {}
    BY DEF LocksAreExclusive
  <2>2. CASE a = s
    BY <1>1, <2>1, <2>2
  <2>3. CASE b = s
    BY <1>1, <2>1, <2>3
  <2> QED BY <1>1, <2>1, <2>2, <2>3
<1> QED BY <1>1, <1>2, <1>3 DEF Moves, Same

(* A page shows what is committed and locks nothing.                       *)
LEMMA PageMoves ==
  ASSUME SessionTypes, LocksAreExclusive, NEW s \in Sessions, NEW label \in Labels, NEW request,
         pc' = [pc EXCEPT ![s] = label], req' = [req EXCEPT ![s] = request],
         UNCHANGED <<locks, read>>
  PROVE  /\ Moves(s)
         /\ pc'[s] = label /\ req'[s] = request /\ read'[s] = read[s]
         /\ held'[s] = held[s] /\ want'[s] = want[s]
BY DEF locks, SessionTypes, LocksAreExclusive, Moves, Same

(* A sum is read without a lock.                                           *)
LEMMA ReadMoves ==
  ASSUME SessionTypes, LocksAreExclusive, NEW s \in Sessions, NEW label \in Labels, NEW amounts,
         pc' = [pc EXCEPT ![s] = label], read' = [read EXCEPT ![s] = amounts],
         UNCHANGED <<locks, req>>
  PROVE  /\ Moves(s)
         /\ pc'[s] = label /\ req'[s] = req[s] /\ read'[s] = amounts
         /\ held'[s] = held[s] /\ want'[s] = want[s]
BY DEF locks, SessionTypes, LocksAreExclusive, Moves, Same

-----------------------------------------------------------------------------
(* What a commit may change under the eyes of a session: nothing about the *)
(* rows it has locked.                                                     *)
Keeps(t) ==
  /\ DOMAIN recs \subseteq DOMAIN recs' /\ \A r \in DOMAIN recs : recs'[r] = recs[r]
  /\ \A x \in held[t] : Touching(x)' = Touching(x)
  /\ cancelled' \cap held[t] \subseteq cancelled
  /\ DOMAIN batches \subseteq DOMAIN batches'
  /\ \A b \in DOMAIN batches : BatchRow(b) \in held[t] => batches'[b] = batches[b]
  /\ \A r \in reversed' \ reversed : InvoicesOf(recs[r].allocations) \cap held[t] = {}

(* Amounts of a record depend on the allocations that touch it.            *)
LEMMA OpenDepends ==
  ASSUME NEW x, Touching(x)' = Touching(x)
  PROVE  Open(x)' = Open(x) /\ Occupied(x)' = Occupied(x)
BY DEF Open, Allocated, Occupied

(* Without a commit, everything on the ledger reads as before.             *)
LEMMA LedgerSame ==
  ASSUME UNCHANGED ledger
  PROVE  /\ \A x : Open(x)' = Open(x) /\ Occupied(x)' = Occupied(x)
         /\ \A A : Sound(A)' = Sound(A)
         /\ \A t \in Sessions : Keeps(t)
         /\ LedgerTypes => LedgerTypes'
         /\ recs' = recs /\ reversed' = reversed /\ cancelled' = cancelled /\ batches' = batches
<1>1. recs' = recs /\ reversed' = reversed /\ cancelled' = cancelled /\ batches' = batches
  BY DEF ledger
<1>2. \A x : Touching(x)' = Touching(x)
  BY <1>1 DEF Touching, ActiveAllocations, Active
<1>3. \A x : Open(x)' = Open(x) /\ Occupied(x)' = Occupied(x)
  BY <1>2 DEF Open, Allocated, Occupied
<1>4. \A A : Sound(A)' = Sound(A)
  BY <1>1 DEF Sound, Fits
<1>5. \A t \in Sessions : Keeps(t)
  BY <1>1, <1>2 DEF Keeps
<1>6. LedgerTypes => LedgerTypes'
  BY <1>1 DEF LedgerTypes, Rows
<1> QED BY <1>1, <1>3, <1>4, <1>5, <1>6

(* What a session knows stays true while the others keep off its rows.     *)
LEMMA OthersKnow ==
  ASSUME LedgerTypes, NEW t \in Sessions, Local(t), Same(t), Keeps(t)
  PROVE  Local(t)'
<1>1. KindsFit(t)'
  BY DEF Local, Same, KindsFit, Creates, Planned
<1>2. RowsHeld(t)'
  BY DEF Local, Same, RowsHeld, Creates, Planned
<1>3. ReversalFits(t)'
  <2> SUFFICES ASSUME req[t].kind = "reverse"
               PROVE  /\ req[t].rec \in DOMAIN recs' /\ req[t].plan = recs'[req[t].rec].allocations
                      /\ pc[t] = "commit" => req[t].rec \notin reversed'
    BY DEF Same, ReversalFits
  <2>1. /\ req[t].rec \in DOMAIN recs /\ req[t].plan = recs[req[t].rec].allocations
        /\ pc[t] = "commit" => req[t].rec \notin reversed
    BY DEF Local, ReversalFits
  <2>2. ASSUME pc[t] = "commit" PROVE req[t].rec \notin reversed'
    <3>1. InvoicesOf(req[t].plan) \subseteq held[t]
      BY <2>2 DEF Local, RowsHeld, Planned, InvoicesHeld
    <3>2. InvoicesOf(req[t].plan) # {}
      BY <2>1 DEF LedgerTypes, InvoicesOf
    <3> QED BY <2>1, <2>2, <3>1, <3>2 DEF Keeps
  <2> QED BY <2>1, <2>2 DEF Keeps
<1>4. PlanFits(t)'
  <2>1. ASSUME Creates(t), pc[t] \in InvoicesHeld
        PROVE  Sound(req[t].plan)' /\ InvoicesOf(req[t].plan) \subseteq held[t]
    <3>1. Sound(req[t].plan)
      BY <2>1 DEF Local, PlanFits
    <3>2. InvoicesOf(req[t].plan) \subseteq held[t]
      BY <2>1 DEF Local, RowsHeld, Planned
    <3>3. req'[t].plan = req[t].plan
      BY DEF Same
    <3> QED BY <3>1, <3>2, <3>3 DEF Sound, Keeps, Fits
  <2> QED BY <2>1 DEF Local, Same, PlanFits, Creates, InvoicesHeld
<1>5. BatchFits(t)'
  <2> SUFFICES ASSUME req[t].kind = "confirm" PROVE BatchFits(t)'
    BY DEF Same, BatchFits
  <2> DEFINE b == req[t].batch
  <2>1. b \in DOMAIN batches /\ b \in DOMAIN batches' /\ req'[t] = req[t] /\ pc'[t] = pc[t]
    BY DEF Local, BatchFits, Keeps, Same
  <2>2. ASSUME pc[t] \notin {"page", "lock_batch"}
        PROVE  batches'[b] = batches[b]
    BY <2>1, <2>2 DEF Local, RowsHeld, Keeps
  <2>3. ASSUME pc[t] \in ItemsChecked
        PROVE  \A x \in batches[b].items :
                 ~Occupied(x)' /\ Requested(req[t].plan, x) = Open(x)'
    <3> TAKE x \in batches[b].items
    <3>1. x \in Invoices \cup Funds
      <4>1. batches[b] \in Batches
        BY <2>1 DEF LedgerTypes
      <4> QED BY <4>1 DEF Batches, Records
    <3>2. x \in held[t]
      BY <2>3, <3>1 DEF Local, BatchFits, RowsHeld, Planned, Creates, InvoicesHeld, FundsHeld, ItemsChecked
    <3>3. ~Occupied(x) /\ Requested(req[t].plan, x) = Open(x)
      BY <2>3 DEF Local, BatchFits
    <3>4. Open(x)' = Open(x) /\ Occupied(x)' = Occupied(x)
      BY <3>2, OpenDepends DEF Keeps
    <3> QED BY <3>3, <3>4
  <2>4. pc[t] \in ItemsChecked => pc[t] \notin {"page", "lock_batch"}
    BY DEF ItemsChecked, FundsHeld, InvoicesHeld
  <2>5. pc[t] \in ItemsChecked =>
          \A x \in batches'[b].items : ~Occupied(x)' /\ Requested(req[t].plan, x) = Open(x)'
    BY <2>2, <2>3, <2>4
  <2>6. pc[t] \notin {"page", "lock_batch"} =>
         /\ batches'[b].status = "draft"
         /\ InvoicesOf(req[t].plan) = batches'[b].items \cap Invoices
         /\ FundsOf(req[t].plan) = batches'[b].items \cap Funds
         /\ IsFiniteSet(req[t].plan) /\ req[t].plan # {}
    BY <2>2 DEF Local, BatchFits
  <2> QED BY <2>1, <2>5, <2>6 DEF BatchFits
<1>6. DraftFits(t)'
  <2> SUFFICES ASSUME req[t].kind = "draft" PROVE DraftFits(t)'
    BY DEF Same, DraftFits
  <2>1. DraftFits(t)
    BY DEF Local
  <2>2. \A x \in req[t].items : Open(x)' = Open(x)
    BY <2>1, OpenDepends DEF DraftFits, Keeps
  <2>3. req[t].items \cap cancelled' = {}
    BY <2>1 DEF DraftFits, Keeps
  <2> QED BY <2>1, <2>2, <2>3 DEF Same, DraftFits
<1>7. ReadFits(t)'
  <2>1. ReadFits(t)
    BY DEF Local
  <2>2. ASSUME Creates(t), pc[t] \in {"sum_funds", "commit"}
        PROVE  \A x \in RecordsOf(req[t].plan) : Open(x)' = Open(x)
    <3>1. RecordsOf(req[t].plan) \subseteq held[t]
      BY <2>2 DEF Local, RowsHeld, Planned, InvoicesHeld, FundsHeld, RecordsOf
    <3> QED BY <3>1, OpenDepends DEF Keeps
  <2>3. InvoicesOf(req[t].plan) \subseteq RecordsOf(req[t].plan)
    BY DEF RecordsOf
  <2> QED BY <2>1, <2>2, <2>3 DEF Same, ReadFits, Creates
<1> QED BY <1>1, <1>2, <1>3, <1>4, <1>5, <1>6, <1>7 DEF Local

-----------------------------------------------------------------------------
(* The steps that commit nothing.                                          *)
Quiet(s) == Moves(s) /\ UNCHANGED ledger /\ Local(s)'

(* A session without a request knows nothing.                              *)
LEMMA IdleKnows ==
  ASSUME NEW s \in Sessions, pc'[s] = "idle", req'[s] = Idle, read'[s] = Nothing,
         held'[s] = {}, want'[s] = {}
  PROVE  Local(s)'
BY DEF Local, KindsFit, RowsHeld, ReversalFits, PlanFits, BatchFits, DraftFits, ReadFits,
       Creates, Planned, InvoicesHeld, FundsHeld, ItemsChecked, Idle, Nothing

(* A refused request leaves no trace.                                      *)
LEMMA RejectIsQuiet ==
  ASSUME Inv, NEW s \in Sessions, Reject(s)
  PROVE  Quiet(s)
<1>1. "idle" \in Labels
  BY DEF Labels
<1> QED BY <1>1, LeaveMoves, IdleKnows DEF Reject, Inv, Quiet

(* A row more is locked.                                                   *)
LEMMA LockIsQuiet ==
  ASSUME Inv, NEW s \in Sessions, Lock(s)
  PROVE  Quiet(s)
<1>0. PICK row \in want[s] : LockRow(s, row) /\ UNCHANGED <<ledger, pc, req, read>>
  BY DEF Lock
<1>1. /\ Moves(s) /\ UNCHANGED ledger
      /\ pc'[s] = pc[s] /\ req'[s] = req[s] /\ read'[s] = read[s]
      /\ held'[s] = held[s] \cup {row} /\ want'[s] = want[s] \ {row} /\ row \in want[s]
  BY <1>0, LockMoves DEF Inv
<1>2. Local(s)'
  BY <1>1, LedgerSame DEF Inv, Local, KindsFit, RowsHeld, ReversalFits, PlanFits, BatchFits,
       DraftFits, ReadFits, Creates, Planned, InvoicesHeld, FundsHeld, ItemsChecked
<1> QED BY <1>1, <1>2 DEF Quiet

(* A form is posted: its invoices are locked first.                        *)
LEMMA DirectConfirmIsQuiet ==
  ASSUME Inv, NEW s \in Sessions, DirectConfirm(s)
  PROVE  Quiet(s)
<1>0. /\ pc[s] = "page" /\ req[s].kind = "direct" /\ "lock_invoices" \in Labels
      /\ Continue(s, "lock_invoices", InvoicesOf(req[s].plan))
  BY DEF DirectConfirm, Labels
<1>1. /\ Moves(s) /\ UNCHANGED ledger
      /\ pc'[s] = "lock_invoices" /\ req'[s] = req[s] /\ read'[s] = read[s]
      /\ held'[s] = held[s] /\ want'[s] = InvoicesOf(req[s].plan) \ held[s]
  BY <1>0, ContinueMoves DEF Inv
<1>2. Local(s)'
  BY <1>0, <1>1, LedgerSame DEF Inv, Local, KindsFit, RowsHeld, ReversalFits, PlanFits, BatchFits,
       DraftFits, ReadFits, Creates, Planned, InvoicesHeld, FundsHeld, ItemsChecked
<1> QED BY <1>1, <1>2 DEF Quiet

(* A batch is confirmed: its row is locked first.                          *)
LEMMA SettlementConfirmIsQuiet ==
  ASSUME Inv, NEW s \in Sessions, SettlementConfirm(s)
  PROVE  Quiet(s)
<1>0. /\ pc[s] = "page" /\ req[s].kind = "confirm" /\ "lock_batch" \in Labels
      /\ Continue(s, "lock_batch", {BatchRow(req[s].batch)})
  BY DEF SettlementConfirm, Labels
<1>1. /\ Moves(s) /\ UNCHANGED ledger
      /\ pc'[s] = "lock_batch" /\ req'[s] = req[s] /\ read'[s] = read[s]
      /\ held'[s] = held[s] /\ want'[s] = {BatchRow(req[s].batch)} \ held[s]
  BY <1>0, ContinueMoves DEF Inv
<1>2. Local(s)'
  BY <1>0, <1>1, LedgerSame DEF Inv, Local, KindsFit, RowsHeld, ReversalFits, PlanFits, BatchFits,
       DraftFits, ReadFits, Creates, Planned, InvoicesHeld, FundsHeld, ItemsChecked
<1> QED BY <1>1, <1>2 DEF Quiet

(* A plan that names each pair of known records once is finite.            *)
LEMMA PlanIsFinite ==
  ASSUME NEW A, NoPairTwice(A), InvoicesOf(A) \subseteq Invoices, FundsOf(A) \subseteq Funds
  PROVE  IsFiniteSet(A)
<1> DEFINE pair == [a \in A |-> <<a.invoice, a.fund>>]
<1>1. IsFiniteSet(Invoices \X Funds)
  BY RecordsAreFinite, FS_Product
<1>2. pair \in Injection(A, Invoices \X Funds)
  <2>1. pair \in [A -> Invoices \X Funds]
    BY DEF InvoicesOf, FundsOf
  <2>2. \A a, c \in A : pair[a] = pair[c] => a = c
    BY DEF NoPairTwice
  <2> HIDE DEF pair
  <2> QED BY <2>1, <2>2 DEF Injection, IsInjective
<1> HIDE DEF pair
<1> QED BY <1>1, <1>2, FS_Injection

(* The locked batch is a draft that the plan covers.                       *)
LEMMA BatchLockedIsQuiet ==
  ASSUME Inv, NEW s \in Sessions, BatchLocked(s)
  PROVE  Quiet(s)
<1> DEFINE batch == batches[req[s].batch]
           plan == req[s].plan
<1>a. ASSUME batch.status = "draft", NoPairTwice(plan), plan # {},
             InvoicesOf(plan) = batch.items \cap Invoices, FundsOf(plan) = batch.items \cap Funds,
             Continue(s, "lock_invoices", InvoicesOf(plan)), Finished(s, "lock_batch")
      PROVE  Quiet(s)
  <2>0. pc[s] = "lock_batch" /\ want[s] = {} /\ "lock_invoices" \in Labels
    BY <1>a DEF Finished, Labels
  <2>1. IsFiniteSet(plan)
    BY <1>a, PlanIsFinite
  <2>2. /\ Moves(s) /\ UNCHANGED ledger
        /\ pc'[s] = "lock_invoices" /\ req'[s] = req[s] /\ read'[s] = read[s]
        /\ held'[s] = held[s] /\ want'[s] = InvoicesOf(plan) \ held[s]
    BY <1>a, <2>0, ContinueMoves DEF Inv
  <2>3. Local(s)'
    BY <1>a, <2>0, <2>1, <2>2, LedgerSame DEF Inv, Local, KindsFit, RowsHeld, ReversalFits, PlanFits,
         BatchFits, DraftFits, ReadFits, Creates, Planned, InvoicesHeld, FundsHeld, ItemsChecked
  <2> QED BY <2>2, <2>3 DEF Quiet
<1> QED BY <1>a, RejectIsQuiet DEF BatchLocked

(* The locked invoices are valid; the plan is sound from now on.           *)
LEMMA InvoicesLockedIsQuiet ==
  ASSUME Inv, NEW s \in Sessions, InvoicesLocked(s)
  PROVE  Quiet(s)
<1>a. ASSUME Creates(s) => Sound(req[s].plan), Planned(s),
             Continue(s, "lock_funds", FundsOf(req[s].plan)), Finished(s, "lock_invoices")
      PROVE  Quiet(s)
  <2>0. pc[s] = "lock_invoices" /\ want[s] = {} /\ "lock_funds" \in Labels
    BY <1>a DEF Finished, Labels
  <2>1. /\ Moves(s) /\ UNCHANGED ledger
        /\ pc'[s] = "lock_funds" /\ req'[s] = req[s] /\ read'[s] = read[s]
        /\ held'[s] = held[s] /\ want'[s] = FundsOf(req[s].plan) \ held[s]
    BY <1>a, <2>0, ContinueMoves DEF Inv
  <2>2. Local(s)'
    BY <1>a, <2>0, <2>1, LedgerSame DEF Inv, Local, KindsFit, RowsHeld, ReversalFits, PlanFits,
         BatchFits, DraftFits, ReadFits, Creates, Planned, InvoicesHeld, FundsHeld, ItemsChecked
  <2> QED BY <2>1, <2>2 DEF Quiet
<1> QED BY <1>a, RejectIsQuiet DEF InvoicesLocked, Planned

(* All funds of the plan are locked.                                       *)
LEMMA FundsLockedIsQuiet ==
  ASSUME Inv, NEW s \in Sessions, FundsLocked(s)
  PROVE  Quiet(s)
<1>0. PICK label, rows :
        /\ label \in {"check_items", "lock_allocations"} /\ Continue(s, label, rows) /\ (label = "check_items" <=> req[s].kind = "confirm")
        /\ label = "check_items" => rows = {}
        /\ Planned(s) /\ pc[s] = "lock_funds" /\ want[s] = {}
  BY DEF FundsLocked, Finished, Planned
<1>1. /\ Moves(s) /\ UNCHANGED ledger
      /\ pc'[s] = label /\ req'[s] = req[s] /\ read'[s] = read[s]
      /\ held'[s] = held[s] /\ want'[s] = rows \ held[s]
  <2>1. label \in Labels
    BY <1>0 DEF Labels
  <2> QED BY <1>0, <2>1, ContinueMoves DEF Inv
<1>2. Local(s)'
  BY <1>0, <1>1, LedgerSame DEF Inv, Local, KindsFit, RowsHeld, ReversalFits, PlanFits, BatchFits,
       DraftFits, ReadFits, Creates, Planned, InvoicesHeld, FundsHeld, ItemsChecked
<1> QED BY <1>1, <1>2 DEF Quiet

(* The items of the batch are free and the plan gives all of each.         *)
LEMMA CheckItemsIsQuiet ==
  ASSUME Inv, NEW s \in Sessions, CheckItems(s)
  PROVE  Quiet(s)
<1>a. ASSUME \A x \in batches[req[s].batch].items : ~Occupied(x) /\ Requested(req[s].plan, x) = Open(x),
             Continue(s, "lock_allocations", AllocationRows(s)), Finished(s, "check_items")
      PROVE  Quiet(s)
  <2>0. pc[s] = "check_items" /\ "lock_allocations" \in Labels
    BY <1>a DEF Finished, Labels
  <2>1. /\ Moves(s) /\ UNCHANGED ledger
        /\ pc'[s] = "lock_allocations" /\ req'[s] = req[s] /\ read'[s] = read[s]
        /\ held'[s] = held[s]
    BY <1>a, <2>0, ContinueMoves DEF Inv
  <2>2. Local(s)'
    BY <1>a, <2>0, <2>1, LedgerSame DEF Inv, Local, KindsFit, RowsHeld, ReversalFits, PlanFits,
         BatchFits, DraftFits, ReadFits, Creates, Planned, InvoicesHeld, FundsHeld, ItemsChecked
  <2> QED BY <2>1, <2>2 DEF Quiet
<1> QED BY <1>a, RejectIsQuiet DEF CheckItems

(* The reconciliations of the allocations are locked next.                 *)
LEMMA AllocationsLockedIsQuiet ==
  ASSUME Inv, NEW s \in Sessions, AllocationsLocked(s)
  PROVE  Quiet(s)
<1>0. PICK rows : Continue(s, "lock_recs", rows)
  BY DEF AllocationsLocked
<1>1. pc[s] = "lock_allocations" /\ "lock_recs" \in Labels
  BY DEF AllocationsLocked, Finished, Labels
<1>2. /\ Moves(s) /\ UNCHANGED ledger
      /\ pc'[s] = "lock_recs" /\ req'[s] = req[s] /\ read'[s] = read[s]
      /\ held'[s] = held[s]
  BY <1>0, <1>1, ContinueMoves DEF Inv
<1>3. Local(s)'
  BY <1>1, <1>2, LedgerSame DEF Inv, Local, KindsFit, RowsHeld, ReversalFits, PlanFits, BatchFits,
       DraftFits, ReadFits, Creates, Planned, InvoicesHeld, FundsHeld, ItemsChecked
<1> QED BY <1>2, <1>3 DEF Quiet

(* A reversal is the first one as long as it holds its invoices.           *)
LEMMA RecsLockedIsQuiet ==
  ASSUME Inv, NEW s \in Sessions, RecsLocked(s)
  PROVE  Quiet(s)
<1>a. ASSUME NEW label \in {"sum_invoices", "commit"}, Continue(s, label, {}), Finished(s, "lock_recs"),
             label = "sum_invoices" <=> Creates(s), label = "commit" => req[s].rec \notin reversed
      PROVE  Quiet(s)
  <2>0. pc[s] = "lock_recs" /\ label \in Labels
    BY <1>a DEF Finished, Labels
  <2>1. /\ Moves(s) /\ UNCHANGED ledger
        /\ pc'[s] = label /\ req'[s] = req[s] /\ read'[s] = read[s]
        /\ held'[s] = held[s] /\ want'[s] = {}
    BY <1>a, <2>0, ContinueMoves DEF Inv
  <2>2. Local(s)'
    BY <1>a, <2>0, <2>1, LedgerSame DEF Inv, Local, KindsFit, RowsHeld, ReversalFits, PlanFits,
         BatchFits, DraftFits, ReadFits, Creates, Planned, InvoicesHeld, FundsHeld, ItemsChecked
  <2> QED BY <2>1, <2>2 DEF Quiet
<1> QED BY <1>a, RejectIsQuiet DEF RecsLocked

(* The open amounts of the locked invoices are read.                       *)
LEMMA SumInvoicesIsQuiet ==
  ASSUME Inv, NEW s \in Sessions, SumInvoices(s)
  PROVE  Quiet(s)
<1> DEFINE amounts == [x \in InvoicesOf(req[s].plan) |-> Open(x)]
<1>0. /\ pc[s] = "sum_invoices" /\ want[s] = {} /\ "sum_funds" \in Labels
      /\ pc' = [pc EXCEPT ![s] = "sum_funds"] /\ read' = [read EXCEPT ![s] = amounts]
      /\ UNCHANGED <<locks, req>> /\ UNCHANGED ledger
  BY DEF SumInvoices, Finished, Labels
<1>1. /\ DOMAIN amounts = InvoicesOf(req[s].plan)
      /\ \A x \in InvoicesOf(req[s].plan) : amounts[x] = Open(x)
  OBVIOUS
<1>2. InvoicesOf(req[s].plan) \subseteq Records
  <2>1. req[s].plan \subseteq Allocations
    BY <1>0 DEF Inv, Local, KindsFit, PlanFits, InvoicesHeld, Sound
  <2> QED BY <2>1 DEF InvoicesOf, Allocations, Records
<1> HIDE DEF amounts
<1>3. /\ Moves(s)
      /\ pc'[s] = "sum_funds" /\ req'[s] = req[s] /\ read'[s] = amounts
      /\ held'[s] = held[s] /\ want'[s] = want[s]
  BY <1>0, ReadMoves DEF Inv
<1>4. Local(s)'
  BY <1>0, <1>1, <1>2, <1>3, LedgerSame DEF Inv, Local, KindsFit, RowsHeld, ReversalFits, PlanFits,
       BatchFits, DraftFits, ReadFits, Creates, Planned, InvoicesHeld, FundsHeld, ItemsChecked
<1> QED BY <1>0, <1>3, <1>4 DEF Quiet

(* The decision: what was read is what is open, and it is enough.          *)
LEMMA SumFundsIsQuiet ==
  ASSUME Inv, NEW s \in Sessions, SumFunds(s)
  PROVE  Quiet(s)
<1> DEFINE plan == req[s].plan
           open == [x \in RecordsOf(plan) |-> IF x \in Invoices THEN read[s][x] ELSE Open(x)]
<1>0. pc[s] = "sum_funds" /\ want[s] = {} /\ "commit" \in Labels /\ Creates(s)
  BY DEF SumFunds, Finished, Labels, Inv, Local, KindsFit
<1>1. plan \subseteq Allocations
  BY <1>0 DEF Inv, Local, PlanFits, InvoicesHeld, Sound
<1>2. DOMAIN open = RecordsOf(plan) /\ \A x \in RecordsOf(plan) : open[x] = Open(x)
  <2>1. \A x \in RecordsOf(plan) : x \in Invoices => x \in InvoicesOf(plan)
    BY <1>1, RecordsAreDisjoint DEF RecordsOf, InvoicesOf, FundsOf, Allocations
  <2>2. \A x \in InvoicesOf(plan) : read[s][x] = Open(x)
    BY <1>0 DEF Inv, Local, ReadFits
  <2> QED BY <2>1, <2>2
<1>3. RecordsOf(plan) \subseteq Records
  BY <1>1 DEF RecordsOf, InvoicesOf, FundsOf, Allocations, Records
<1> HIDE DEF open
<1>a. ASSUME NEW amounts, amounts = open, Accepted(req[s], amounts),
             read' = [read EXCEPT ![s] = amounts], pc' = [pc EXCEPT ![s] = "commit"],
             UNCHANGED <<locks, req>>, UNCHANGED ledger
      PROVE  Quiet(s)
  <2>1. /\ \A x \in RecordsOf(plan) : Requested(plan, x) <= amounts[x]
        /\ req[s].kind = "direct" => req[s].shown = amounts
    BY <1>a, Zenon DEF Accepted
  <2>2. /\ pc' = [pc EXCEPT ![s] = "commit"] /\ read' = [read EXCEPT ![s] = amounts]
        /\ UNCHANGED <<locks, req>>
    BY <1>a
  <2>3. SessionTypes /\ LocksAreExclusive
    BY DEF Inv
  <2>4. /\ Moves(s)
        /\ pc'[s] = "commit" /\ req'[s] = req[s] /\ read'[s] = amounts
        /\ held'[s] = held[s] /\ want'[s] = want[s]
    BY <2>2, <2>3, <1>0, ReadMoves
  <2>5. Local(s)'
    BY <1>a, <1>0, <1>2, <1>3, <2>1, <2>4, LedgerSame DEF Inv, Local, KindsFit, RowsHeld, ReversalFits,
         PlanFits, BatchFits, DraftFits, ReadFits, Creates, Planned, InvoicesHeld, FundsHeld, ItemsChecked
  <2> QED BY <1>a, <2>4, <2>5 DEF Quiet
<1>b. \/ /\ Accepted(req[s], open) /\ read' = [read EXCEPT ![s] = open]
         /\ pc' = [pc EXCEPT ![s] = "commit"] /\ UNCHANGED <<ledger, locks, req>>
      \/ Reject(s)
  BY Zenon DEF SumFunds, open
<1>c. UNCHANGED <<ledger, locks, req>> => UNCHANGED <<locks, req>> /\ UNCHANGED ledger
  OBVIOUS
<1> QED BY <1>a, <1>b, <1>c, RejectIsQuiet

(* A reversal locks the invoices of its reconciliation first.              *)
LEMMA ReverseRequestIsQuiet ==
  ASSUME Inv, NEW s \in Sessions, NEW r \in DOMAIN recs, ReverseRequest(s, r)
  PROVE  Quiet(s)
<1> DEFINE request == [kind |-> "reverse", rec |-> r, plan |-> recs[r].allocations]
<1>0. /\ pc[s] = "idle" /\ "lock_invoices" \in Labels
      /\ Begin(s, request, "lock_invoices", InvoicesOf(recs[r].allocations))
  BY DEF ReverseRequest, Labels
<1>1. request.kind = "reverse" /\ request.rec = r /\ request.plan = recs[r].allocations
  OBVIOUS
<1> HIDE DEF request
<1>2. /\ Moves(s) /\ UNCHANGED ledger
      /\ pc'[s] = "lock_invoices" /\ req'[s] = request /\ read'[s] = read[s]
      /\ held'[s] = held[s] /\ want'[s] = InvoicesOf(recs[r].allocations) \ held[s]
  BY <1>0, BeginMoves DEF Inv
<1>3. Local(s)'
  BY <1>0, <1>1, <1>2, LedgerSame DEF Inv, Local, KindsFit, RowsHeld, ReversalFits, PlanFits,
       BatchFits, DraftFits, ReadFits, Creates, Planned, InvoicesHeld, FundsHeld, ItemsChecked
<1> QED BY <1>2, <1>3 DEF Quiet

(* A correction locks the invoices it voids or red-flags.                  *)
LEMMA CancelInvoicesIsQuiet ==
  ASSUME Inv, NEW s \in Sessions, NEW N \in SUBSET Invoices, CancelInvoices(s, N)
  PROVE  Quiet(s)
<1> DEFINE request == [kind |-> "cancel", invoices |-> N]
<1>0. pc[s] = "idle" /\ "lock_invoices" \in Labels /\ Begin(s, request, "lock_invoices", N)
  BY DEF CancelInvoices, Labels
<1>1. request.kind = "cancel" /\ request.invoices = N
  OBVIOUS
<1> HIDE DEF request
<1>2. /\ Moves(s) /\ UNCHANGED ledger
      /\ pc'[s] = "lock_invoices" /\ req'[s] = request /\ read'[s] = read[s]
      /\ held'[s] = held[s] /\ want'[s] = N \ held[s]
  BY <1>0, BeginMoves DEF Inv
<1>3. Local(s)'
  BY <1>0, <1>1, <1>2, LedgerSame DEF Inv, Local, KindsFit, RowsHeld, ReversalFits, PlanFits,
       BatchFits, DraftFits, ReadFits, Creates, Planned, InvoicesHeld, FundsHeld, ItemsChecked
<1> QED BY <1>2, <1>3 DEF Quiet

(* A new draft asks for the free invoices of one party and one period.     *)
LEMMA SettlementCreateIsQuiet ==
  ASSUME Inv, NEW s \in Sessions, NEW party \in Parties, NEW period \in Periods,
         SettlementCreate(s, party, period)
  PROVE  Quiet(s)
<1> DEFINE request == [kind |-> "draft", scope |-> party \cap period, items |-> {}]
           rows == {i \in (party \cap period \cap Invoices) \ cancelled : ~Occupied(i)}
<1>0. pc[s] = "idle" /\ "lock_invoices" \in Labels /\ Begin(s, request, "lock_invoices", rows)
  BY DEF SettlementCreate, Labels
<1>1. /\ request.kind = "draft" /\ request.scope = party \cap period /\ request.items = {}
      /\ request \in [kind : {"draft"}, scope : SUBSET Records, items : SUBSET Records]
      /\ rows \subseteq party \cap period
  BY ScopeAssumption
<1> HIDE DEF request, rows
<1>2. /\ Moves(s) /\ UNCHANGED ledger
      /\ pc'[s] = "lock_invoices" /\ req'[s] = request /\ read'[s] = read[s]
      /\ held'[s] = held[s] /\ want'[s] = rows \ held[s]
  BY <1>0, BeginMoves DEF Inv
<1>3. Local(s)'
  BY <1>0, <1>1, <1>2, LedgerSame DEF Inv, Local, KindsFit, RowsHeld, ReversalFits, PlanFits,
       BatchFits, DraftFits, ReadFits, Creates, Planned, InvoicesHeld, FundsHeld, ItemsChecked
<1> QED BY <1>2, <1>3 DEF Quiet

(* What a draft keeps of the rows it locked is open and valid.             *)
LEMMA DraftInvoicesLockedIsQuiet ==
  ASSUME Inv, NEW s \in Sessions, DraftInvoicesLocked(s)
  PROVE  Quiet(s)
<1> DEFINE chosen == DraftItems(s, Invoices)
           request == [req[s] EXCEPT !.items = chosen]
           rows == {f \in req[s].scope \cap Funds : ~Occupied(f)}
<1>0. pc[s] = "lock_invoices" /\ want[s] = {} /\ "lock_funds" \in Labels /\ req[s].kind = "draft"
  BY DEF DraftInvoicesLocked, Finished, Labels
<1>1. req[s] \in [kind : {"draft"}, scope : SUBSET Records, items : SUBSET Records]
  BY <1>0 DEF Inv, Local, DraftFits
<1>2. /\ chosen \subseteq held[s] \cap Invoices /\ chosen \cap cancelled = {}
      /\ \A x \in chosen : Open(x) > 0
  BY DEF DraftItems
<1>3. /\ request.kind = "draft" /\ request.scope = req[s].scope /\ request.items = chosen
      /\ request \in [kind : {"draft"}, scope : SUBSET Records, items : SUBSET Records]
      /\ rows \subseteq req[s].scope
  <2> HIDE DEF chosen
  <2> QED BY <1>1, <1>2 DEF Records
<1>a. ASSUME chosen # {}, Begin(s, request, "lock_funds", rows) PROVE Quiet(s)
  <2> HIDE DEF request, rows, chosen
  <2>1. /\ Moves(s) /\ UNCHANGED ledger
        /\ pc'[s] = "lock_funds" /\ req'[s] = request /\ read'[s] = read[s]
        /\ held'[s] = held[s] /\ want'[s] = rows \ held[s]
    BY <1>a, <1>0, BeginMoves DEF Inv
  <2>2. Local(s)'
    BY <1>a, <1>0, <1>2, <1>3, <2>1, LedgerSame DEF Inv, Local, KindsFit, RowsHeld, ReversalFits,
         PlanFits, BatchFits, DraftFits, ReadFits, Creates, Planned, InvoicesHeld, FundsHeld, ItemsChecked
  <2> QED BY <2>1, <2>2 DEF Quiet
<1> QED BY <1>a, RejectIsQuiet DEF DraftInvoicesLocked

(* The funds of a draft likewise.                                          *)
LEMMA DraftFundsLockedIsQuiet ==
  ASSUME Inv, NEW s \in Sessions, DraftFundsLocked(s)
  PROVE  Quiet(s)
<1> DEFINE chosen == DraftItems(s, Funds)
           request == [req[s] EXCEPT !.items = @ \cup chosen]
<1>0. pc[s] = "lock_funds" /\ want[s] = {} /\ "commit" \in Labels /\ req[s].kind = "draft"
  BY DEF DraftFundsLocked, Finished, Labels
<1>1. req[s] \in [kind : {"draft"}, scope : SUBSET Records, items : SUBSET Records]
  BY <1>0 DEF Inv, Local, DraftFits
<1>2. /\ chosen \subseteq held[s] \cap Funds /\ chosen \cap cancelled = {}
      /\ \A x \in chosen : Open(x) > 0
  BY DEF DraftItems
<1>3. /\ request.kind = "draft" /\ request.scope = req[s].scope
      /\ request.items = req[s].items \cup chosen
      /\ request \in [kind : {"draft"}, scope : SUBSET Records, items : SUBSET Records]
  <2> HIDE DEF chosen
  <2> QED BY <1>1, <1>2 DEF Records
<1>a. ASSUME chosen # {}, Begin(s, request, "commit", {}) PROVE Quiet(s)
  <2> HIDE DEF request, chosen
  <2>1. /\ Moves(s) /\ UNCHANGED ledger
        /\ pc'[s] = "commit" /\ req'[s] = request /\ read'[s] = read[s]
        /\ held'[s] = held[s] /\ want'[s] = {}
    BY <1>a, <1>0, BeginMoves DEF Inv
  <2>2. Local(s)'
    BY <1>a, <1>0, <1>2, <1>3, <2>1, LedgerSame DEF Inv, Local, KindsFit, RowsHeld, ReversalFits,
         PlanFits, BatchFits, DraftFits, ReadFits, Creates, Planned, InvoicesHeld, FundsHeld, ItemsChecked
  <2> QED BY <2>1, <2>2 DEF Quiet
<1> QED BY <1>a, RejectIsQuiet DEF DraftFundsLocked

(* The workbench shows the open amounts next to the form.                  *)
LEMMA WorkbenchIsQuiet ==
  ASSUME Inv, NEW s \in Sessions, Workbench(s)
  PROVE  Quiet(s)
<1>1. PICK i \in Invoices \ cancelled, F \in (SUBSET Funds) \ {{}} :
        \E typed \in [F -> Amounts], partial \in BOOLEAN :
          LET A == {[invoice |-> i, fund |-> f, amount |-> typed[f]] : f \in F}
          IN ShowPage(s, [kind |-> "direct", plan |-> A, partial |-> partial,
                          shown |-> [x \in RecordsOf(A) |-> Open(x)]])
  BY DEF Workbench
<1>2. PICK typed \in [F -> Amounts], partial \in BOOLEAN :
        LET A == {[invoice |-> i, fund |-> f, amount |-> typed[f]] : f \in F}
        IN ShowPage(s, [kind |-> "direct", plan |-> A, partial |-> partial,
                        shown |-> [x \in RecordsOf(A) |-> Open(x)]])
  BY <1>1
<1> DEFINE row(f) == [invoice |-> i, fund |-> f, amount |-> typed[f]]
           A == {row(f) : f \in F}
<1>3. IsFiniteSet(A) /\ A # {}
  <2>1. IsFiniteSet(F)
    BY RecordsAreFinite, FS_Subset
  <2>2. [f \in F |-> row(f)] \in Surjection(F, A)
    <3> HIDE DEF row
    <3> QED BY DEF Surjection
  <2>3. A # {}
    <3>1. PICK f : f \in F
      OBVIOUS
    <3>2. row(f) \in A
      BY <3>1
    <3> QED BY <3>2
  <2> HIDE DEF A
  <2> QED BY <2>1, <2>2, <2>3, FS_Surjection
<1>4. ShowPage(s, [kind |-> "direct", plan |-> A, partial |-> partial,
                   shown |-> [x \in RecordsOf(A) |-> Open(x)]])
  BY <1>2, Zenon
<1> HIDE DEF A
<1>5. PICK page : page.kind = "direct" /\ page.plan = A /\ ShowPage(s, page)
  BY <1>4
<1>6. /\ pc[s] = "idle" /\ "page" \in Labels
      /\ pc' = [pc EXCEPT ![s] = "page"] /\ req' = [req EXCEPT ![s] = page]
      /\ UNCHANGED <<locks, read>> /\ UNCHANGED ledger
  BY <1>5 DEF ShowPage, Labels
<1>7. /\ Moves(s)
      /\ pc'[s] = "page" /\ req'[s] = page /\ read'[s] = read[s]
      /\ held'[s] = held[s] /\ want'[s] = want[s]
  BY <1>6, PageMoves DEF Inv
<1>8. Local(s)'
  BY <1>3, <1>5, <1>6, <1>7, LedgerSame DEF Inv, Local, KindsFit, RowsHeld, ReversalFits, PlanFits,
       BatchFits, DraftFits, ReadFits, Creates, Planned, InvoicesHeld, FundsHeld, ItemsChecked
<1> QED BY <1>6, <1>7, <1>8 DEF Quiet

(* The page of a batch shows a plan and the version of the batch.          *)
LEMMA SettlementDetailIsQuiet ==
  ASSUME Inv, NEW s \in Sessions, NEW b \in DOMAIN batches, SettlementDetail(s, b)
  PROVE  Quiet(s)
<1>1. ShowPage(s, [kind |-> "confirm", plan |-> SettlementPlan(b), batch |-> b,
                   version |-> batches[b].version])
  BY DEF SettlementDetail
<1>2. PICK page : page.kind = "confirm" /\ page.batch = b /\ ShowPage(s, page)
  BY <1>1
<1>3. /\ pc[s] = "idle" /\ "page" \in Labels
      /\ pc' = [pc EXCEPT ![s] = "page"] /\ req' = [req EXCEPT ![s] = page]
      /\ UNCHANGED <<locks, read>> /\ UNCHANGED ledger
  BY <1>2 DEF ShowPage, Labels
<1>4. /\ Moves(s)
      /\ pc'[s] = "page" /\ req'[s] = page /\ read'[s] = read[s]
      /\ held'[s] = held[s] /\ want'[s] = want[s]
  BY <1>3, PageMoves DEF Inv
<1>5. Local(s)'
  BY <1>2, <1>3, <1>4, LedgerSame DEF Inv, Local, KindsFit, RowsHeld, ReversalFits, PlanFits,
       BatchFits, DraftFits, ReadFits, Creates, Planned, InvoicesHeld, FundsHeld, ItemsChecked
<1> QED BY <1>3, <1>4, <1>5 DEF Quiet

(* A page that is left is forgotten.                                       *)
LEMMA LeavePageIsQuiet ==
  ASSUME Inv, NEW s \in Sessions, LeavePage(s)
  PROVE  Quiet(s)
<1>1. /\ pc[s] = "page" /\ "idle" \in Labels
      /\ pc' = [pc EXCEPT ![s] = "idle"] /\ req' = [req EXCEPT ![s] = Idle]
      /\ UNCHANGED <<locks, read>> /\ UNCHANGED ledger
  BY DEF LeavePage, Labels
<1>2. /\ Moves(s)
      /\ pc'[s] = "idle" /\ req'[s] = Idle /\ read'[s] = read[s]
      /\ held'[s] = held[s] /\ want'[s] = want[s]
  BY <1>1, PageMoves DEF Inv
<1>3. Local(s)'
  BY <1>1, <1>2, LedgerSame DEF Inv, Local, KindsFit, RowsHeld, ReversalFits, PlanFits, BatchFits,
       DraftFits, ReadFits, Creates, Planned, InvoicesHeld, FundsHeld, ItemsChecked, Idle
<1> QED BY <1>1, <1>2, <1>3 DEF Quiet
-----------------------------------------------------------------------------
(* The commits.                                                            *)

(* A commit is one step of the ledger, off the rows of the others.         *)
Commits(s) ==
  /\ Moves(s) /\ Local(s)' /\ LedgerNext
  /\ \A t \in Sessions \ {s} : Keeps(t)

(* A commit gives the locks back; the same form may be posted once more.   *)
LEMMA CommitMoves ==
  ASSUME Inv, NEW s \in Sessions, Commit(s)
  PROVE  Moves(s) /\ Local(s)'
<1>0. "idle" \in Labels /\ "page" \in Labels
  BY DEF Labels
<1>1. CASE Leave(s, "idle", Idle)
  BY <1>0, <1>1, LeaveMoves, IdleKnows DEF Inv
<1>2. CASE req[s].kind = "direct" /\ Leave(s, "page", req[s])
  <2>1. /\ Moves(s)
        /\ pc'[s] = "page" /\ req'[s] = req[s] /\ read'[s] = Nothing
        /\ held'[s] = {} /\ want'[s] = {}
    BY <1>0, <1>2, LeaveMoves DEF Inv
  <2>2. Local(s)'
    BY <1>2, <2>1 DEF Inv, Local, KindsFit, RowsHeld, ReversalFits, PlanFits, BatchFits, DraftFits,
         ReadFits, Creates, Planned, InvoicesHeld, FundsHeld, ItemsChecked, Nothing
  <2> QED BY <2>1, <2>2
<1> QED BY <1>1, <1>2 DEF Commit

(* A new reconciliation touches the records of its plan only.              *)
LEMMA RecordTouches ==
  ASSUME LedgerTypes, NEW A, NEW b, Record(A, b), UNCHANGED reversed,
         NEW x, x \notin RecordsOf(A)
  PROVE  Touching(x)' = Touching(x)
<1> DEFINE n == Len(recs) + 1
<1>1. /\ DOMAIN recs' = DOMAIN recs \cup {n} /\ recs'[n].allocations = A
      /\ \A r \in DOMAIN recs : recs'[r] = recs[r]
  BY DEF Record, LedgerTypes
<1>2. \A a \in A : ~Holds(a, x)
  BY DEF Holds, RecordsOf, InvoicesOf, FundsOf
<1> HIDE DEF n
<1>3. ASSUME NEW p \in Touching(x)' PROVE p \in Touching(x)
  <2>1. Holds(p[2], x)
    BY <1>3 DEF Touching
  <2>2. PICK r \in DOMAIN recs' \ reversed' : \E a \in recs'[r].allocations : p = <<r, a>>
    BY <1>3 DEF Touching, ActiveAllocations, Active
  <2>3. r \in DOMAIN recs
    BY <1>1, <1>2, <2>1, <2>2
  <2> QED BY <1>1, <2>1, <2>2, <2>3 DEF Touching, ActiveAllocations, Active
<1>4. ASSUME NEW p \in Touching(x) PROVE p \in Touching(x)'
  <2>1. Holds(p[2], x)
    BY <1>4 DEF Touching
  <2>2. PICK r \in DOMAIN recs \ reversed : \E a \in recs[r].allocations : p = <<r, a>>
    BY <1>4 DEF Touching, ActiveAllocations, Active
  <2> QED BY <1>1, <2>1, <2>2 DEF Touching, ActiveAllocations, Active
<1> QED BY <1>3, <1>4

(* A reversal frees the records of its reconciliation only.                *)
LEMMA ReversalTouches ==
  ASSUME NEW r \in DOMAIN recs, UNCHANGED recs, reversed' = reversed \cup {r},
         NEW x, x \notin RecordsOf(recs[r].allocations)
  PROVE  Touching(x)' = Touching(x)
<1>1. \A a \in recs[r].allocations : ~Holds(a, x)
  BY DEF Holds, RecordsOf, InvoicesOf, FundsOf
<1>2. ASSUME NEW p \in Touching(x) PROVE p \in Touching(x)'
  <2>1. Holds(p[2], x)
    BY <1>2 DEF Touching
  <2>2. PICK q \in DOMAIN recs \ reversed : \E a \in recs[q].allocations : p = <<q, a>>
    BY <1>2 DEF Touching, ActiveAllocations, Active
  <2>3. q # r
    BY <1>1, <2>1, <2>2
  <2> QED BY <2>1, <2>2, <2>3 DEF Touching, ActiveAllocations, Active
<1>3. Touching(x)' \subseteq Touching(x)
  BY DEF Touching, ActiveAllocations, Active
<1> QED BY <1>2, <1>3

(* Whoever is about to commit a plan has locked all of its records.        *)
LEMMA PlanIsHeld ==
  ASSUME Inv, NEW s \in Sessions, pc[s] = "commit", Planned(s)
  PROVE  /\ RecordsOf(req[s].plan) \subseteq held[s]
         /\ \A t \in Sessions \ {s} : RecordsOf(req[s].plan) \cap held[t] = {}
<1>1. RecordsOf(req[s].plan) \subseteq held[s]
  BY DEF Inv, Local, RowsHeld, InvoicesHeld, FundsHeld, RecordsOf
<1> QED BY <1>1 DEF Inv, LocksAreExclusive

(* create_reconciliation: what was read is open at the commit.             *)
LEMMA CommitDirectCommits ==
  ASSUME Inv, NEW s \in Sessions, CommitDirect(s)
  PROVE  Commits(s)
<1> DEFINE A == req[s].plan
<1>0. /\ pc[s] = "commit" /\ req[s].kind = "direct" /\ Creates(s) /\ Planned(s)
      /\ Record(A, None) /\ UNCHANGED <<reversed, cancelled, batches>> /\ Commit(s)
  BY DEF CommitDirect, Creates, Planned
<1>1. Sound(A) /\ \A x \in RecordsOf(A) : Requested(A, x) <= Open(x)
  BY <1>0 DEF Inv, Local, PlanFits, ReadFits, InvoicesHeld
<1>2. Reconcile(A)
  BY <1>0, <1>1 DEF Reconcile
<1>3. /\ DOMAIN recs \subseteq DOMAIN recs' /\ \A r \in DOMAIN recs : recs'[r] = recs[r]
      /\ \E r \in DOMAIN recs' : recs'[r].allocations = A
  <2>1. recs \in Seq(Rows) /\ recs' = Append(recs, [allocations |-> A, batch |-> None])
    BY <1>0 DEF Inv, LedgerTypes, Record
  <2>2. Len(recs) + 1 \in DOMAIN recs' /\ recs'[Len(recs) + 1].allocations = A
    BY <2>1
  <2> QED BY <2>1, <2>2
<1>4. LedgerNext
  BY <1>2, <1>3 DEF LedgerNext, Plans
<1>5. \A t \in Sessions \ {s} : Keeps(t)
  <2> TAKE t \in Sessions \ {s}
  <2>1. \A x \in held[t] : Touching(x)' = Touching(x)
    BY <1>0, PlanIsHeld, RecordTouches DEF Inv
  <2> QED BY <1>0, <1>3, <2>1 DEF Keeps
<1> QED BY <1>0, <1>4, <1>5, CommitMoves DEF Commits

(* confirm_settlement_batch: the batch is still a draft, its items free.   *)
LEMMA CommitConfirmCommits ==
  ASSUME Inv, NEW s \in Sessions, CommitConfirm(s)
  PROVE  Commits(s)
<1> DEFINE A == req[s].plan
           b == req[s].batch
<1>0. /\ pc[s] = "commit" /\ req[s].kind = "confirm" /\ Creates(s) /\ Planned(s)
      /\ Record(A, b) /\ batches' = [batches EXCEPT ![b] = Confirmed(@)]
      /\ UNCHANGED <<reversed, cancelled>> /\ Commit(s)
  BY DEF CommitConfirm, Creates, Planned
<1>1. /\ b \in DOMAIN batches /\ batches[b].status = "draft" /\ Sound(A)
      /\ InvoicesOf(A) = batches[b].items \cap Invoices /\ FundsOf(A) = batches[b].items \cap Funds
      /\ \A x \in batches[b].items : ~Occupied(x) /\ Requested(A, x) = Open(x)
      /\ BatchRow(b) \in held[s]
  BY <1>0 DEF Inv, Local, PlanFits, BatchFits, RowsHeld, InvoicesHeld, FundsHeld, ItemsChecked
<1>2. RecordsOf(A) = batches[b].items
  <2>1. batches[b] \in Batches
    BY <1>1 DEF Inv, LedgerTypes
  <2>2. batches[b].items \subseteq Invoices \cup Funds
    BY <2>1 DEF Batches, Records
  <2> QED BY <1>1, <2>2 DEF RecordsOf
<1>3. Settle(b, A)
  BY <1>0, <1>1, <1>2 DEF Settle
<1>4. /\ DOMAIN recs \subseteq DOMAIN recs' /\ \A r \in DOMAIN recs : recs'[r] = recs[r]
      /\ \E r \in DOMAIN recs' : recs'[r].allocations = A
  <2>1. recs \in Seq(Rows) /\ recs' = Append(recs, [allocations |-> A, batch |-> b])
    BY <1>0 DEF Inv, LedgerTypes, Record
  <2>2. Len(recs) + 1 \in DOMAIN recs' /\ recs'[Len(recs) + 1].allocations = A
    BY <2>1
  <2> QED BY <2>1, <2>2
<1>5. LedgerNext
  BY <1>1, <1>3, <1>4 DEF LedgerNext, Plans
<1>6. \A t \in Sessions \ {s} : Keeps(t)
  <2> TAKE t \in Sessions \ {s}
  <2>1. \A x \in held[t] : Touching(x)' = Touching(x)
    BY <1>0, PlanIsHeld, RecordTouches DEF Inv
  <2>2. BatchRow(b) \notin held[t]
    BY <1>1 DEF Inv, LocksAreExclusive
  <2>3. \A c \in DOMAIN batches : BatchRow(c) \in held[t] => batches'[c] = batches[c]
    BY <1>0, <2>2
  <2>4. DOMAIN batches' = DOMAIN batches
    BY <1>0
  <2> QED BY <1>0, <1>4, <2>1, <2>3, <2>4 DEF Keeps
<1> QED BY <1>0, <1>5, <1>6, CommitMoves DEF Commits

(* reverse_reconciliation: there is no earlier reversal.                   *)
LEMMA CommitReversalCommits ==
  ASSUME Inv, NEW s \in Sessions, CommitReversal(s)
  PROVE  Commits(s)
<1> DEFINE r == req[s].rec
<1>0. /\ pc[s] = "commit" /\ req[s].kind = "reverse" /\ Planned(s)
      /\ reversed' = reversed \cup {r} /\ UNCHANGED <<recs, cancelled, batches>> /\ Commit(s)
  BY DEF CommitReversal, Planned
<1>1. r \in DOMAIN recs /\ r \notin reversed /\ req[s].plan = recs[r].allocations
  BY <1>0 DEF Inv, Local, ReversalFits
<1>2. Reverse(r)
  BY <1>0, <1>1 DEF Reverse, Active
<1>3. LedgerNext
  BY <1>1, <1>2 DEF LedgerNext
<1>4. \A t \in Sessions \ {s} : Keeps(t)
  <2> TAKE t \in Sessions \ {s}
  <2>1. RecordsOf(recs[r].allocations) \cap held[t] = {}
    BY <1>0, <1>1, PlanIsHeld
  <2>2. \A x \in held[t] : Touching(x)' = Touching(x)
    BY <1>0, <1>1, <2>1, ReversalTouches
  <2>3. InvoicesOf(recs[r].allocations) \cap held[t] = {}
    BY <2>1 DEF RecordsOf
  <2> QED BY <1>0, <2>2, <2>3 DEF Keeps
<1> QED BY <1>0, <1>3, <1>4, CommitMoves DEF Commits

(* What touches a record depends on the reconciliations only.              *)
LEMMA TouchingDepends ==
  ASSUME UNCHANGED <<recs, reversed>>, NEW x
  PROVE  Touching(x)' = Touching(x)
BY DEF Touching, ActiveAllocations, Active

(* create_settlement_batch: the items are open, and of one party.          *)
LEMMA CommitDraftCommits ==
  ASSUME Inv, NEW s \in Sessions, CommitDraft(s)
  PROVE  Commits(s)
<1> DEFINE items == req[s].items
<1>0. /\ pc[s] = "commit" /\ req[s].kind = "draft"
      /\ batches' = Append(batches, [items |-> items, status |-> "draft", version |-> 1])
      /\ UNCHANGED <<recs, reversed, cancelled>> /\ Commit(s)
  BY DEF CommitDraft
<1>1. /\ items \cap Invoices # {} /\ items \cap Funds # {} /\ items \cap cancelled = {}
      /\ \A x \in items : Open(x) > 0
      /\ \E party \in Parties, period \in Periods : items \subseteq party \cap period
  BY <1>0 DEF Inv, Local, DraftFits
<1>2. Draft(items)
  BY <1>0, <1>1 DEF Draft
<1>3. /\ DOMAIN batches \subseteq DOMAIN batches' /\ \A b \in DOMAIN batches : batches'[b] = batches[b]
      /\ \E b \in DOMAIN batches' : batches'[b].items = items
  <2>1. batches \in Seq(Batches)
    BY DEF Inv, LedgerTypes
  <2>2. Len(batches) + 1 \in DOMAIN batches' /\ batches'[Len(batches) + 1].items = items
    BY <1>0, <2>1
  <2> QED BY <1>0, <2>1, <2>2
<1>4. LedgerNext
  BY <1>2, <1>3 DEF LedgerNext, Drafts
<1>5. \A t \in Sessions \ {s} : Keeps(t)
  BY <1>0, <1>3, TouchingDepends DEF Keeps
<1> QED BY <1>0, <1>4, <1>5, CommitMoves DEF Commits

(* confirm_batch of an import: a status changes, and nothing else does.    *)
LEMMA CommitCancelCommits ==
  ASSUME Inv, NEW s \in Sessions, CommitCancel(s)
  PROVE  Commits(s)
<1> DEFINE N == req[s].invoices
<1>0. /\ want[s] = {} /\ req[s].kind = "cancel" /\ cancelled' = cancelled \cup N
      /\ UNCHANGED <<recs, reversed, batches>> /\ Commit(s)
  BY DEF CommitCancel, Finished
<1>1. N \subseteq held[s] /\ N \subseteq Invoices
  BY <1>0 DEF Inv, Local, RowsHeld
<1>2. LedgerNext
  BY <1>0, <1>1 DEF LedgerNext, Cancel
<1>3. \A t \in Sessions \ {s} : Keeps(t)
  <2> TAKE t \in Sessions \ {s}
  <2>1. N \cap held[t] = {}
    BY <1>1 DEF Inv, LocksAreExclusive
  <2> QED BY <1>0, <2>1, TouchingDepends DEF Keeps
<1> QED BY <1>0, <1>2, <1>3, CommitMoves DEF Commits

-----------------------------------------------------------------------------
(* The step with which a request takes effect. *)
TakesEffect(s) ==
  CommitDirect(s) \/ CommitConfirm(s) \/ CommitReversal(s) \/ CommitDraft(s) \/ CommitCancel(s)

(* Every step is quiet or takes effect.                                    *)
LEMMA StepIsQuietOrTakesEffect ==
  ASSUME Inv, NEW s \in Sessions, Advance(s) \/ Request(s) \/ Abort(s)
  PROVE  Quiet(s) \/ TakesEffect(s)
<1>1. CASE Advance(s)
  BY <1>1, LockIsQuiet, BatchLockedIsQuiet, InvoicesLockedIsQuiet, FundsLockedIsQuiet,
     CheckItemsIsQuiet, AllocationsLockedIsQuiet, RecsLockedIsQuiet, SumInvoicesIsQuiet,
     SumFundsIsQuiet, DraftInvoicesLockedIsQuiet, DraftFundsLockedIsQuiet DEF Advance, TakesEffect
<1>2. CASE Request(s)
  <2>1. \A N \in Corrections : N \ cancelled \in SUBSET Invoices
    BY CorrectionsAssumption
  <2> QED BY <1>2, <2>1, WorkbenchIsQuiet, LeavePageIsQuiet, DirectConfirmIsQuiet,
       SettlementConfirmIsQuiet, SettlementDetailIsQuiet, ReverseRequestIsQuiet,
       SettlementCreateIsQuiet, CancelInvoicesIsQuiet DEF Request
<1>3. CASE Abort(s)
  BY <1>3, RejectIsQuiet DEF Abort
<1> QED BY <1>1, <1>2, <1>3

(* So every step is quiet or one commit.                                   *)
LEMMA StepIsQuietOrCommits ==
  ASSUME Inv, NEW s \in Sessions, Advance(s) \/ Request(s) \/ Abort(s)
  PROVE  Quiet(s) \/ Commits(s)
BY StepIsQuietOrTakesEffect, CommitDirectCommits, CommitConfirmCommits, CommitReversalCommits,
   CommitDraftCommits, CommitCancelCommits DEF TakesEffect

(* Both kinds of step keep the invariant and are steps of the ledger.      *)
LEMMA InvStep ==
  ASSUME Inv, [Next]_vars
  PROVE  Inv' /\ [LedgerNext]_ledger
<1>1. CASE UNCHANGED vars
  <2>1. UNCHANGED ledger /\ SessionTypes' /\ LocksAreExclusive' /\ \A t \in Sessions : Same(t)
    BY <1>1 DEF vars, locks, Inv, SessionTypes, LocksAreExclusive, Same
  <2>2. LedgerTypes' /\ \A t \in Sessions : Keeps(t)
    BY <2>1, LedgerSame DEF Inv
  <2>3. \A t \in Sessions : Local(t)'
    BY <2>1, <2>2, OthersKnow DEF Inv
  <2> QED BY <2>1, <2>2, <2>3 DEF Inv
<1>2. ASSUME NEW s \in Sessions, Quiet(s)
      PROVE  Inv' /\ [LedgerNext]_ledger
  <2>1. Moves(s) /\ UNCHANGED ledger /\ Local(s)'
    BY <1>2 DEF Quiet
  <2>2. LedgerTypes' /\ \A t \in Sessions : Keeps(t)
    BY <2>1, LedgerSame DEF Inv
  <2>3. \A t \in Sessions \ {s} : Local(t)'
    BY <2>1, <2>2, OthersKnow DEF Inv, Moves
  <2> QED BY <2>1, <2>2, <2>3 DEF Inv, Moves
<1>3. ASSUME NEW s \in Sessions, Commits(s)
      PROVE  Inv' /\ [LedgerNext]_ledger
  <2>1. /\ Moves(s) /\ Local(s)' /\ LedgerNext
        /\ \A t \in Sessions \ {s} : Keeps(t)
    BY <1>3 DEF Commits
  <2>2. LedgerTypes'
    BY <2>1, LedgerTypesStep DEF Inv
  <2>3. \A t \in Sessions \ {s} : Local(t)'
    BY <2>1, OthersKnow DEF Inv, Moves
  <2> QED BY <2>1, <2>2, <2>3 DEF Inv, Moves
<1> QED BY <1>1, <1>2, <1>3, StepIsQuietOrCommits DEF Next

(* At the start there is neither a ledger nor a request.                   *)
LEMMA InitInv == Init => Inv
<1> SUFFICES ASSUME Init PROVE Inv
  OBVIOUS
<1>1. LedgerTypes
  BY LedgerInitInv DEF Init, LedgerInv
<1>2. SessionTypes /\ LocksAreExclusive
  BY DEF Init, LocksInit, SessionTypes, LocksAreExclusive, Labels
<1>3. \A s \in Sessions : Local(s)
  BY DEF Init, LocksInit, Local, KindsFit, RowsHeld, ReversalFits, PlanFits, BatchFits, DraftFits,
       ReadFits, Creates, Planned, InvoicesHeld, FundsHeld, ItemsChecked, Idle, Nothing
<1> QED BY <1>1, <1>2, <1>3 DEF Inv

(* What the sessions know about the ledger is always true.                 *)
THEOREM ReconciliationInvariance == Spec => []Inv
<1>1. Inv /\ [Next]_vars => Inv'
  BY InvStep
<1> QED BY InitInv, <1>1, PTL DEF Spec

(* The concurrent requests implement the ledger: every transaction takes   *)
(* effect in one step that is right at its commit (create_reconciliation,  *)
(* confirm_settlement_batch, reverse_reconciliation and the others).       *)
THEOREM RequestsImplementLedger == Spec => LedgerSpec
<1>1. Init => LedgerInit
  BY DEF Init
<1>2. Inv /\ [Next]_vars => [LedgerNext]_ledger
  BY InvStep
<1> QED BY ReconciliationInvariance, <1>1, <1>2, PTL DEF Spec, LedgerSpec

(* Requests in any number, interleaved in any way, never give more of a    *)
(* record than its amount.                                                 *)
THEOREM NeverOverAllocated == Spec => []NoOverAllocation
BY RequestsImplementLedger, LedgerNeverOverAllocates, PTL

(* Two confirmations of one batch never both succeed, and what the one     *)
(* that does gives to the items is their amount to the cent.               *)
THEOREM SettledOnce == Spec => []BatchesAreSettledOnce
BY RequestsImplementLedger, LedgerSettlesOnce, PTL

(* A row is locked by one transaction (SELECT ... FOR UPDATE).             *)
THEOREM RowsHaveOneOwner == Spec => []LocksAreExclusive
<1>1. Inv => LocksAreExclusive
  BY DEF Inv
<1> QED BY ReconciliationInvariance, <1>1, PTL

(* All variables keep their shapes.                                        *)
THEOREM TypeCorrectness == Spec => []TypeOK
<1>1. Inv => TypeOK
  BY DEF Inv, TypeOK, LedgerTypes, Rows, Batches, SessionTypes, Local, KindsFit, RowsHeld, ReadFits
<1> QED BY ReconciliationInvariance, <1>1, PTL

(* The open amounts _validate_allocations read are open at the commit.     *)
THEOREM CurrentDecisions == Spec => []DecisionsAreCurrent
<1>1. Inv => DecisionsAreCurrent
  BY DEF Inv, DecisionsAreCurrent, Local, ReadFits
<1> QED BY ReconciliationInvariance, <1>1, PTL

(* What the user saw is open at the commit (the expected open amounts).    *)
THEOREM CurrentShownAmounts == Spec => ShownAmountsAreCurrent
<1> DEFINE AsShown == \A s \in Sessions :
       pc[s] = "commit" /\ req[s].kind = "direct" /\ recs' # recs /\ held'[s] = {} /\ held[s] # {} =>
         \A x \in RecordsOf(req[s].plan) : req[s].shown[x] = Open(x)
<1>1. Inv => AsShown
  BY DEF Inv, Local, ReadFits, Creates
<1>2. Inv /\ [Next]_vars => [AsShown]_vars
  BY <1>1
<1> HIDE DEF AsShown
<1>3. Spec => [][AsShown]_vars
  BY ReconciliationInvariance, <1>2, PTL DEF Spec
<1> QED BY <1>3 DEF AsShown, ShownAmountsAreCurrent

-----------------------------------------------------------------------------
(* The order of the tables.                                                *)

(* The table of the statement under way; all later ones count as the last. *)
Level(label) == IF label = "lock_batch" THEN 1
                ELSE IF label = "lock_invoices" THEN 2
                ELSE IF label \in {"lock_funds", "check_items"} THEN 3
                ELSE IF label = "lock_allocations" THEN 4 ELSE 5

(* A statement locks rows of one table, after those of the tables before.  *)
Ordered(s) ==
  /\ \A row \in want[s] : Table(row) = Level(pc[s])
  /\ \A row \in held[s] : Table(row) <= Level(pc[s])
  /\ req[s].kind = "direct" => InvoicesOf(req[s].plan) \subseteq Invoices

OrderInv == Inv /\ \A s \in Sessions : Ordered(s)

(* Rows of other tables are no records.                                    *)
LEMMA TableOf ==
  /\ \A x \in Invoices : Table(x) = 2
  /\ \A x \in Funds : Table(x) = 3
  /\ \A b \in Nat : Table(BatchRow(b)) = 1
  /\ \A r \in Nat, a \in Allocations : Table(AllocationRow(r, a)) = 4
  /\ \A r \in Nat : Table(RecRow(r)) = 5
  /\ \A row : Table(row) \in 1..5
<1>1. \A b \in Nat : BatchRow(b) \notin Records /\ BatchRow(b)[1] = "batch"
  <2> TAKE b \in Nat
  <2>1. BatchRow(b) \in {"batch", "rec"} \X Nat
    BY DEF BatchRow
  <2> QED BY <2>1, RowsAreDistinct DEF BatchRow
<1>2. \A r \in Nat : RecRow(r) \notin Records /\ RecRow(r)[1] = "rec"
  <2> TAKE r \in Nat
  <2>1. RecRow(r) \in {"batch", "rec"} \X Nat
    BY DEF RecRow
  <2> QED BY <2>1, RowsAreDistinct DEF RecRow
<1>3. \A r \in Nat, a \in Allocations :
        AllocationRow(r, a) \notin Records /\ AllocationRow(r, a)[1] = "allocation"
  <2> TAKE r \in Nat, a \in Allocations
  <2>1. AllocationRow(r, a) \in {"allocation"} \X Nat \X Allocations
    BY DEF AllocationRow
  <2> QED BY <2>1, RowsAreDistinct DEF AllocationRow
<1> QED BY <1>1, <1>2, <1>3, RecordsAreDisjoint DEF Table, Records

(* A statement on the next table keeps the order.                          *)
LEMMA StatementIsOrdered ==
  ASSUME Inv, NEW s \in Sessions, Ordered(s), NEW label, NEW rows, Statement(s, label, rows),
         \A row \in rows : Table(row) = Level(label),
         Level(pc[s]) <= Level(label) \/ held[s] = {},
         req'[s].kind = "direct" => InvoicesOf(req'[s].plan) \subseteq Invoices
  PROVE  Ordered(s)'
<1>1. pc'[s] = label /\ held'[s] = held[s] /\ want'[s] = rows \ held[s]
  BY DEF Statement, SelectForUpdate, Inv, SessionTypes
<1>2. \A row : Table(row)' = Table(row)
  BY DEF Table
<1>3. Level(pc[s])' = Level(label)
  BY <1>1 DEF Level
<1> QED BY <1>1, <1>2, <1>3, TableOf DEF Ordered, Level

(* Outside a transaction nothing is locked.                                *)
LEMMA OutsideIsOrdered ==
  ASSUME Inv', NEW s \in Sessions, pc'[s] \in {"idle", "page"},
         req'[s].kind = "direct" => InvoicesOf(req'[s].plan) \subseteq Invoices
  PROVE  Ordered(s)'
<1>1. held'[s] = {} /\ want'[s] = {}
  BY DEF Inv, Local, RowsHeld
<1> QED BY <1>1 DEF Ordered

(* A refused request, too, gives its locks back.                           *)
LEMMA RejectIsOrdered ==
  ASSUME Inv, Inv', NEW s \in Sessions, Reject(s)
  PROVE  Ordered(s)'
<1>1. pc'[s] = "idle" /\ req'[s] = Idle
  BY DEF Reject, Leave, Inv, SessionTypes
<1> QED BY <1>1, OutsideIsOrdered DEF Idle

(* So does a commit.                                                       *)
LEMMA CommitIsOrdered ==
  ASSUME Inv, Inv', NEW s \in Sessions, Ordered(s), Commit(s)
  PROVE  Ordered(s)'
<1>1. \/ pc'[s] = "idle" /\ req'[s] = Idle
      \/ pc'[s] = "page" /\ req'[s] = req[s]
  BY DEF Commit, Leave, Inv, SessionTypes
<1> QED BY <1>1, OutsideIsOrdered DEF Idle, Ordered

(* The allocations of a plan name invoices and funds.                      *)
LEMMA PlanNamesRecords ==
  ASSUME NEW A, A \subseteq Allocations
  PROVE  InvoicesOf(A) \subseteq Invoices /\ FundsOf(A) \subseteq Funds
BY DEF InvoicesOf, FundsOf, Allocations

(* What is on record are allocations.                                      *)
LEMMA RecordedAreAllocations ==
  ASSUME Inv, NEW r \in DOMAIN recs
  PROVE  recs[r].allocations \subseteq Allocations /\ r \in Nat
<1>1. recs[r] \in Rows /\ r \in Nat
  BY DEF Inv, LedgerTypes
<1> QED BY <1>1 DEF Rows

(* The statements of a transaction take the tables in their order.         *)
LEMMA AdvanceIsOrdered ==
  ASSUME Inv, Inv', NEW s \in Sessions, Ordered(s), Advance(s)
  PROVE  Ordered(s)'
<1> DEFINE plan == req[s].plan
<1>0. req[s].kind = "direct" => InvoicesOf(plan) \subseteq Invoices
  BY DEF Ordered
<1>1. CASE Lock(s)
  <2>1. PICK row \in want[s] : LockRow(s, row) /\ UNCHANGED <<ledger, pc, req, read>>
    BY <1>1 DEF Lock
  <2>2. held'[s] = held[s] \cup {row} /\ want'[s] = want[s] \ {row} /\ pc' = pc /\ req' = req
    BY <2>1 DEF LockRow, Inv, SessionTypes
  <2> QED BY <2>2, TableOf DEF Ordered, Level, Table
<1>2. CASE BatchLocked(s)
  <2>1. ASSUME InvoicesOf(plan) = batches[req[s].batch].items \cap Invoices,
               pc[s] = "lock_batch", Continue(s, "lock_invoices", InvoicesOf(plan))
        PROVE  Ordered(s)'
    BY <1>0, <2>1, TableOf, StatementIsOrdered DEF Continue, Level
  <2> QED BY <1>2, <2>1, RejectIsOrdered DEF BatchLocked, Finished
<1>3. CASE InvoicesLocked(s)
  <2>1. ASSUME Creates(s) => Sound(plan), Planned(s),
               pc[s] = "lock_invoices", Continue(s, "lock_funds", FundsOf(plan))
        PROVE  Ordered(s)'
    <3>1. plan \subseteq Allocations
      BY <2>1, RecordedAreAllocations DEF Planned, Sound, Inv, Local, ReversalFits
    <3> QED BY <1>0, <2>1, <3>1, PlanNamesRecords, TableOf, StatementIsOrdered DEF Continue, Level
  <2> QED BY <1>3, <2>1, RejectIsOrdered DEF InvoicesLocked, Finished, Planned
<1>a. \A row \in AllocationRows(s) : Table(row) = 4
  <2> TAKE row \in AllocationRows(s)
  <2>1. PICK r \in DOMAIN recs : \E a \in recs[r].allocations : row = AllocationRow(r, a)
    BY DEF AllocationRows
  <2> QED BY <2>1, RecordedAreAllocations, TableOf
<1>4. CASE FundsLocked(s)
  <2>0. PICK label \in {"check_items", "lock_allocations"}, rows \in {{}, AllocationRows(s)} :
          /\ Continue(s, label, rows) /\ (label = "check_items" => rows = {})
          /\ pc[s] = "lock_funds"
    BY <1>4 DEF FundsLocked, Finished
  <2> HIDE DEF plan
  <2>1. \A row \in rows : Table(row) = Level(label)
    BY <2>0, <1>a DEF Level
  <2>2. Level(pc[s]) <= Level(label)
    BY <2>0 DEF Level
  <2> QED BY <1>0, <2>0, <2>1, <2>2, StatementIsOrdered DEF Continue, plan
<1>5. CASE CheckItems(s)
  <2>1. ASSUME pc[s] = "check_items", Continue(s, "lock_allocations", AllocationRows(s))
        PROVE  Ordered(s)'
    BY <1>0, <1>a, <2>1, StatementIsOrdered DEF Continue, Level
  <2> QED BY <1>5, <2>1, RejectIsOrdered DEF CheckItems, Finished
<1>6. CASE AllocationsLocked(s)
  <2>1. PICK rows : /\ Continue(s, "lock_recs", rows) /\ pc[s] = "lock_allocations"
                    /\ \A row \in rows : \E r \in DOMAIN recs : row = RecRow(r)
    BY <1>6 DEF AllocationsLocked, Finished
  <2>2. \A row \in rows : Table(row) = 5
    BY <2>1, RecordedAreAllocations, TableOf
  <2> QED BY <1>0, <2>1, <2>2, StatementIsOrdered DEF Continue, Level
<1>7. CASE RecsLocked(s)
  <2>1. ASSUME NEW label \in {"sum_invoices", "commit"}, pc[s] = "lock_recs", Continue(s, label, {})
        PROVE  Ordered(s)'
    BY <1>0, <2>1, StatementIsOrdered DEF Continue, Level
  <2> QED BY <1>7, <2>1, RejectIsOrdered DEF RecsLocked, Finished
<1>8. CASE SumInvoices(s)
  <2>1. /\ pc[s] = "sum_invoices" /\ pc'[s] = "sum_funds" /\ UNCHANGED <<held, want, req>>
    BY <1>8 DEF SumInvoices, Finished, locks, Inv, SessionTypes
  <2> QED BY <2>1 DEF Ordered, Level, Table
<1>9. CASE SumFunds(s)
  <2>1. ASSUME pc[s] = "sum_funds", pc' = [pc EXCEPT ![s] = "commit"], UNCHANGED <<ledger, locks, req>>
        PROVE  Ordered(s)'
    <3>1. pc'[s] = "commit" /\ UNCHANGED <<held, want, req>>
      BY <2>1 DEF locks, Inv, SessionTypes
    <3> QED BY <2>1, <3>1 DEF Ordered, Level, Table
  <2> QED BY <1>9, <2>1, RejectIsOrdered DEF SumFunds, Finished
<1>10. CASE DraftInvoicesLocked(s)
  <2>1. \/ Reject(s)
        \/ \E items : Begin(s, [req[s] EXCEPT !.items = items], "lock_funds",
                            {f \in req[s].scope \cap Funds : ~Occupied(f)})
    BY <1>10 DEF DraftInvoicesLocked
  <2>2. req[s].kind = "draft" /\ pc[s] = "lock_invoices"
    BY <1>10 DEF DraftInvoicesLocked, Finished
  <2>3. ASSUME NEW request, request.kind = "draft",
               NEW rows \in SUBSET Funds, Begin(s, request, "lock_funds", rows)
        PROVE  Ordered(s)'
    <3>1. req'[s] = request /\ Statement(s, "lock_funds", rows)
      BY <2>3 DEF Begin, Inv, SessionTypes
    <3> QED BY <2>2, <2>3, <3>1, TableOf, StatementIsOrdered DEF Level
  <2>4. req[s] \in [kind : {"draft"}, scope : SUBSET Records, items : SUBSET Records]
    BY <2>2 DEF Inv, Local, DraftFits
  <2>5. \A items : [req[s] EXCEPT !.items = items].kind = "draft"
    BY <2>4
  <2>6. {f \in req[s].scope \cap Funds : ~Occupied(f)} \in SUBSET Funds
    OBVIOUS
  <2> QED BY <2>1, <2>3, <2>5, <2>6, RejectIsOrdered
<1>11. CASE DraftFundsLocked(s)
  <2>1. \/ Reject(s)
        \/ \E items : Begin(s, [req[s] EXCEPT !.items = items], "commit", {})
    BY <1>11 DEF DraftFundsLocked
  <2>2. req[s].kind = "draft" /\ pc[s] = "lock_funds"
    BY <1>11 DEF DraftFundsLocked, Finished
  <2>3. ASSUME NEW request, request.kind = "draft", Begin(s, request, "commit", {})
        PROVE  Ordered(s)'
    <3>1. req'[s] = request /\ Statement(s, "commit", {})
      BY <2>3 DEF Begin, Inv, SessionTypes
    <3> QED BY <2>2, <2>3, <3>1, StatementIsOrdered DEF Level
  <2>4. req[s] \in [kind : {"draft"}, scope : SUBSET Records, items : SUBSET Records]
    BY <2>2 DEF Inv, Local, DraftFits
  <2>5. \A items : [req[s] EXCEPT !.items = items].kind = "draft"
    BY <2>4
  <2> QED BY <2>1, <2>3, <2>5, RejectIsOrdered
<1>12. CASE \/ CommitDirect(s) \/ CommitConfirm(s) \/ CommitReversal(s)
            \/ CommitDraft(s) \/ CommitCancel(s)
  BY <1>12, CommitIsOrdered
     DEF CommitDirect, CommitConfirm, CommitReversal, CommitDraft, CommitCancel
<1> QED BY <1>1, <1>2, <1>3, <1>4, <1>5, <1>6, <1>7, <1>8, <1>9, <1>10, <1>11, <1>12 DEF Advance

(* A request starts with no row locked.                                    *)
LEMMA RequestIsOrdered ==
  ASSUME Inv, Inv', NEW s \in Sessions, Ordered(s), Request(s)
  PROVE  Ordered(s)'
<1>0. pc[s] \in {"idle", "page"} => held[s] = {} /\ want[s] = {}
  BY DEF Inv, Local, RowsHeld
<1>a. ASSUME NEW request, request.kind # "direct", NEW label, NEW rows, pc[s] \in {"idle", "page"},
             Begin(s, request, label, rows), \A row \in rows : Table(row) = Level(label)
      PROVE  Ordered(s)'
  <2>1. req'[s] = request /\ Statement(s, label, rows)
    BY <1>a DEF Begin, Inv, SessionTypes
  <2> QED BY <1>0, <1>a, <2>1, StatementIsOrdered
<1>b. ASSUME NEW page, ShowPage(s, page),
             page.kind = "direct" => InvoicesOf(page.plan) \subseteq Invoices
      PROVE  Ordered(s)'
  <2>1. req'[s] = page /\ pc'[s] = "page"
    BY <1>b DEF ShowPage, Inv, SessionTypes
  <2> QED BY <1>b, <2>1, OutsideIsOrdered
<1>c. ASSUME NEW N \in SUBSET Invoices PROVE \A row \in N : Table(row) = Level("lock_invoices")
  BY TableOf DEF Level
<1>1. CASE Workbench(s)
  <2>0. PICK i \in Invoices \ cancelled, F \in (SUBSET Funds) \ {{}} :
          \E typed \in [F -> Amounts], partial \in BOOLEAN :
            LET A == {[invoice |-> i, fund |-> f, amount |-> typed[f]] : f \in F}
            IN ShowPage(s, [kind |-> "direct", plan |-> A, partial |-> partial,
                            shown |-> [x \in RecordsOf(A) |-> Open(x)]])
    BY <1>1 DEF Workbench
  <2>1. PICK typed \in [F -> Amounts], partial \in BOOLEAN :
          LET A == {[invoice |-> i, fund |-> f, amount |-> typed[f]] : f \in F}
          IN ShowPage(s, [kind |-> "direct", plan |-> A, partial |-> partial,
                          shown |-> [x \in RecordsOf(A) |-> Open(x)]])
    BY <2>0
  <2> DEFINE A == {[invoice |-> i, fund |-> f, amount |-> typed[f]] : f \in F}
  <2>2. ShowPage(s, [kind |-> "direct", plan |-> A, partial |-> partial,
                     shown |-> [x \in RecordsOf(A) |-> Open(x)]])
    BY <2>1, Zenon
  <2>3. InvoicesOf(A) \subseteq Invoices
    BY DEF InvoicesOf
  <2> HIDE DEF A
  <2>4. PICK page : page.plan = A /\ ShowPage(s, page)
    BY <2>2
  <2> QED BY <2>3, <2>4, <1>b
<1>2. CASE LeavePage(s)
  <2>1. pc'[s] = "idle" /\ req'[s] = Idle
    BY <1>2 DEF LeavePage, Inv, SessionTypes
  <2> QED BY <2>1, OutsideIsOrdered DEF Idle
<1>3. CASE DirectConfirm(s)
  <2>1. /\ InvoicesOf(req[s].plan) \subseteq Invoices /\ UNCHANGED req /\ held[s] = {}
        /\ Statement(s, "lock_invoices", InvoicesOf(req[s].plan))
    BY <1>0, <1>3 DEF DirectConfirm, Continue, Ordered
  <2> QED BY <2>1, <1>c, StatementIsOrdered
<1>4. CASE SettlementConfirm(s)
  <2>1. /\ req[s].kind = "confirm" /\ UNCHANGED req /\ held[s] = {}
        /\ Statement(s, "lock_batch", {BatchRow(req[s].batch)})
    BY <1>0, <1>4 DEF SettlementConfirm, Continue
  <2>2. req[s].batch \in Nat
    BY <2>1 DEF Inv, Local, BatchFits, LedgerTypes
  <2>3. Table(BatchRow(req[s].batch)) = Level("lock_batch")
    BY <2>2, TableOf DEF Level
  <2> QED BY <2>1, <2>3, StatementIsOrdered
<1>5. ASSUME NEW b, SettlementDetail(s, b) PROVE Ordered(s)'
  <2>1. PICK page : page.kind = "confirm" /\ ShowPage(s, page)
    BY <1>5 DEF SettlementDetail
  <2> QED BY <2>1, <1>b
<1>6. ASSUME NEW r \in DOMAIN recs, ReverseRequest(s, r) PROVE Ordered(s)'
  <2>1. PICK request : /\ request.kind = "reverse" /\ pc[s] = "idle"
                       /\ Begin(s, request, "lock_invoices", InvoicesOf(recs[r].allocations))
    BY <1>6 DEF ReverseRequest
  <2>2. InvoicesOf(recs[r].allocations) \in SUBSET Invoices
    BY RecordedAreAllocations, PlanNamesRecords
  <2> QED BY <2>1, <2>2, <1>a, <1>c
<1>7. ASSUME NEW party, NEW period, SettlementCreate(s, party, period) PROVE Ordered(s)'
  <2> DEFINE rows == {i \in (party \cap period \cap Invoices) \ cancelled : ~Occupied(i)}
  <2>1. rows \in SUBSET Invoices
    OBVIOUS
  <2>2. pc[s] = "idle" /\ Begin(s, [kind |-> "draft", scope |-> party \cap period, items |-> {}],
                                "lock_invoices", rows)
    BY <1>7 DEF SettlementCreate
  <2> HIDE DEF rows
  <2>3. PICK request : request.kind = "draft" /\ Begin(s, request, "lock_invoices", rows)
    BY <2>2
  <2> QED BY <2>1, <2>2, <2>3, <1>a, <1>c
<1>8. ASSUME NEW N \in SUBSET Invoices, CancelInvoices(s, N) PROVE Ordered(s)'
  <2>1. PICK request : /\ request.kind = "cancel" /\ pc[s] = "idle"
                       /\ Begin(s, request, "lock_invoices", N)
    BY <1>8 DEF CancelInvoices
  <2> QED BY <2>1, <1>a, <1>c
<1>9. \A N \in Corrections : N \ cancelled \in SUBSET Invoices
  BY CorrectionsAssumption
<1> QED BY <1>1, <1>2, <1>3, <1>4, <1>5, <1>6, <1>7, <1>8, <1>9 DEF Request

(* Every step keeps the order of the tables.                               *)
LEMMA OrderStep ==
  ASSUME OrderInv, [Next]_vars
  PROVE  OrderInv'
<1>1. Inv /\ Inv'
  BY InvStep DEF OrderInv
<1>a. ASSUME NEW t \in Sessions, Same(t) PROVE Ordered(t)'
  BY <1>a DEF OrderInv, Ordered, Same, Table
<1>2. CASE UNCHANGED vars
  BY <1>1, <1>2, <1>a DEF vars, locks, Same, OrderInv
<1>3. CASE Next
  <2>1. PICK s \in Sessions : Advance(s) \/ Request(s) \/ Abort(s)
    BY <1>3 DEF Next
  <2>2. Ordered(s)'
    BY <1>1, <2>1, AdvanceIsOrdered, RequestIsOrdered, RejectIsOrdered DEF OrderInv, Abort
  <2>3. \A t \in Sessions \ {s} : Same(t)
    BY <2>1, <1>1, StepIsQuietOrCommits DEF Quiet, Commits, Moves
  <2> QED BY <1>1, <1>a, <2>2, <2>3 DEF OrderInv
<1> QED BY <1>2, <1>3

(* All requests take the tables in one order, so two that wait for each    *)
(* other wait for rows of one table (the SELECT ... FOR UPDATE statements  *)
(* of services.py and settlements.py).                                     *)
THEOREM DeadlocksInOneTable == Spec => []DeadlocksStayInOneTable
<1>1. Init => OrderInv
  <2>1. Init => \A s \in Sessions : Ordered(s)
    BY DEF Init, LocksInit, Ordered, Idle
  <2> QED BY <2>1, InitInv DEF OrderInv
<1>2. OrderInv /\ [Next]_vars => OrderInv'
  BY OrderStep
<1>3. OrderInv => DeadlocksStayInOneTable
  <2> SUFFICES ASSUME OrderInv, NEW s \in Sessions, NEW other \in Sessions,
                      WaitsFor(s, other), WaitsFor(other, s),
                      NEW row \in want[s], NEW mine \in want[other]
               PROVE  Table(row) = Table(mine)
    BY DEF DeadlocksStayInOneTable
  <2>1. PICK x \in want[s] : x \in held[other]
    BY DEF WaitsFor
  <2>2. PICK y \in want[other] : y \in held[s]
    BY DEF WaitsFor
  <2>3. Level(pc[s]) \in Nat /\ Level(pc[other]) \in Nat
    BY DEF Level
  <2>4. /\ Table(x) = Level(pc[s]) /\ Table(x) <= Level(pc[other])
        /\ Table(y) = Level(pc[other]) /\ Table(y) <= Level(pc[s])
        /\ Table(row) = Level(pc[s]) /\ Table(mine) = Level(pc[other])
    BY <2>1, <2>2 DEF OrderInv, Ordered
  <2> QED BY <2>3, <2>4
<1> QED BY <1>1, <1>2, <1>3, PTL DEF Spec

-----------------------------------------------------------------------------
(* The list of the first k records of the calendar that are in S.          *)
IsList(list, S) ==
  list = [k \in 0..Len(Calendar) |->
            IF k = 0 THEN <<>>
            ELSE IF Calendar[k] \in S THEN Append(list[k - 1], Calendar[k]) ELSE list[k - 1]]

(* There is such a list.                                                   *)
LEMMA ListExists ==
  ASSUME NEW S
  PROVE  \E list : IsList(list, S)
<1> DEFINE D == 0..Len(Calendar)
           m == [k \in D |-> k]
           base == [k \in {0} |-> <<>>]
           next == [k \in D |-> k - 1]
           step == [p \in D \X Seq(Records) |->
                      IF Calendar[p[1]] \in S THEN Append(p[2], Calendar[p[1]]) ELSE p[2]]
<1>0. Calendar \in Seq(Records) /\ Len(Calendar) \in Nat
  BY CalendarAssumption
<1>1. m \in [D -> Nat] /\ DOMAIN base = {0} /\ base[0] = <<>>
  OBVIOUS
<1>11. \A k \in D \ DOMAIN base : next[k] \in D /\ m[next[k]] < m[k]
  BY <1>0, <1>1
<1>2. PICK list : IsRecursive(list, D, base, next, step)
  <2> HIDE DEF D, m, base, next, step
  <2> QED BY <1>1, <1>11, RecursionExists
<1>3. \A k \in D : list[k] = IF k = 0 THEN <<>> ELSE step[<<k, list[k - 1]>>]
  <2> HIDE DEF base, step
  <2> QED BY <1>0, <1>1, <1>2 DEF IsRecursive
<1>4. \A k \in D : list[k] \in Seq(Records)
  <2> DEFINE G == {k \in D : list[k] \in Seq(Records)}
  <2>1. \A k \in D : (\A j \in D : m[j] < m[k] => j \in G) => k \in G
    <3> SUFFICES ASSUME NEW k \in D, \A j \in D : m[j] < m[k] => j \in G PROVE list[k] \in Seq(Records)
      OBVIOUS
    <3>1. CASE k = 0
      <4>1. list[k] = <<>>
        <5> HIDE DEF D, step
        <5> QED BY <1>3, <3>1
      <4> QED BY <4>1
    <3>2. CASE k # 0
      <4>1. k - 1 \in D /\ m[k - 1] < m[k] /\ k \in 1..Len(Calendar)
        BY <1>0, <3>2
      <4>2. list[k - 1] \in Seq(Records) /\ Calendar[k] \in Records
        BY <1>0, <4>1
      <4>3. list[k] = step[<<k, list[k - 1]>>]
        BY <1>3, <3>2
      <4> QED BY <4>1, <4>2, <4>3
    <3> QED BY <3>1, <3>2
  <2> HIDE DEF G, m, D
  <2>2. D \subseteq G
    BY <1>1, <2>1, BySize
  <2> QED BY <2>2 DEF G
<1>5. ASSUME NEW k \in D, k # 0
      PROVE  step[<<k, list[k - 1]>>] =
               IF Calendar[k] \in S THEN Append(list[k - 1], Calendar[k]) ELSE list[k - 1]
  <2>1. k - 1 \in D
    BY <1>0, <1>5
  <2> QED BY <1>4, <2>1
<1>6. list = [k \in D |-> IF k = 0 THEN <<>> ELSE step[<<k, list[k - 1]>>]]
  <2>1. list = [k \in D |-> list[k]]
    BY <1>2 DEF IsRecursive
  <2> HIDE DEF D, step
  <2> QED BY <1>3, <2>1
<1>7. list = [k \in D |-> IF k = 0 THEN <<>>
                ELSE IF Calendar[k] \in S THEN Append(list[k - 1], Calendar[k]) ELSE list[k - 1]]
  <2> HIDE DEF D, step
  <2> QED BY <1>5, <1>6
<1> QED BY <1>7 DEF IsList

(* Q lists the set S: every element once.                                  *)
ListsOnce(Q, S) ==
  Q \in Seq(S) /\ Range(Q) = S /\ IsInjective(Q)

(* The list of one more.                                                   *)
LEMMA OneMoreListed ==
  ASSUME NEW Q, NEW U, ListsOnce(Q, U), NEW c, c \notin U
  PROVE  ListsOnce(Append(Q, c), U \cup {c})
<1> DEFINE n == Len(Q)
           N == Append(Q, c)
           V == U \cup {c}
<1>1. Q \in Seq(U) /\ Range(Q) = U /\ IsInjective(Q)
  BY DEF ListsOnce
<1>2. n \in Nat /\ DOMAIN Q = 1..n /\ \A j \in 1..n : Q[j] \in U
  BY <1>1
<1>3. N \in Seq(V) /\ DOMAIN N = 1..(n + 1) /\ N[n + 1] = c /\ \A j \in 1..n : N[j] = Q[j]
  BY <1>1
<1>4. \A x \in U : \E j \in 1..n : Q[j] = x
  BY <1>1, <1>2 DEF Range
<1>5. \A i, j \in 1..n : Q[i] = Q[j] => i = j
  BY <1>1, <1>2 DEF IsInjective
<1>6. \A j \in 1..(n + 1) : j = n + 1 \/ j \in 1..n
  BY <1>2
<1>7. 1..n \subseteq 1..(n + 1) /\ n + 1 \in 1..(n + 1)
  BY <1>2
<1> HIDE DEF N, n
<1>8. Range(N) = V
  <2>1. \A x \in V : \E j \in 1..(n + 1) : N[j] = x
    BY <1>3, <1>4, <1>7
  <2>2. \A j \in 1..(n + 1) : N[j] \in V
    BY <1>2, <1>3, <1>6
  <2> QED BY <1>3, <2>1, <2>2 DEF Range
<1>9. IsInjective(N)
  <2> SUFFICES ASSUME NEW i \in 1..(n + 1), NEW j \in 1..(n + 1), N[i] = N[j] PROVE i = j
    BY <1>3 DEF IsInjective
  <2> QED BY <1>2, <1>3, <1>5, <1>6
<1> QED BY <1>3, <1>8, <1>9 DEF ListsOnce, N

(* A page lists every record that is asked for exactly once.               *)
LEMMA ListedOnce ==
  ASSUME NEW S \in SUBSET Records
  PROVE  ListsOnce(Listed(S), S)
<1> DEFINE n == Len(Calendar)
           list == CHOOSE list : IsList(list, S)
           upTo(k) == {x \in S : \E j \in 1..k : Calendar[j] = x}
           G == {k \in Nat : k <= n => ListsOnce(list[k], upTo(k))}
<1>0. /\ n \in Nat /\ \A j \in 1..n : Calendar[j] \in Records
      /\ \A x \in Records : \E j \in 1..n : Calendar[j] = x
      /\ \A j, k \in 1..n : Calendar[j] = Calendar[k] => j = k
  BY CalendarAssumption DEF Range, IsInjective
<1>1. IsList(list, S)
  BY ListExists
<1>2. list[0] = <<>>
  <2> HIDE DEF list
  <2> QED BY <1>0, <1>1 DEF IsList
<1>3. ASSUME NEW k \in Nat, k + 1 <= n
      PROVE  list[k + 1] = IF Calendar[k + 1] \in S THEN Append(list[k], Calendar[k + 1]) ELSE list[k]
  <2>1. k + 1 \in 0..Len(Calendar) /\ (k + 1) - 1 = k /\ k + 1 # 0
    BY <1>0, <1>3
  <2> HIDE DEF list
  <2> QED BY <1>1, <2>1 DEF IsList
<1> HIDE DEF list
<1>4. ASSUME NEW k \in Nat, k + 1 <= n
      PROVE  /\ Calendar[k + 1] \notin S => upTo(k + 1) = upTo(k)
             /\ Calendar[k + 1] \in S => /\ upTo(k + 1) = upTo(k) \cup {Calendar[k + 1]}
                                        /\ Calendar[k + 1] \notin upTo(k)
  <2>1. 1..(k + 1) = 1..k \cup {k + 1} /\ k + 1 \in 1..n /\ 1..k \subseteq 1..n /\ k + 1 \notin 1..k
    BY <1>0, <1>4
  <2> HIDE DEF n
  <2> QED BY <1>0, <2>1
<1>5. 0 \in G
  <2>1. upTo(0) = {}
    OBVIOUS
  <2>2. ListsOnce(<<>>, {})
    BY DEF ListsOnce, Range, IsInjective
  <2> HIDE DEF upTo, n
  <2> QED BY <1>2, <2>1, <2>2
<1>6. ASSUME NEW k \in Nat, k + 1 <= n, ListsOnce(list[k], upTo(k))
      PROVE  ListsOnce(list[k + 1], upTo(k + 1))
  <2> DEFINE Q == list[k]
             c == Calendar[k + 1]
             U == upTo(k)
             V == upTo(k + 1)
  <2>1. CASE c \notin S
    <3>1. V = U /\ list[k + 1] = Q
      BY <1>3, <1>4, <1>6, <2>1
    <3> HIDE DEF V, U, Q
    <3> QED BY <1>6, <3>1 DEF V, U, Q
  <2>2. CASE c \in S
    <3>1. V = U \cup {c} /\ c \notin U /\ list[k + 1] = Append(Q, c)
      BY <1>3, <1>4, <1>6, <2>2
    <3>2. ListsOnce(Q, U)
      BY <1>6
    <3> HIDE DEF Q, c, U, V
    <3>3. ListsOnce(Append(Q, c), U \cup {c})
      BY <3>1, <3>2, OneMoreListed
    <3> QED BY <3>1, <3>3 DEF V
  <2> QED BY <2>1, <2>2
<1>7. Nat \subseteq G
  <2>1. \A k \in Nat : k \in G => k + 1 \in G
    <3> HIDE DEF upTo
    <3> QED BY <1>0, <1>6
  <2> HIDE DEF G
  <2> QED BY <1>5, <2>1, Naturally
<1>8. ListsOnce(list[n], upTo(n))
  <2> HIDE DEF upTo, n
  <2> QED BY <1>0, <1>7
<1>9. upTo(n) = S
  BY <1>0
<1>10. Listed(S) = list[n]
  BY DEF Listed, list, IsList
<1> HIDE DEF upTo, n
<1> QED BY <1>8, <1>9, <1>10

-----------------------------------------------------------------------------
(* What the windows that start at an item are made of, as in the code.     *)
IsWindows(from, items, target) ==
  from = [w \in (1..Len(items)) \X (1..Len(items) + 1) \X Nat |->
            IF w[2] > Len(items) THEN {}
            ELSE (IF w[3] + items[w[2]] = target THEN {<<w[1], w[2]>>} ELSE {})
                   \cup (IF w[3] + items[w[2]] > target THEN {}
                         ELSE from[<<w[1], w[2] + 1, w[3] + items[w[2]]>>])]

(* The windows can be computed.                                            *)
LEMMA WindowsExist ==
  ASSUME NEW items \in Seq(Nat), NEW target \in Int
  PROVE  \E from : IsWindows(from, items, target)
<1> DEFINE n == Len(items)
           D == (1..n) \X (1..n + 1) \X Nat
           V == SUBSET (Nat \X Nat)
           m == [w \in D |-> n + 1 - w[2]]
           Stops == {w \in D : w[2] > n \/ w[3] + items[w[2]] > target}
           here(w) == IF w[3] + items[w[2]] = target THEN {<<w[1], w[2]>>} ELSE {}
           base == [w \in Stops |-> {}]
           next == [w \in D |-> <<w[1], w[2] + 1, w[3] + items[w[2]]>>]
           step == [p \in D \X V |-> here(p[1]) \cup p[2]]
<1>0. n \in Nat /\ \A j \in 1..n : items[j] \in Nat
  OBVIOUS
<1>1. m \in [D -> Nat] /\ DOMAIN base = Stops /\ \A w \in Stops : base[w] = {}
  BY <1>0
<1>2. \A w \in D \ Stops : /\ next[w] = <<w[1], w[2] + 1, w[3] + items[w[2]]>>
                           /\ next[w] \in D /\ m[next[w]] < m[w]
  <2> TAKE w \in D \ Stops
  <2>1. w[1] \in 1..n /\ w[2] \in 1..n /\ w[3] \in Nat /\ items[w[2]] \in Nat
    BY <1>0
  <2>2. next[w] = <<w[1], w[2] + 1, w[3] + items[w[2]]>>
    OBVIOUS
  <2>3. <<w[1], w[2] + 1, w[3] + items[w[2]]>> \in D
    <3>1. w[2] + 1 \in 1..n + 1
      <4> HIDE DEF m, base, next, step, Stops, D, n, here, V
      <4> QED BY <1>0, <2>1
    <3>2. w[3] + items[w[2]] \in Nat
      <4>1. \A j, k \in Nat : j + k \in Nat
        OBVIOUS
      <4> HIDE DEF m, base, next, step, Stops, D, n, here, V
      <4> QED BY <2>1, <4>1
    <3> HIDE DEF m, base, next, step, Stops, n
    <3> QED BY <2>1, <3>1, <3>2
  <2>4. m[<<w[1], w[2] + 1, w[3] + items[w[2]]>>] = n + 1 - (w[2] + 1) /\ m[w] = n + 1 - w[2]
    BY <2>3
  <2> HIDE DEF D, m, next
  <2> QED BY <1>0, <2>1, <2>2, <2>3, <2>4
<1>3. \A w \in D \ Stops : \A v \in V : step[<<w, v>>] = here(w) \cup v /\ step[<<w, v>>] \in V
  <2> TAKE w \in D \ Stops
  <2> TAKE v \in V
  <2>1. <<w, v>> \in D \X V
    OBVIOUS
  <2>2. step[<<w, v>>] = here(w) \cup v
    <3> HIDE DEF D, V, here
    <3> QED BY <2>1
  <2>3. here(w) \in V
    BY <1>0
  <2> HIDE DEF here, step
  <2> QED BY <2>2, <2>3
<1>4. PICK from : Recurses(from, D, V, base, next, step)
  <2>1. \A w \in D : w \in DOMAIN base => base[w] \in V
    BY <1>1
  <2>2. \A w \in D \ DOMAIN base : next[w] \in D /\ m[next[w]] < m[w]
    <3> HIDE DEF D, V, m, base, next, step, Stops
    <3> QED BY <1>1, <1>2
  <2>3. \A w \in D \ DOMAIN base : \A v \in V : step[<<w, v>>] \in V
    <3> HIDE DEF D, V, m, base, next, step, Stops, here
    <3> QED BY <1>1, <1>3
  <2>4. m \in [D -> Nat]
    BY <1>1
  <2> HIDE DEF D, V, m, base, next, step, here, Stops, n
  <2> QED BY <2>1, <2>2, <2>3, <2>4, TypedRecursion
<1> DEFINE body(w) == IF w[2] > n THEN {}
                      ELSE (IF w[3] + items[w[2]] = target THEN {<<w[1], w[2]>>} ELSE {})
                             \cup (IF w[3] + items[w[2]] > target THEN {}
                                   ELSE from[<<w[1], w[2] + 1, w[3] + items[w[2]]>>])
<1>4a. /\ from \in [D -> V]
       /\ \A w \in D : from[w] = IF w \in DOMAIN base THEN base[w] ELSE step[<<w, from[next[w]]>>]
  BY <1>4 DEF Recurses
<1>5. \A w \in D : from[w] = body(w)
  <2> TAKE w \in D
  <2>1. CASE w \in Stops
    <3>1. from[w] = {}
      <4> HIDE DEF D, V, base, next, step, Stops
      <4> QED BY <1>1, <1>4a, <2>1
    <3>2. body(w) = {}
      <4>1. w[2] \in 1..n => w[3] + items[w[2]] \in Int
        BY <1>0
      <4> QED BY <1>0, <2>1, <4>1
    <3> QED BY <3>1, <3>2
  <2>2. CASE w \notin Stops
    <3>1. from[w] = step[<<w, from[next[w]]>>]
      <4> HIDE DEF D, V, base, next, step, Stops
      <4> QED BY <1>1, <1>4a, <2>2
    <3>2. from[next[w]] \in V /\ next[w] = <<w[1], w[2] + 1, w[3] + items[w[2]]>>
      <4> HIDE DEF D, V, next
      <4> QED BY <1>2, <1>4a, <2>2
    <3>3. from[w] = here(w) \cup from[<<w[1], w[2] + 1, w[3] + items[w[2]]>>]
      <4> HIDE DEF D, V, step, next, here
      <4> QED BY <1>3, <2>2, <3>1, <3>2
    <3>4. ~(w[2] > n) /\ ~(w[3] + items[w[2]] > target)
      BY <2>2
    <3> HIDE DEF D, n, Stops
    <3> QED BY <3>3, <3>4
  <2> QED BY <2>1, <2>2
<1>6. from = [w \in D |-> body(w)]
  <2>1. from = [w \in D |-> from[w]]
    BY <1>4a
  <2> HIDE DEF D, body
  <2> QED BY <1>5, <2>1
<1> QED BY <1>6 DEF IsWindows

(* The sum over a window.                                                  *)
LEMMA WindowTotal ==
  ASSUME NEW items \in Seq(Nat), NEW j \in 1..Len(items), NEW l \in j..Len(items)
  PROVE  /\ Total(items, j..l) = items[j] + Total(items, j + 1..l)
         /\ Total(items, j..l) \in Nat /\ Total(items, j + 1..l) \in Nat
         /\ Total(items, l + 1..l) = 0
<1>1. /\ \A k \in j..l : items[k] \in Nat
      /\ j \in Int /\ l \in Int /\ j + 1 \in Int /\ j \in j..l
      /\ (j..l) \ {j} = j + 1..l /\ j + 1..l \subseteq j..l /\ l + 1..l = {}
  OBVIOUS
<1>2. IsFiniteSet(j..l) /\ IsFiniteSet(j + 1..l)
  BY <1>1, FS_Interval
<1>3. SumFunctionOnSet(items, j..l) = items[j] + SumFunctionOnSet(items, (j..l) \ {j})
  BY <1>1, <1>2, SumWithout
<1>4. SumFunctionOnSet(items, (j..l) \ {j}) = SumFunctionOnSet(items, j + 1..l)
  BY <1>1, Zenon
<1>5. SumFunctionOnSet(items, j..l) \in Nat /\ SumFunctionOnSet(items, j + 1..l) \in Nat
  BY <1>1, <1>2, SumType
<1>6. SumFunctionOnSet(items, l + 1..l) = 0
  BY <1>1, SumOfNothing
<1> QED BY <1>3, <1>4, <1>5, <1>6 DEF Total

(* The candidate windows are all that meet the target, and no others.      *)
THEOREM WindowsMeetTheTarget ==
  ASSUME NEW items \in Seq(Nat), NEW target \in Int
  PROVE  WindowsAreExact(items, target)
<1> DEFINE n == Len(items)
           D == (1..n) \X (1..n + 1) \X Nat
           m == [w \in D |-> n + 1 - w[2]]
           from == CHOOSE from : IsWindows(from, items, target)
           found(i, j, total) == {<<i, l>> : l \in {l \in j..n : total + Total(items, j..l) = target}}
           G == {w \in D : from[w] = found(w[1], w[2], w[3])}
<1>0. n \in Nat /\ DOMAIN items = 1..n /\ \A j \in 1..n : items[j] \in Nat
  OBVIOUS
<1>1. IsWindows(from, items, target)
  BY WindowsExist
<1>2. m \in [D -> Nat]
  BY <1>0
<1>3. ASSUME NEW i \in 1..n, NEW j \in 1..n + 1, NEW t \in Nat
      PROVE  /\ <<i, j, t>> \in D /\ m[<<i, j, t>>] = n + 1 - j
             /\ from[<<i, j, t>>] =
                  IF j > n THEN {}
                  ELSE (IF t + items[j] = target THEN {<<i, j>>} ELSE {})
                         \cup (IF t + items[j] > target THEN {}
                               ELSE from[<<i, j + 1, t + items[j]>>])
  <2>1. <<i, j, t>> \in D
    OBVIOUS
  <2> HIDE DEF from
  <2> QED BY <1>1, <2>1 DEF IsWindows
<1> HIDE DEF from
<1>4. ASSUME NEW i \in 1..n, NEW j \in 1..n + 1, NEW t \in Nat,
             j <= n => from[<<i, j + 1, t + items[j]>>] = found(i, j + 1, t + items[j])
      PROVE  from[<<i, j, t>>] = found(i, j, t)
  <2>1. CASE j > n
    <3>1. j..n = {}
      BY <1>0, <2>1
    <3>2. found(i, j, t) = {}
      BY <3>1
    <3> HIDE DEF found, n
    <3> QED BY <1>3, <2>1, <3>2
  <2>2. CASE ~(j > n)
    <3>1. j \in 1..n /\ j \in j..n /\ items[j] \in Nat
      BY <1>0, <2>2
    <3>2. \A l \in j..n : /\ Total(items, j..l) = items[j] + Total(items, j + 1..l)
                          /\ Total(items, j..l) \in Nat /\ Total(items, j + 1..l) \in Nat
      BY <3>1, WindowTotal
    <3>3. Total(items, j..j) = items[j]
      <4>1. Total(items, j + 1..j) = 0 /\ Total(items, j..j) = items[j] + Total(items, j + 1..j)
        BY <3>1, WindowTotal
      <4> QED BY <3>1, <4>1
    <3>4. CASE t + items[j] > target
      <4>1. \A l \in j..n : t + Total(items, j..l) # target
        <5> TAKE l \in j..n
        <5> DEFINE a == Total(items, j..l)
                   b == Total(items, j + 1..l)
        <5>1. a = items[j] + b /\ a \in Nat /\ b \in Nat
          BY <3>2
        <5> HIDE DEF a, b
        <5>2. t + a # target
          <6> HIDE DEF D, m, found, G, n
          <6> QED BY <1>0, <3>1, <3>4, <5>1
        <5> QED BY <5>2 DEF a
      <4>2. found(i, j, t) = {}
        BY <4>1
      <4>3. t + items[j] # target
        BY <3>1, <3>4
      <4> HIDE DEF found, n
      <4> QED BY <1>3, <2>2, <3>4, <4>2, <4>3
    <3>5. CASE ~(t + items[j] > target)
      <4> DEFINE later == found(i, j + 1, t + items[j])
                 here == IF t + items[j] = target THEN {<<i, j>>} ELSE {}
      <4>1. from[<<i, j, t>>] = here \cup later
        <5>1. j <= n
          BY <1>0, <2>2
        <5>2. from[<<i, j + 1, t + items[j]>>] = later
          BY <1>4, <5>1
        <5>3. from[<<i, j, t>>] = here \cup from[<<i, j + 1, t + items[j]>>]
          <6> HIDE DEF found, n, D, m, G
          <6> QED BY <1>3, <2>2, <3>5
        <5> HIDE DEF found, here, later
        <5> QED BY <5>2, <5>3
      <4>2. \A l \in j + 1..n : t + Total(items, j..l) = (t + items[j]) + Total(items, j + 1..l)
        BY <3>1, <3>2
      <4>3. j..n = {j} \cup (j + 1..n) /\ j \notin j + 1..n
        BY <3>1
      <4> DEFINE meets(l) == t + Total(items, j..l) = target
                 meetsLater(l) == (t + items[j]) + Total(items, j + 1..l) = target
      <4>4. (meets(j) <=> t + items[j] = target) /\ \A l \in j + 1..n : meets(l) <=> meetsLater(l)
        BY <3>3, <4>2
      <4>5. found(i, j, t) = {<<i, l>> : l \in {l \in j..n : meets(l)}}
        OBVIOUS
      <4>6. later = {<<i, l>> : l \in {l \in j + 1..n : meetsLater(l)}}
        OBVIOUS
      <4>7. here = IF meets(j) THEN {<<i, j>>} ELSE {}
        BY <4>4
      <4>8. \A x : x \in {<<i, l>> : l \in {l \in j..n : meets(l)}} <=>
                     x \in here \cup later
        <5> HIDE DEF found, here, later, meets, meetsLater, n
        <5> QED BY <4>3, <4>4, <4>6, <4>7
      <4> HIDE DEF found, later, here, meets, meetsLater
      <4> QED BY <4>1, <4>5, <4>8
    <3> QED BY <3>4, <3>5
  <2> QED BY <2>1, <2>2
<1>5. \A w \in D : (\A v \in D : m[v] < m[w] => v \in G) => w \in G
  <2> SUFFICES ASSUME NEW i \in 1..n, NEW j \in 1..n + 1, NEW t \in Nat,
                      \A v \in D : m[v] < m[<<i, j, t>>] => v \in G
               PROVE  <<i, j, t>> \in G
    <3> HIDE DEF m, G
    <3> QED OBVIOUS
  <2>1. ASSUME j <= n
        PROVE  from[<<i, j + 1, t + items[j]>>] = found(i, j + 1, t + items[j])
    <3>1. j + 1 \in 1..n + 1 /\ t + items[j] \in Nat
      BY <1>0, <2>1
    <3>2. /\ <<i, j + 1, t + items[j]>> \in D
          /\ m[<<i, j + 1, t + items[j]>>] = n + 1 - (j + 1)
          /\ m[<<i, j, t>>] = n + 1 - j
      <4> HIDE DEF D, m, n
      <4> QED BY <1>3, <3>1
    <3>3. m[<<i, j + 1, t + items[j]>>] < m[<<i, j, t>>]
      <4> HIDE DEF m
      <4> QED BY <1>0, <3>2
    <3>4. <<i, j + 1, t + items[j]>> \in G
      <4> HIDE DEF m, G, D
      <4> QED BY <3>2, <3>3
    <3> HIDE DEF D, found
    <3> QED BY <3>4
  <2>2. from[<<i, j, t>>] = found(i, j, t)
    <3> HIDE DEF D, found, m, G
    <3> QED BY <1>4, <2>1
  <2> HIDE DEF found
  <2> QED BY <2>2
<1>6. \A i \in 1..n : from[<<i, i, 0>>] = found(i, i, 0)
  <2>1. D \subseteq G
    <3> HIDE DEF D, m, G
    <3> QED BY <1>2, <1>5, BySize
  <2>2. \A i \in 1..n : <<i, i, 0>> \in D
    OBVIOUS
  <2> HIDE DEF D, found
  <2> QED BY <2>1, <2>2
<1>7. ContiguousWindows(items, target) = UNION {from[<<i, i, 0>>] : i \in 1..n}
  BY DEF ContiguousWindows, from, IsWindows
<1>8. \A i \in 1..n : \A l \in i..n : 0 + Total(items, i..l) = Total(items, i..l)
  BY WindowTotal
<1>9. \A i \in 1..n : found(i, i, 0) = {<<i, l>> : l \in {l \in i..n : Total(items, i..l) = target}}
  <2> HIDE DEF n
  <2> QED BY <1>8
<1>10. \A i \in 1..n : i..n = {l \in 1..n : i <= l}
  BY <1>0
<1> HIDE DEF found, n
<1>11. UNION {from[<<i, i, 0>>] : i \in 1..n} =
         {w \in (1..n) \X (1..n) : w[1] <= w[2] /\ Total(items, w[1]..w[2]) = target}
  <2> DEFINE meets(i, l) == Total(items, i..l) = target
             ends(i) == {<<i, l>> : l \in {l \in i..n : meets(i, l)}}
  <2>1. \A i \in 1..n : from[<<i, i, 0>>] = ends(i)
    BY <1>6, <1>9
  <2>2. \A w \in (1..n) \X (1..n) : w[1] <= w[2] /\ meets(w[1], w[2]) => w \in ends(w[1])
    <3> HIDE DEF meets
    <3> QED BY <1>10
  <2>3. \A i \in 1..n : \A w \in ends(i) :
          w \in (1..n) \X (1..n) /\ w[1] <= w[2] /\ meets(w[1], w[2])
    <3> HIDE DEF meets
    <3> QED BY <1>10
  <2>4. UNION {from[<<i, i, 0>>] : i \in 1..n} = UNION {ends(i) : i \in 1..n}
    <3> HIDE DEF ends
    <3> QED BY <2>1
  <2>5. UNION {ends(i) : i \in 1..n} = {w \in (1..n) \X (1..n) : w[1] <= w[2] /\ meets(w[1], w[2])}
    <3> HIDE DEF ends, meets
    <3> QED BY <2>2, <2>3
  <2> QED BY <2>4, <2>5
<1> QED BY <1>0, <1>7, <1>11 DEF WindowsAreExact

(* What is summed over items.                                              *)
LEMMA TotalType ==
  ASSUME NEW items \in Seq(Nat), NEW S \in SUBSET (DOMAIN items)
  PROVE  Total(items, S) \in Nat /\ Total(items, S) <= Total(items, DOMAIN items)
<1>1. IsFiniteSet(DOMAIN items) /\ \A k \in DOMAIN items : items[k] \in Nat
  <2>1. DOMAIN items = 1..Len(items) /\ 1 \in Int /\ Len(items) \in Int
    OBVIOUS
  <2> QED BY <2>1, FS_Interval
<1>2. IsFiniteSet(S) /\ \A k \in S : items[k] \in Nat
  BY <1>1, FS_Subset
<1>3. SumFunctionOnSet(items, S) \in Nat
  BY <1>2, SumType
<1>4. SumFunctionOnSet(items, S) <= SumFunctionOnSet(items, DOMAIN items)
  BY <1>1, SumOfSubset
<1> QED BY <1>3, <1>4 DEF Total

(* There is a candidate for every open amount as soon as anything is       *)
(* available, and it says rightly how much of the amount it meets.         *)
THEOREM CandidatesMeetTheTarget ==
  ASSUME NEW items \in Seq(Nat), NEW target \in Nat \ {0}
  PROVE  CandidatesAreExact(items, target)
<1> DEFINE exact == ContiguousWindows(items, target)
           all == Total(items, DOMAIN items)
           partial == [first |-> 1, last |-> Len(items), total |-> Least(target, all),
                       difference |-> IF target > all THEN target - all ELSE 0]
           whole(w) == [first |-> w[1], last |-> w[2], total |-> target, difference |-> 0]
           sound(c) == /\ c.total + c.difference = target /\ c.total <= Total(items, c.first..c.last)
                       /\ (c.difference = 0) <=> all >= target
<1>0. Len(items) \in Nat /\ DOMAIN items = 1..Len(items) /\ all \in Nat
  BY TotalType
<1>1. exact = {w \in (DOMAIN items) \X (DOMAIN items) :
                 w[1] <= w[2] /\ Total(items, w[1]..w[2]) = target}
  BY WindowsMeetTheTarget DEF WindowsAreExact
<1>2. Candidates(items, target) =
        IF exact # {} THEN {whole(w) : w \in exact}
        ELSE IF items = <<>> THEN {} ELSE {partial}
  BY DEF Candidates
<1>3. ASSUME NEW w \in exact PROVE sound(whole(w)) /\ items # <<>>
  <2>1. w[1] \in DOMAIN items /\ w[2] \in DOMAIN items /\ Total(items, w[1]..w[2]) = target
    BY <1>1, <1>3
  <2>2. w[1]..w[2] \in SUBSET (DOMAIN items)
    BY <1>0, <2>1
  <2>3. Total(items, w[1]..w[2]) <= all
    BY <2>2, TotalType
  <2>4. whole(w).first = w[1] /\ whole(w).last = w[2] /\ whole(w).total = target /\ whole(w).difference = 0
    OBVIOUS
  <2> HIDE DEF exact, all, whole
  <2>5. items # <<>>
    BY <2>1
  <2> QED BY <1>0, <2>1, <2>3, <2>4, <2>5
<1>4. sound(partial)
  <2>1. /\ partial.first = 1 /\ partial.last = Len(items) /\ partial.total = Least(target, all)
        /\ partial.difference = IF target > all THEN target - all ELSE 0
    OBVIOUS
  <2>2. Total(items, 1..Len(items)) = all
    BY <1>0, Zenon
  <2> HIDE DEF all, partial
  <2> QED BY <1>0, <2>1, <2>2 DEF Least
<1>5. (Candidates(items, target) = {}) <=> (items = <<>>)
  <2> HIDE DEF exact, partial, whole, sound
  <2> QED BY <1>2, <1>3
<1>6. \A c \in Candidates(items, target) : sound(c)
  <2> HIDE DEF exact, partial, whole, sound
  <2> QED BY <1>2, <1>3, <1>4
<1> QED BY <1>5, <1>6 DEF CandidatesAreExact

-----------------------------------------------------------------------------
(* What is still to be distributed after k items, as in the code.          *)
IsRemaining(remaining, items, target) ==
  remaining = [k \in 0..Len(items) |->
                 IF k = 0 THEN target
                 ELSE remaining[k - 1] - Least(remaining[k - 1], items[k])]

(* It can be computed.                                                     *)
LEMMA RemainingExists ==
  ASSUME NEW items \in Seq(Nat), NEW target \in Nat
  PROVE  \E remaining : IsRemaining(remaining, items, target) /\ remaining \in [0..Len(items) -> Nat]
<1> DEFINE n == Len(items)
           D == 0..n
           m == [k \in D |-> k]
           base == [k \in {0} |-> target]
           next == [k \in D |-> k - 1]
           step == [p \in D \X Nat |-> p[2] - Least(p[2], items[p[1]])]
<1>0. n \in Nat /\ \A j \in 1..n : items[j] \in Nat
  OBVIOUS
<1>1. m \in [D -> Nat] /\ DOMAIN base = {0} /\ base[0] = target
  OBVIOUS
<1>2. \A k \in D \ {0} : next[k] = k - 1 /\ next[k] \in D /\ m[next[k]] < m[k] /\ k \in 1..n
  BY <1>0
<1>3. \A k \in D \ {0} : \A v \in Nat : step[<<k, v>>] = v - Least(v, items[k]) /\ step[<<k, v>>] \in Nat
  <2> TAKE k \in D \ {0}
  <2> TAKE v \in Nat
  <2>1. step[<<k, v>>] = v - Least(v, items[k])
    OBVIOUS
  <2>2. items[k] \in Nat
    BY <1>0, <1>2
  <2> HIDE DEF step
  <2> QED BY <2>1, <2>2 DEF Least
<1>4. PICK remaining : Recurses(remaining, D, Nat, base, next, step)
  <2>1. \A k \in D : k \in DOMAIN base => base[k] \in Nat
    BY <1>1
  <2>2. \A k \in D \ DOMAIN base : next[k] \in D /\ m[next[k]] < m[k]
    <3> HIDE DEF D, m, base, next, step
    <3> QED BY <1>1, <1>2
  <2>3. \A k \in D \ DOMAIN base : \A v \in Nat : step[<<k, v>>] \in Nat
    <3> HIDE DEF D, m, base, next, step
    <3> QED BY <1>1, <1>3
  <2>4. m \in [D -> Nat]
    BY <1>1
  <2> HIDE DEF D, m, base, next, step, n
  <2> QED BY <2>1, <2>2, <2>3, <2>4, TypedRecursion
<1>5. /\ remaining \in [D -> Nat]
      /\ \A k \in D : remaining[k] = IF k \in DOMAIN base THEN base[k] ELSE step[<<k, remaining[next[k]]>>]
  BY <1>4 DEF Recurses
<1>6. ASSUME NEW k \in D
      PROVE  remaining[k] = IF k = 0 THEN target ELSE remaining[k - 1] - Least(remaining[k - 1], items[k])
  <2>1. k # 0 => remaining[k - 1] \in Nat
    <3>1. k # 0 => k - 1 \in D
      BY <1>0
    <3> HIDE DEF D, m, base, next, step
    <3> QED BY <1>5, <3>1
  <2>2. CASE k = 0
    <3>1. k \in DOMAIN base /\ base[k] = target
      BY <1>1, <2>2
    <3>2. remaining[k] = base[k]
      BY <1>5, <3>1, Zenon
    <3> QED BY <2>2, <3>1, <3>2
  <2>3. CASE k # 0
    <3>1. k \notin DOMAIN base /\ next[k] = k - 1
      BY <1>1, <2>3
    <3>2. remaining[k] = step[<<k, remaining[k - 1]>>]
      <4> HIDE DEF D, m, base, next, step
      <4> QED BY <1>5, <3>1
    <3> HIDE DEF D, m, base, next, step
    <3> QED BY <1>3, <2>1, <2>3, <3>2
  <2> QED BY <2>2, <2>3
<1>7. remaining = [k \in D |->
        IF k = 0 THEN target ELSE remaining[k - 1] - Least(remaining[k - 1], items[k])]
  <2>1. remaining = [k \in D |-> remaining[k]]
    BY <1>5
  <2> HIDE DEF D, m, base, next, step
  <2> QED BY <1>6, <2>1
<1> QED BY <1>5, <1>7 DEF IsRemaining

(* The rows of the workbench take from every item at most what it has, and *)
(* together what the invoice needs if the items have that much.            *)
THEOREM RowsMeetTheTarget ==
  ASSUME NEW items \in Seq(Nat), NEW target \in Nat
  PROVE  RowsAreExact(items, target)
<1> DEFINE n == Len(items)
           remaining == CHOOSE remaining : IsRemaining(remaining, items, target)
           row == [k \in DOMAIN items |-> Least(remaining[k - 1], items[k])]
           G == {k \in Nat : k <= n =>
                   /\ Total(row, 1..k) = target - remaining[k]
                   /\ Total(row, 1..k) = Least(target, Total(items, 1..k))}
<1>0. n \in Nat /\ DOMAIN items = 1..n /\ \A k \in 1..n : items[k] \in Nat
  OBVIOUS
<1>1. \E f : IsRemaining(f, items, target) /\ f \in [0..n -> Nat]
  BY RemainingExists
<1>2. IsRemaining(remaining, items, target)
  BY <1>1
<1>3. remaining = [k \in 0..n |->
        IF k = 0 THEN target ELSE remaining[k - 1] - Least(remaining[k - 1], items[k])]
  <2> HIDE DEF remaining
  <2> QED BY <1>2 DEF IsRemaining
<1> HIDE DEF remaining
<1>4. remaining[0] = target /\ \A k \in 1..n : remaining[k] = remaining[k - 1] - Least(remaining[k - 1], items[k])
  <2>1. 0 \in 0..n /\ \A k \in 1..n : k \in 0..n /\ k # 0
    BY <1>0
  <2> HIDE DEF n
  <2> QED BY <1>3, <2>1
<1>5. \A k \in 0..n : remaining[k] \in Nat
  <2> DEFINE H == {k \in Nat : k <= n => remaining[k] \in Nat}
  <2>1. 0 \in H
    BY <1>4
  <2>2. ASSUME NEW k \in Nat, k \in H, k + 1 <= n PROVE remaining[k + 1] \in Nat
    <3>1. k + 1 \in 1..n /\ (k + 1) - 1 = k /\ remaining[k] \in Nat
      BY <1>0, <2>2
    <3>2. remaining[k + 1] = remaining[k] - Least(remaining[k], items[k + 1]) /\ items[k + 1] \in Nat
      <4> HIDE DEF n
      <4> QED BY <1>0, <1>4, <3>1
    <3> QED BY <3>1, <3>2 DEF Least
  <2>3. \A k \in Nat : k \in H => k + 1 \in H
    BY <2>2
  <2> HIDE DEF H
  <2>4. Nat \subseteq H
    BY <2>1, <2>3, Naturally
  <2> QED BY <1>0, <2>4 DEF H
<1>6. \A k \in 1..n : /\ row[k] = Least(remaining[k - 1], items[k]) /\ row[k] \in 0..items[k]
                      /\ row[k] \in Nat
  <2> TAKE k \in 1..n
  <2>1. k - 1 \in 0..n /\ items[k] \in Nat
    BY <1>0
  <2>2. remaining[k - 1] \in Nat
    BY <1>5, <2>1
  <2>3. row[k] = Least(remaining[k - 1], items[k])
    BY <1>0
  <2> HIDE DEF row, n
  <2> QED BY <2>1, <2>2, <2>3 DEF Least
<1> HIDE DEF row
<1>7. ASSUME NEW k \in Nat, k + 1 <= n
      PROVE  /\ Total(row, 1..k + 1) = row[k + 1] + Total(row, 1..k)
             /\ Total(items, 1..k + 1) = items[k + 1] + Total(items, 1..k)
             /\ Total(items, 1..k) \in Nat /\ Total(row, 1..k) \in Nat
  <2> DEFINE K == 1..k + 1
             L == 1..k
  <2>1. K \ {k + 1} = L /\ k + 1 \in K /\ K \subseteq 1..n /\ L \subseteq 1..n
    BY <1>0, <1>7
  <2>2. IsFiniteSet(K) /\ IsFiniteSet(L)
    <3>1. 1 \in Int /\ k \in Int /\ k + 1 \in Int
      OBVIOUS
    <3> QED BY <3>1, FS_Interval
  <2>3. \A j \in K : row[j] \in Nat /\ items[j] \in Nat
    BY <1>0, <1>6, <2>1
  <2>4. \A j \in L : row[j] \in Nat /\ items[j] \in Nat
    BY <1>0, <1>6, <2>1
  <2> HIDE DEF K, L, n
  <2>5. SumFunctionOnSet(row, K) = row[k + 1] + SumFunctionOnSet(row, K \ {k + 1})
    BY <2>1, <2>2, <2>3, SumWithout
  <2>6. SumFunctionOnSet(items, K) = items[k + 1] + SumFunctionOnSet(items, K \ {k + 1})
    BY <2>1, <2>2, <2>3, SumWithout
  <2>7. SumFunctionOnSet(row, L) \in Nat /\ SumFunctionOnSet(items, L) \in Nat
    BY <2>2, <2>4, SumType
  <2> QED BY <2>1, <2>5, <2>6, <2>7 DEF Total, K, L
<1>8. 0 \in G
  <2>1. 1..0 = {}
    OBVIOUS
  <2>2. Total(row, 1..0) = 0 /\ Total(items, 1..0) = 0
    BY <2>1, SumOfNothing DEF Total
  <2> QED BY <1>4, <2>2 DEF Least
<1>9. ASSUME NEW k \in Nat, k \in G PROVE k + 1 \in G
  <2> SUFFICES ASSUME k + 1 <= n
               PROVE  /\ Total(row, 1..k + 1) = target - remaining[k + 1]
                      /\ Total(row, 1..k + 1) = Least(target, Total(items, 1..k + 1))
    OBVIOUS
  <2> DEFINE sofar == Total(row, 1..k)
             had == Total(items, 1..k)
             r == remaining[k]
             item == items[k + 1]
  <2>1. k + 1 \in 1..n /\ (k + 1) - 1 = k /\ k \in 0..n /\ k <= n
    BY <1>0
  <2>2. sofar = target - r /\ sofar = Least(target, had)
    BY <1>9, <2>1
  <2>3. item \in Nat /\ r \in Nat /\ row[k + 1] = Least(r, item) /\ remaining[k + 1] = r - Least(r, item)
    <3> HIDE DEF n
    <3> QED BY <1>0, <1>4, <1>5, <1>6, <2>1
  <2>4. /\ Total(row, 1..k + 1) = row[k + 1] + sofar /\ Total(items, 1..k + 1) = item + had
        /\ had \in Nat /\ sofar \in Nat
    BY <1>7
  <2> HIDE DEF n, sofar, had, r, item
  <2> QED BY <2>2, <2>3, <2>4 DEF Least
<1>10. Total(row, 1..n) = Least(target, Total(items, 1..n))
  <2>1. Nat \subseteq G
    <3> HIDE DEF G
    <3> QED BY <1>8, <1>9, Naturally
  <2> HIDE DEF n
  <2> QED BY <1>0, <2>1
<1>11. DirectAllocationRows(items, target) = row
  BY DEF DirectAllocationRows, row, remaining, IsRemaining
<1> HIDE DEF n
<1> QED BY <1>0, <1>6, <1>10, <1>11 DEF RowsAreExact

-----------------------------------------------------------------------------
(* What the plan gives from some invoice and some fund on, as in the code. *)
IsPlan(plan, invoices, funds) ==
  plan = [w \in Nat \X Nat \X Nat \X Nat |->
            IF w[1] > Len(invoices) \/ w[2] > Len(funds) THEN {}
            ELSE IF w[3] = 0 THEN plan[<<w[1] + 1, w[2], At(invoices, w[1] + 1), w[4]>>]
            ELSE IF w[4] = 0 THEN plan[<<w[1], w[2] + 1, w[3], At(funds, w[2] + 1)>>]
            ELSE {<<w[1], w[2], Least(w[3], w[4])>>}
                   \cup plan[<<w[1], w[2], w[3] - Least(w[3], w[4]), w[4] - Least(w[3], w[4])>>]]

Gap(n, i) == IF i > n THEN 0 ELSE n + 1 - i

(* An open amount of the list, or nothing after its end.                   *)
LEMMA AtType ==
  ASSUME NEW items \in Seq(Nat), NEW k \in Nat
  PROVE  At(items, k) \in Nat
BY DEF At

(* The plan can be computed.                                               *)
LEMMA PlanExists ==
  ASSUME NEW invoices \in Seq(Nat), NEW funds \in Seq(Nat)
  PROVE  \E plan : IsPlan(plan, invoices, funds)
<1> DEFINE I == Len(invoices)
           J == Len(funds)
           D == Nat \X Nat \X Nat \X Nat
           V == SUBSET (Nat \X Nat \X Nat)
           Stops == {w \in D : w[1] > I \/ w[2] > J}
           both(w) == w[3] # 0 /\ w[4] # 0
           least(w) == Least(w[3], w[4])
           m == [w \in D |-> 2 * (Gap(I, w[1]) + Gap(J, w[2])) + (IF both(w) THEN 1 ELSE 0)]
           base == [w \in Stops |-> {}]
           after(w) == IF w[3] = 0 THEN <<w[1] + 1, w[2], At(invoices, w[1] + 1), w[4]>>
                       ELSE IF w[4] = 0 THEN <<w[1], w[2] + 1, w[3], At(funds, w[2] + 1)>>
                       ELSE <<w[1], w[2], w[3] - least(w), w[4] - least(w)>>
           here(w) == IF both(w) THEN {<<w[1], w[2], least(w)>>} ELSE {}
           next == [w \in D |-> after(w)]
           step == [p \in D \X V |-> here(p[1]) \cup p[2]]
<1>0. I \in Nat /\ J \in Nat
  OBVIOUS
<1>1. /\ m \in [D -> Nat] /\ DOMAIN base = Stops /\ \A w \in Stops : base[w] = {}
  <2>1. \A w \in D : 2 * (Gap(I, w[1]) + Gap(J, w[2])) + (IF both(w) THEN 1 ELSE 0) \in Nat
    <3> TAKE w \in D
    <3>1. Gap(I, w[1]) \in Nat /\ Gap(J, w[2]) \in Nat
      <4>1. w[1] \in Nat /\ w[2] \in Nat
        OBVIOUS
      <4> HIDE DEF I, J, D
      <4> QED BY <1>0, <4>1 DEF Gap
    <3> HIDE DEF both
    <3> QED BY <3>1
  <2> QED BY <2>1
<1>2. ASSUME NEW i \in Nat, NEW j \in Nat, NEW due \in Nat, NEW left \in Nat, ~(i > I), ~(j > J)
      PROVE  /\ after(<<i, j, due, left>>) \in D
             /\ m[after(<<i, j, due, left>>)] < m[<<i, j, due, left>>]
             /\ here(<<i, j, due, left>>) \in V
  <2> DEFINE w == <<i, j, due, left>>
  <2>1. w \in D /\ m[w] = 2 * (Gap(I, i) + Gap(J, j)) + (IF due # 0 /\ left # 0 THEN 1 ELSE 0)
    OBVIOUS
  <2>2. Gap(I, i + 1) = Gap(I, i) - 1 /\ Gap(I, i) \in Nat /\ Gap(J, j) \in Nat
        /\ Gap(J, j + 1) = Gap(J, j) - 1
    <3> HIDE DEF I, J
    <3> QED BY <1>0, <1>2 DEF Gap
  <2>3. CASE due = 0
    <3> DEFINE a == At(invoices, i + 1)
               v == <<i + 1, j, a, left>>
    <3>1. after(w) = v /\ here(w) = {}
      BY <2>3
    <3>2. a \in Nat
      <4>1. i + 1 \in Nat
        OBVIOUS
      <4> QED BY <4>1, AtType
    <3> HIDE DEF a
    <3>3. v \in D
      BY <3>2
    <3>4. m[v] = 2 * (Gap(I, i + 1) + Gap(J, j)) + (IF a # 0 /\ left # 0 THEN 1 ELSE 0)
      <4> HIDE DEF I, J
      <4> QED BY <3>3
    <3>5. m[v] < m[w]
      <4> HIDE DEF m, v, w, I, J, D
      <4> QED BY <2>1, <2>2, <3>4
    <3> HIDE DEF m, v, D, after, here
    <3> QED BY <3>1, <3>3, <3>5
  <2>4. CASE due # 0 /\ left = 0
    <3> DEFINE a == At(funds, j + 1)
               v == <<i, j + 1, due, a>>
    <3>1. after(w) = v /\ here(w) = {}
      BY <2>4
    <3>2. a \in Nat
      <4>1. j + 1 \in Nat
        OBVIOUS
      <4> QED BY <4>1, AtType
    <3> HIDE DEF a
    <3>3. v \in D
      BY <3>2
    <3>4. m[v] = 2 * (Gap(I, i) + Gap(J, j + 1)) + (IF due # 0 /\ a # 0 THEN 1 ELSE 0)
      <4> HIDE DEF I, J
      <4> QED BY <3>3
    <3>5. m[v] < m[w]
      <4> HIDE DEF m, v, w, I, J, D
      <4> QED BY <2>1, <2>2, <3>4
    <3> HIDE DEF m, v, D, after, here
    <3> QED BY <3>1, <3>3, <3>5
  <2>5. CASE due # 0 /\ left # 0
    <3> DEFINE a == Least(due, left)
               v == <<i, j, due - a, left - a>>
    <3>1. after(w) = v /\ here(w) = {<<i, j, a>>}
      BY <2>5
    <3>2. a \in Nat /\ due - a \in Nat /\ left - a \in Nat /\ (due - a = 0 \/ left - a = 0)
      BY <2>5 DEF Least
    <3>3. v \in D
      <4> HIDE DEF a
      <4> QED BY <3>2
    <3>4. m[v] = 2 * (Gap(I, i) + Gap(J, j)) + (IF due - a # 0 /\ left - a # 0 THEN 1 ELSE 0)
      <4> HIDE DEF a
      <4> QED BY <3>3
    <3>5. m[v] < m[w]
      <4> HIDE DEF m, v, w, I, J, D, a
      <4> QED BY <2>1, <2>2, <2>5, <3>2, <3>4
    <3>6. {<<i, j, a>>} \in V
      <4> HIDE DEF a
      <4> QED BY <3>2
    <3> HIDE DEF m, v, D, V, after, here
    <3> QED BY <3>1, <3>3, <3>5, <3>6
  <2> QED BY <2>3, <2>4, <2>5
<1>3. \A w \in D \ Stops : /\ next[w] = after(w) /\ next[w] \in D /\ m[next[w]] < m[w]
                           /\ here(w) \in V
  <2> SUFFICES ASSUME NEW i \in Nat, NEW j \in Nat, NEW due \in Nat, NEW left \in Nat,
                      <<i, j, due, left>> \notin Stops
               PROVE  /\ next[<<i, j, due, left>>] = after(<<i, j, due, left>>)
                      /\ next[<<i, j, due, left>>] \in D
                      /\ m[next[<<i, j, due, left>>]] < m[<<i, j, due, left>>]
                      /\ here(<<i, j, due, left>>) \in V
    <3> HIDE DEF next, after, m, here, V
    <3> QED OBVIOUS
  <2>1. <<i, j, due, left>> \in D /\ ~(i > I) /\ ~(j > J)
    OBVIOUS
  <2>2. next[<<i, j, due, left>>] = after(<<i, j, due, left>>)
    <3> HIDE DEF after, D
    <3> QED BY <2>1
  <2> HIDE DEF next, after, m, D, here, V, I, J
  <2> QED BY <1>2, <2>1, <2>2
<1>4. \A w \in D \ Stops : \A v \in V : step[<<w, v>>] = here(w) \cup v /\ step[<<w, v>>] \in V
  <2> TAKE w \in D \ Stops
  <2> TAKE v \in V
  <2>1. step[<<w, v>>] = here(w) \cup v
    <3>1. <<w, v>> \in D \X V
      OBVIOUS
    <3> HIDE DEF D, V, here
    <3> QED BY <3>1
  <2>2. here(w) \in V
    BY <1>3
  <2> HIDE DEF here, step
  <2> QED BY <2>1, <2>2
<1> HIDE DEF D, V, m, base, next, step, here, Stops, I, J, after
<1>5. PICK plan : Recurses(plan, D, V, base, next, step)
  <2>1. \A w \in D : w \in DOMAIN base => base[w] \in V
    BY <1>1 DEF V
  <2>2. \A w \in D \ DOMAIN base : next[w] \in D /\ m[next[w]] < m[w]
    BY <1>1, <1>3
  <2>3. \A w \in D \ DOMAIN base : \A v \in V : step[<<w, v>>] \in V
    BY <1>1, <1>4
  <2>4. m \in [D -> Nat]
    BY <1>1
  <2> QED BY <2>1, <2>2, <2>3, <2>4, TypedRecursion
<1>6. /\ plan \in [D -> V]
      /\ \A w \in D : plan[w] = IF w \in DOMAIN base THEN base[w] ELSE step[<<w, plan[next[w]]>>]
  BY <1>5 DEF Recurses
<1>7. \A w \in Stops : w \in D /\ plan[w] = {}
  <2>1. Stops \subseteq D
    BY DEF Stops
  <2> QED BY <1>1, <1>6, <2>1
<1>8. \A w \in D \ Stops : plan[w] = here(w) \cup plan[after(w)]
  <2> TAKE w \in D \ Stops
  <2>1. plan[w] = step[<<w, plan[next[w]]>>]
    BY <1>1, <1>6
  <2>2. plan[next[w]] \in V
    BY <1>3, <1>6
  <2> QED BY <1>3, <1>4, <2>1, <2>2
<1> DEFINE body(w) ==
             IF w[1] > I \/ w[2] > J THEN {}
             ELSE IF w[3] = 0 THEN plan[<<w[1] + 1, w[2], At(invoices, w[1] + 1), w[4]>>]
             ELSE IF w[4] = 0 THEN plan[<<w[1], w[2] + 1, w[3], At(funds, w[2] + 1)>>]
             ELSE {<<w[1], w[2], least(w)>>}
                    \cup plan[<<w[1], w[2], w[3] - least(w), w[4] - least(w)>>]
<1>9. \A w \in D : plan[w] = body(w)
  <2> TAKE w \in D
  <2>1. CASE w[1] > I \/ w[2] > J
    <3>1. w \in Stops
      BY <2>1 DEF Stops
    <3> QED BY <1>7, <2>1, <3>1
  <2>2. CASE ~(w[1] > I \/ w[2] > J)
    <3>1. plan[w] = here(w) \cup plan[after(w)]
      BY <1>8, <2>2 DEF Stops
    <3> HIDE DEF least
    <3>2. CASE w[3] = 0
      <4>1. here(w) = {} /\ after(w) = <<w[1] + 1, w[2], At(invoices, w[1] + 1), w[4]>>
        BY <3>2 DEF here, after
      <4> QED BY <2>2, <3>1, <3>2, <4>1
    <3>3. CASE w[3] # 0 /\ w[4] = 0
      <4>1. here(w) = {} /\ after(w) = <<w[1], w[2] + 1, w[3], At(funds, w[2] + 1)>>
        BY <3>3 DEF here, after
      <4> QED BY <2>2, <3>1, <3>3, <4>1
    <3>4. CASE w[3] # 0 /\ w[4] # 0
      <4>1. /\ here(w) = {<<w[1], w[2], least(w)>>}
            /\ after(w) = <<w[1], w[2], w[3] - least(w), w[4] - least(w)>>
        BY <3>4 DEF here, after
      <4> QED BY <2>2, <3>1, <3>4, <4>1
    <3> QED BY <3>2, <3>3, <3>4
  <2> QED BY <2>1, <2>2
<1>10. plan = [w \in D |-> body(w)]
  <2>1. plan = [w \in D |-> plan[w]]
    BY <1>6
  <2> HIDE DEF body
  <2> QED BY <1>9, <2>1
<1> QED BY <1>10 DEF IsPlan, D, I, J

(* Entries of a plan: an invoice, a fund, and what the one gets from the   *)
(* other.                                                                  *)
Entries == Nat \X Nat \X Nat
Cents(A) == SumFunctionOnSet([p \in Entries |-> p[3]], A)
Given(A, side, k) == Cents({p \in A : p[side] = k})

(* A plan with one more entry.                                             *)
LEMMA OneMoreEntry ==
  ASSUME NEW B \in SUBSET Entries, IsFiniteSet(B), NEW p \in Entries, p \notin B
  PROVE  /\ IsFiniteSet({p} \cup B) /\ {p} \cup B \in SUBSET Entries
         /\ Cents(B) \in Nat /\ Cents({p} \cup B) = p[3] + Cents(B)
<1> DEFINE f == [q \in Entries |-> q[3]]
           A == {p} \cup B
<1>1. \A q \in Entries : f[q] = q[3] /\ f[q] \in Nat
  BY DEF Entries
<1>2. IsFiniteSet(A) /\ A \subseteq Entries /\ p \in A /\ A \ {p} = B
  BY FS_AddElement
<1> HIDE DEF A, f
<1>3. SumFunctionOnSet(f, A) = f[p] + SumFunctionOnSet(f, A \ {p})
  BY <1>1, <1>2, SumWithout
<1>4. SumFunctionOnSet(f, B) \in Nat
  BY <1>1, SumType
<1> QED BY <1>1, <1>2, <1>3, <1>4 DEF Cents, A, f

(* What part of a plan gives.                                              *)
LEMMA CentsType ==
  ASSUME NEW A \in SUBSET Entries, IsFiniteSet(A), NEW B \in SUBSET A
  PROVE  IsFiniteSet(B) /\ B \in SUBSET Entries /\ Cents(B) \in Nat
<1> DEFINE f == [q \in Entries |-> q[3]]
<1>1. \A q \in Entries : f[q] \in Nat
  BY DEF Entries
<1>2. IsFiniteSet(B) /\ B \in SUBSET Entries
  BY FS_Subset
<1> HIDE DEF f
<1>3. SumFunctionOnSet(f, B) \in Nat
  BY <1>1, <1>2, SumType
<1> QED BY <1>2, <1>3 DEF Cents, f

(* Nothing is given by nothing.                                            *)
LEMMA CentsOfNothing == Cents({}) = 0
BY SumOfNothing DEF Cents

(* The open amounts from item i on, of which item i lacks due.             *)
Rest(items, i, due) == IF i > Len(items) THEN 0 ELSE due + Total(items, i + 1..Len(items))
Lacks(items, i, due, k) == IF k = i THEN due ELSE items[k]

(* A spreads what invoices and funds have from i and j on.                 *)
Spreads(A, invoices, funds, i, j, due, left) ==
  /\ A \in SUBSET Entries /\ IsFiniteSet(A)
  /\ \A p \in A : p[3] # 0 /\ p[1] \in i..Len(invoices) /\ p[2] \in j..Len(funds)
  /\ \A p, q \in A : p[1] = q[1] /\ p[2] = q[2] => p = q
  /\ due = 0 => \A p \in A : p[1] # i
  /\ left = 0 => \A p \in A : p[2] # j
  /\ \A k \in i..Len(invoices) : Given(A, 1, k) <= Lacks(invoices, i, due, k)
  /\ \A k \in j..Len(funds) : Given(A, 2, k) <= Lacks(funds, j, left, k)
  /\ Cents(A) = Least(Rest(invoices, i, due), Rest(funds, j, left))

(* What is open from an item on is a natural number, and what the item     *)
(* itself lacks can be taken off.                                          *)
LEMMA RestType ==
  ASSUME NEW items \in Seq(Nat), NEW i \in Nat \ {0}, NEW due \in Nat
  PROVE  /\ Rest(items, i, due) \in Nat
         /\ \A a \in 0..due : i <= Len(items) => Rest(items, i, due) = a + Rest(items, i, due - a)
         /\ i <= Len(items) => Rest(items, i, 0) = Rest(items, i + 1, At(items, i + 1))
<1> DEFINE n == Len(items)
<1>1. n \in Nat /\ i + 1 \in Nat /\ DOMAIN items = 1..n /\ i + 1..n \in SUBSET (DOMAIN items)
  OBVIOUS
<1>2. Total(items, i + 1..n) \in Nat
  BY <1>1, TotalType
<1>3. i <= n => Total(items, i + 1..n) = Rest(items, i + 1, At(items, i + 1))
  <2> SUFFICES ASSUME i <= n PROVE Total(items, i + 1..n) = Rest(items, i + 1, At(items, i + 1))
    OBVIOUS
  <2>1. CASE i = n
    <3>1. i + 1..n = {} /\ i + 1 > n
      BY <2>1
    <3>2. Total(items, i + 1..n) = 0
      BY <3>1, SumOfNothing DEF Total
    <3> QED BY <3>1, <3>2 DEF Rest
  <2>2. CASE i < n
    <3>1. i + 1 \in 1..n /\ n \in i + 1..n /\ ~(i + 1 > n)
      BY <1>1, <2>2
    <3>2. Total(items, i + 1..n) = items[i + 1] + Total(items, (i + 1) + 1..n)
      BY <3>1, WindowTotal
    <3>3. At(items, i + 1) = items[i + 1]
      BY <1>1, <3>1 DEF At
    <3> QED BY <3>1, <3>2, <3>3 DEF Rest
  <2>3. i = n \/ i < n
    <3>1. n \in Nat
      BY <1>1
    <3> HIDE DEF n
    <3> QED BY <3>1
  <2> QED BY <2>1, <2>2, <2>3
<1>4. i <= n => ~(i > n)
  BY <1>1
<1> DEFINE others == Total(items, i + 1..n)
<1>5. Rest(items, i, due) \in Nat
  BY <1>2 DEF Rest
<1>6. ASSUME NEW a \in 0..due, i <= n
      PROVE  Rest(items, i, due) = a + Rest(items, i, due - a)
  <2>1. Rest(items, i, due) = due + others /\ Rest(items, i, due - a) = (due - a) + others
    BY <1>4, <1>6 DEF Rest
  <2> HIDE DEF others
  <2> QED BY <1>2, <2>1 DEF others
<1>7. i <= n => Rest(items, i, 0) = Rest(items, i + 1, At(items, i + 1))
  <2>1. i <= n => Rest(items, i, 0) = 0 + others
    BY <1>4 DEF Rest
  <2> QED BY <1>2, <1>3, <2>1
<1> QED BY <1>5, <1>6, <1>7

(* Where nothing is left on one side, nothing is given.                    *)
LEMMA NothingSpreads ==
  ASSUME NEW invoices \in Seq(Nat), NEW funds \in Seq(Nat),
         NEW i \in Nat \ {0}, NEW j \in Nat \ {0}, NEW due \in Nat, NEW left \in Nat,
         i > Len(invoices) \/ j > Len(funds)
  PROVE  Spreads({}, invoices, funds, i, j, due, left)
<1>1. Rest(invoices, i, due) \in Nat /\ Rest(funds, j, left) \in Nat
  BY RestType
<1>2. Rest(invoices, i, due) = 0 \/ Rest(funds, j, left) = 0
  BY DEF Rest
<1>3. Cents({}) = Least(Rest(invoices, i, due), Rest(funds, j, left))
  BY <1>1, <1>2, CentsOfNothing DEF Least
<1>4. \A k \in i..Len(invoices) : 0 <= Lacks(invoices, i, due, k)
  BY DEF Lacks
<1>5. \A k \in j..Len(funds) : 0 <= Lacks(funds, j, left, k)
  BY DEF Lacks
<1>6. \A k : Given({}, 1, k) = 0 /\ Given({}, 2, k) = 0
  BY CentsOfNothing DEF Given
<1> QED BY <1>3, <1>4, <1>5, <1>6, FS_EmptySet DEF Spreads

(* An invoice that lacks nothing is passed over.                           *)
LEMMA NextInvoiceSpreads ==
  ASSUME NEW invoices \in Seq(Nat), NEW funds \in Seq(Nat),
         NEW i \in Nat \ {0}, NEW j \in Nat \ {0}, NEW left \in Nat,
         i <= Len(invoices), NEW A,
         Spreads(A, invoices, funds, i + 1, j, At(invoices, i + 1), left)
  PROVE  Spreads(A, invoices, funds, i, j, 0, left)
<1>1. Rest(invoices, i, 0) = Rest(invoices, i + 1, At(invoices, i + 1))
  BY RestType
<1>2. /\ A \in SUBSET Entries /\ IsFiniteSet(A)
      /\ \A p \in A : p[3] # 0 /\ p[1] \in i + 1..Len(invoices) /\ p[2] \in j..Len(funds)
      /\ \A p, q \in A : p[1] = q[1] /\ p[2] = q[2] => p = q
  BY DEF Spreads
<1>3. i + 1..Len(invoices) \subseteq i..Len(invoices) /\ i \notin i + 1..Len(invoices)
      /\ \A k \in i..Len(invoices) : k = i \/ k \in i + 1..Len(invoices)
  OBVIOUS
<1>4. \A k \in i + 1..Len(invoices) : Lacks(invoices, i + 1, At(invoices, i + 1), k) = invoices[k]
  <2> TAKE k \in i + 1..Len(invoices)
  <2>1. k \in 1..Len(invoices)
    OBVIOUS
  <2> QED BY <2>1 DEF Lacks, At
<1>5. \A k \in i..Len(invoices) : Given(A, 1, k) <= Lacks(invoices, i, 0, k)
  <2> TAKE k \in i..Len(invoices)
  <2>1. CASE k = i
    <3>1. {p \in A : p[1] = k} = {}
      BY <1>2, <1>3, <2>1
    <3>2. Given(A, 1, k) = 0
      BY <3>1, CentsOfNothing DEF Given
    <3> QED BY <2>1, <3>2 DEF Lacks
  <2>2. CASE k # i
    <3>1. k \in i + 1..Len(invoices)
      BY <1>3, <2>2
    <3>2. Given(A, 1, k) <= Lacks(invoices, i + 1, At(invoices, i + 1), k)
      BY <3>1 DEF Spreads
    <3> QED BY <1>4, <2>2, <3>1, <3>2 DEF Lacks
  <2> QED BY <2>1, <2>2
<1>6. /\ left = 0 => \A p \in A : p[2] # j
      /\ \A k \in j..Len(funds) : Given(A, 2, k) <= Lacks(funds, j, left, k)
      /\ Cents(A) = Least(Rest(invoices, i, 0), Rest(funds, j, left))
  BY <1>1 DEF Spreads
<1>7. \A p \in A : p[1] # i /\ p[1] \in i..Len(invoices)
  BY <1>2, <1>3
<1> QED BY <1>2, <1>5, <1>6, <1>7 DEF Spreads

(* So is a fund that has nothing left.                                     *)
LEMMA NextFundSpreads ==
  ASSUME NEW invoices \in Seq(Nat), NEW funds \in Seq(Nat),
         NEW i \in Nat \ {0}, NEW j \in Nat \ {0}, NEW due \in Nat,
         j <= Len(funds), NEW A,
         Spreads(A, invoices, funds, i, j + 1, due, At(funds, j + 1))
  PROVE  Spreads(A, invoices, funds, i, j, due, 0)
<1>1. Rest(funds, j, 0) = Rest(funds, j + 1, At(funds, j + 1))
  BY RestType
<1>2. /\ A \in SUBSET Entries /\ IsFiniteSet(A)
      /\ \A p \in A : p[3] # 0 /\ p[1] \in i..Len(invoices) /\ p[2] \in j + 1..Len(funds)
      /\ \A p, q \in A : p[1] = q[1] /\ p[2] = q[2] => p = q
  BY DEF Spreads
<1>3. j + 1..Len(funds) \subseteq j..Len(funds) /\ j \notin j + 1..Len(funds)
      /\ \A k \in j..Len(funds) : k = j \/ k \in j + 1..Len(funds)
  OBVIOUS
<1>4. \A k \in j + 1..Len(funds) : Lacks(funds, j + 1, At(funds, j + 1), k) = funds[k]
  <2> TAKE k \in j + 1..Len(funds)
  <2>1. k \in 1..Len(funds)
    OBVIOUS
  <2> QED BY <2>1 DEF Lacks, At
<1>5. \A k \in j..Len(funds) : Given(A, 2, k) <= Lacks(funds, j, 0, k)
  <2> TAKE k \in j..Len(funds)
  <2>1. CASE k = j
    <3>1. {p \in A : p[2] = k} = {}
      BY <1>2, <1>3, <2>1
    <3>2. Given(A, 2, k) = 0
      BY <3>1, CentsOfNothing DEF Given
    <3> QED BY <2>1, <3>2 DEF Lacks
  <2>2. CASE k # j
    <3>1. k \in j + 1..Len(funds)
      BY <1>3, <2>2
    <3>2. Given(A, 2, k) <= Lacks(funds, j + 1, At(funds, j + 1), k)
      BY <3>1 DEF Spreads
    <3> QED BY <1>4, <2>2, <3>1, <3>2 DEF Lacks
  <2> QED BY <2>1, <2>2
<1>6. /\ due = 0 => \A p \in A : p[1] # i
      /\ \A k \in i..Len(invoices) : Given(A, 1, k) <= Lacks(invoices, i, due, k)
      /\ Cents(A) = Least(Rest(invoices, i, due), Rest(funds, j, 0))
  BY <1>1 DEF Spreads
<1>7. \A p \in A : p[2] # j /\ p[2] \in j..Len(funds)
  BY <1>2, <1>3
<1> QED BY <1>2, <1>5, <1>6, <1>7 DEF Spreads

(* What one more entry adds for the item it names.                         *)
LEMMA OneMoreGiven ==
  ASSUME NEW B \in SUBSET Entries, IsFiniteSet(B), NEW p \in Entries, p \notin B, NEW side, NEW k
  PROVE  /\ Given({p} \cup B, side, k) = Given(B, side, k) + IF p[side] = k THEN p[3] ELSE 0
         /\ Given(B, side, k) \in Nat
<1> DEFINE S == {q \in B : q[side] = k}
           T == {q \in {p} \cup B : q[side] = k}
<1>1. S \in SUBSET Entries /\ IsFiniteSet(S) /\ p \notin S /\ Cents(S) \in Nat
  BY CentsType
<1>2. p[3] \in Nat
  BY DEF Entries
<1>3. CASE p[side] = k
  <2>1. T = {p} \cup S
    BY <1>3
  <2> HIDE DEF S, T
  <2>2. Cents({p} \cup S) = p[3] + Cents(S)
    BY <1>1, OneMoreEntry
  <2>3. Cents(T) = Cents(S) + p[3]
    BY <1>1, <1>2, <2>1, <2>2
  <2> QED BY <1>1, <1>3, <2>3 DEF S, T, Given
<1>4. CASE p[side] # k
  <2>1. T = S
    BY <1>4
  <2> HIDE DEF S, T
  <2>2. Cents(T) = Cents(S) + 0
    BY <1>1, <2>1
  <2> QED BY <1>1, <1>4, <2>2 DEF S, T, Given
<1> QED BY <1>3, <1>4

(* An invoice takes from a fund as much as it lacks and the fund has.      *)
LEMMA MoreSpreads ==
  ASSUME NEW invoices \in Seq(Nat), NEW funds \in Seq(Nat),
         NEW i \in Nat \ {0}, NEW j \in Nat \ {0}, NEW due \in Nat \ {0}, NEW left \in Nat \ {0},
         i <= Len(invoices), j <= Len(funds), NEW B, NEW a, a = Least(due, left),
         Spreads(B, invoices, funds, i, j, due - a, left - a)
  PROVE  Spreads({<<i, j, a>>} \cup B, invoices, funds, i, j, due, left)
<1> DEFINE p == <<i, j, a>>
           A == {p} \cup B
           I == Len(invoices)
           J == Len(funds)
<1>1. /\ a \in Nat \ {0} /\ due - a \in Nat /\ left - a \in Nat
      /\ due - a = 0 \/ left - a = 0
      /\ a \in 0..due /\ a \in 0..left
  BY DEF Least
<1>2. /\ B \in SUBSET Entries /\ IsFiniteSet(B)
      /\ \A q \in B : q[3] # 0 /\ q[1] \in i..I /\ q[2] \in j..J
      /\ \A q, r \in B : q[1] = r[1] /\ q[2] = r[2] => q = r
      /\ due - a = 0 => \A q \in B : q[1] # i
      /\ left - a = 0 => \A q \in B : q[2] # j
      /\ \A k \in i..I : Given(B, 1, k) <= Lacks(invoices, i, due - a, k)
      /\ \A k \in j..J : Given(B, 2, k) <= Lacks(funds, j, left - a, k)
      /\ Cents(B) = Least(Rest(invoices, i, due - a), Rest(funds, j, left - a))
  BY DEF Spreads
<1>3. p \in Entries /\ p[1] = i /\ p[2] = j /\ p[3] = a
  BY <1>1 DEF Entries
<1>4. p \notin B
  <2> HIDE DEF p
  <2> QED BY <1>1, <1>2, <1>3
<1>5. i \in i..I /\ j \in j..J
  OBVIOUS
<1> HIDE DEF p, I, J
<1>6. A \in SUBSET Entries /\ IsFiniteSet(A) /\ Cents(A) = a + Cents(B) /\ Cents(B) \in Nat
  BY <1>2, <1>3, <1>4, OneMoreEntry
<1>7. \A q \in A : q[3] # 0 /\ q[1] \in i..I /\ q[2] \in j..J
  BY <1>1, <1>2, <1>3, <1>5
<1>8. \A k : /\ Given(A, 1, k) = Given(B, 1, k) + IF i = k THEN a ELSE 0
             /\ Given(A, 2, k) = Given(B, 2, k) + IF j = k THEN a ELSE 0
             /\ Given(B, 1, k) \in Nat /\ Given(B, 2, k) \in Nat
  <2> TAKE k
  <2> HIDE DEF A
  <2>1. A = {p} \cup B
    BY DEF A
  <2>2. Given({p} \cup B, 1, k) = Given(B, 1, k) + (IF p[1] = k THEN p[3] ELSE 0) /\ Given(B, 1, k) \in Nat
    BY <1>2, <1>3, <1>4, OneMoreGiven
  <2>3. Given({p} \cup B, 2, k) = Given(B, 2, k) + (IF p[2] = k THEN p[3] ELSE 0) /\ Given(B, 2, k) \in Nat
    BY <1>2, <1>3, <1>4, OneMoreGiven
  <2> QED BY <1>3, <2>1, <2>2, <2>3
<1>8a. \A q, r \in A : q[1] = r[1] /\ q[2] = r[2] => q = r
  <2>1. \A q \in B : ~(q[1] = i /\ q[2] = j)
    BY <1>1, <1>2
  <2> QED BY <1>2, <1>3, <2>1
<1> HIDE DEF A
<1>9. \A k \in i..I : Given(A, 1, k) <= Lacks(invoices, i, due, k)
  <2> TAKE k \in i..I
  <2> DEFINE c == Given(A, 1, k)
             d == Given(B, 1, k)
  <2>1. c = d + (IF i = k THEN a ELSE 0) /\ d \in Nat /\ d <= Lacks(invoices, i, due - a, k)
    BY <1>2, <1>8
  <2> HIDE DEF c, d
  <2>2. CASE k = i
    <3>1. c = d + a /\ d <= due - a
      BY <2>1, <2>2 DEF Lacks
    <3>2. c <= due
      <4>1. c = d + a /\ d <= due - a /\ d \in Nat /\ a \in Nat /\ due \in Nat
        BY <1>1, <2>1, <3>1
      <4> QED BY <4>1
    <3> QED BY <2>2, <3>2 DEF Lacks, c
  <2>3. CASE k # i
    <3>1. c = d + 0 /\ d <= invoices[k]
      BY <2>1, <2>3 DEF Lacks
    <3>2. c <= invoices[k]
      BY <2>1, <3>1
    <3> QED BY <2>3, <3>2 DEF Lacks, c
  <2> QED BY <2>2, <2>3
<1>10. \A k \in j..J : Given(A, 2, k) <= Lacks(funds, j, left, k)
  <2> TAKE k \in j..J
  <2> DEFINE c == Given(A, 2, k)
             d == Given(B, 2, k)
  <2>1. c = d + (IF j = k THEN a ELSE 0) /\ d \in Nat /\ d <= Lacks(funds, j, left - a, k)
    BY <1>2, <1>8
  <2> HIDE DEF c, d
  <2>2. CASE k = j
    <3>1. c = d + a /\ d <= left - a
      BY <2>1, <2>2 DEF Lacks
    <3>2. c <= left
      <4>1. c = d + a /\ d <= left - a /\ d \in Nat /\ a \in Nat /\ left \in Nat
        BY <1>1, <2>1, <3>1
      <4> QED BY <4>1
    <3> QED BY <2>2, <3>2 DEF Lacks, c
  <2>3. CASE k # j
    <3>1. c = d + 0 /\ d <= funds[k]
      BY <2>1, <2>3 DEF Lacks
    <3>2. c <= funds[k]
      BY <2>1, <3>1
    <3> QED BY <2>3, <3>2 DEF Lacks, c
  <2> QED BY <2>2, <2>3
<1>11. Cents(A) = Least(Rest(invoices, i, due), Rest(funds, j, left))
  <2> DEFINE r == Rest(invoices, i, due - a)
             s == Rest(funds, j, left - a)
  <2>1. Rest(invoices, i, due) = a + r /\ r \in Nat
    BY <1>1, RestType
  <2>2. Rest(funds, j, left) = a + s /\ s \in Nat
    BY <1>1, RestType
  <2>3. Cents(A) = a + Cents(B) /\ Cents(B) = Least(r, s)
    BY <1>2, <1>6
  <2> HIDE DEF r, s
  <2>4. a + Least(r, s) = Least(a + r, a + s)
    BY <1>1, <2>1, <2>2 DEF Least
  <2> QED BY <2>1, <2>2, <2>3, <2>4
<1> QED BY <1>6, <1>7, <1>8a, <1>9, <1>10, <1>11 DEF Spreads, A, p, I, J

(* What the code does at some invoice and some fund.                       *)
Onward(plan, invoices, funds, x, y, d, l) ==
  IF x > Len(invoices) \/ y > Len(funds) THEN {}
  ELSE IF d = 0 THEN plan[<<x + 1, y, At(invoices, x + 1), l>>]
  ELSE IF l = 0 THEN plan[<<x, y + 1, d, At(funds, y + 1)>>]
  ELSE {<<x, y, Least(d, l)>>} \cup plan[<<x, y, d - Least(d, l), l - Least(d, l)>>]

(* The plan goes on like that.                                             *)
LEMMA PlanStep ==
  ASSUME NEW invoices, NEW funds, NEW plan, IsPlan(plan, invoices, funds),
         NEW x \in Nat, NEW y \in Nat, NEW d \in Nat, NEW l \in Nat
  PROVE  plan[<<x, y, d, l>>] = Onward(plan, invoices, funds, x, y, d, l)
<1>1. <<x, y, d, l>> \in Nat \X Nat \X Nat \X Nat
  OBVIOUS
<1> QED BY <1>1 DEF IsPlan, Onward

(* From every invoice and fund on, the plan spreads what they have.        *)
LEMMA PlanSpreads ==
  ASSUME NEW invoices \in Seq(Nat), NEW funds \in Seq(Nat), NEW plan, IsPlan(plan, invoices, funds),
         NEW i \in Nat \ {0}, NEW j \in Nat \ {0}, NEW due \in Nat, NEW left \in Nat
  PROVE  Spreads(plan[<<i, j, due, left>>], invoices, funds, i, j, due, left)
<1> DEFINE I == Len(invoices)
           J == Len(funds)
           D == (Nat \ {0}) \X (Nat \ {0}) \X Nat \X Nat
           both(w) == w[3] # 0 /\ w[4] # 0
           m == [w \in D |-> 2 * (Gap(I, w[1]) + Gap(J, w[2])) + (IF both(w) THEN 1 ELSE 0)]
           good(w) == Spreads(plan[w], invoices, funds, w[1], w[2], w[3], w[4])
           G == {w \in D : good(w)}
<1>0. I \in Nat /\ J \in Nat
  OBVIOUS
<1>1. m \in [D -> Nat]
  <2>1. \A w \in D : 2 * (Gap(I, w[1]) + Gap(J, w[2])) + (IF both(w) THEN 1 ELSE 0) \in Nat
    <3> TAKE w \in D
    <3>1. Gap(I, w[1]) \in Nat /\ Gap(J, w[2]) \in Nat
      <4>1. w[1] \in Nat /\ w[2] \in Nat
        OBVIOUS
      <4> HIDE DEF I, J, D
      <4> QED BY <1>0, <4>1 DEF Gap
    <3> HIDE DEF both
    <3> QED BY <3>1
  <2> QED BY <2>1
<1>2. \A x, y \in Nat \ {0}, d, l \in Nat :
        /\ <<x, y, d, l>> \in D
        /\ m[<<x, y, d, l>>] = 2 * (Gap(I, x) + Gap(J, y)) + (IF d # 0 /\ l # 0 THEN 1 ELSE 0)
  <2> HIDE DEF I, J
  <2> QED OBVIOUS
<1>2a. \A x, y \in Nat \ {0}, d, l \in Nat :
        <<x, y, d, l>> \in G => Spreads(plan[<<x, y, d, l>>], invoices, funds, x, y, d, l)
  OBVIOUS
<1>3. ASSUME NEW x \in Nat \ {0}, NEW y \in Nat \ {0}, NEW d \in Nat, NEW l \in Nat,
             \A v \in D : m[v] < m[<<x, y, d, l>>] => v \in G
      PROVE  Spreads(plan[<<x, y, d, l>>], invoices, funds, x, y, d, l)
  <2> DEFINE w == <<x, y, d, l>>
  <2>1. m[w] = 2 * (Gap(I, x) + Gap(J, y)) + (IF d # 0 /\ l # 0 THEN 1 ELSE 0)
    BY <1>2
  <2>2. Gap(I, x) \in Nat /\ Gap(J, y) \in Nat
    <3> HIDE DEF I, J
    <3> QED BY <1>0 DEF Gap
  <2>2a. x + 1 \in Nat \ {0} /\ y + 1 \in Nat \ {0} /\ x + 1 \in Nat /\ y + 1 \in Nat
    <3>1. \A n \in Nat \ {0} : n + 1 \in Nat /\ n + 1 # 0
      OBVIOUS
    <3> HIDE DEF m, G, D, good
    <3> QED BY <3>1
  <2>2b. plan[w] = Onward(plan, invoices, funds, x, y, d, l)
    <3>1. x \in Nat /\ y \in Nat
      OBVIOUS
    <3>2. IsPlan(plan, invoices, funds)
      OBVIOUS
    <3> HIDE DEF I, J, D, m, G, good
    <3>3. plan[<<x, y, d, l>>] = Onward(plan, invoices, funds, x, y, d, l)
      BY <3>1, <3>2, PlanStep
    <3> QED BY <3>3
  <2>3. (~(x > I) => Gap(I, x + 1) = Gap(I, x) - 1) /\ (~(y > J) => Gap(J, y + 1) = Gap(J, y) - 1)
    <3> HIDE DEF I, J
    <3> QED BY <1>0 DEF Gap
  <2> HIDE DEF m, G, D, good
  <2>4. CASE x > I \/ y > J
    <3>1. plan[w] = {}
      BY <2>4, <2>2b, Zenon DEF Onward
    <3>2. Spreads({}, invoices, funds, x, y, d, l)
      BY <2>4, NothingSpreads
    <3> QED BY <3>1, <3>2
  <2>5. CASE ~(x > I \/ y > J) /\ d = 0
    <3> DEFINE b == At(invoices, x + 1)
               v == <<x + 1, y, b, l>>
    <3>1. b \in Nat /\ x <= I
      <4>1. b \in Nat
        BY <2>2a, AtType
      <4> HIDE DEF b, I, J
      <4> QED BY <1>0, <2>5, <4>1
    <3> HIDE DEF b, I, J
    <3>2. v \in D /\ m[v] = 2 * (Gap(I, x + 1) + Gap(J, y)) + (IF b # 0 /\ l # 0 THEN 1 ELSE 0)
      BY <1>2, <2>2a, <3>1
    <3>3. m[v] < m[w]
      <4> HIDE DEF v, w
      <4> QED BY <2>1, <2>2, <2>3, <2>5, <3>2
    <3>4. v \in G
      <4> HIDE DEF v
      <4> QED BY <1>3, <3>2, <3>3
    <3>5. Spreads(plan[v], invoices, funds, x + 1, y, b, l)
      BY <1>2a, <2>2a, <3>1, <3>4
    <3>6. plan[w] = plan[v]
      BY <2>5, <2>2b, Zenon DEF b, Onward, I, J
    <3>7. Spreads(plan[v], invoices, funds, x, y, 0, l)
      <4> HIDE DEF v
      <4> QED BY <3>1, <3>5, NextInvoiceSpreads DEF b, I
    <3> QED BY <2>5, <3>6, <3>7
  <2>6. CASE ~(x > I \/ y > J) /\ d # 0 /\ l = 0
    <3> DEFINE b == At(funds, y + 1)
               v == <<x, y + 1, d, b>>
    <3>1. b \in Nat /\ y <= J
      <4>1. b \in Nat
        BY <2>2a, AtType
      <4> HIDE DEF b, I, J
      <4> QED BY <1>0, <2>6, <4>1
    <3> HIDE DEF b, I, J
    <3>2. v \in D /\ m[v] = 2 * (Gap(I, x) + Gap(J, y + 1)) + (IF d # 0 /\ b # 0 THEN 1 ELSE 0)
      BY <1>2, <2>2a, <3>1
    <3>3. m[v] < m[w]
      <4> HIDE DEF v, w
      <4> QED BY <2>1, <2>2, <2>3, <2>6, <3>2
    <3>4. v \in G
      <4> HIDE DEF v
      <4> QED BY <1>3, <3>2, <3>3
    <3>5. Spreads(plan[v], invoices, funds, x, y + 1, d, b)
      BY <1>2a, <2>2a, <3>1, <3>4
    <3>6. plan[w] = plan[v]
      BY <2>6, <2>2b, Zenon DEF b, Onward, I, J
    <3>7. Spreads(plan[v], invoices, funds, x, y, d, 0)
      <4> HIDE DEF v
      <4> QED BY <3>1, <3>5, NextFundSpreads DEF b, J
    <3> QED BY <2>6, <3>6, <3>7
  <2>7. CASE ~(x > I \/ y > J) /\ d # 0 /\ l # 0
    <3> DEFINE a == Least(d, l)
               v == <<x, y, d - a, l - a>>
    <3>1. a \in Nat /\ d - a \in Nat /\ l - a \in Nat /\ (d - a = 0 \/ l - a = 0)
      BY <2>7 DEF Least
    <3>2. x <= I /\ y <= J
      <4> HIDE DEF I, J
      <4> QED BY <1>0, <2>7
    <3>3. a = Least(d, l)
      OBVIOUS
    <3> HIDE DEF a, I, J
    <3>4. v \in D /\ m[v] = 2 * (Gap(I, x) + Gap(J, y)) + (IF d - a # 0 /\ l - a # 0 THEN 1 ELSE 0)
      BY <1>2, <3>1
    <3>5. m[v] < m[w]
      <4> HIDE DEF v, w
      <4> QED BY <2>1, <2>2, <2>7, <3>1, <3>4
    <3>6. v \in G
      <4> HIDE DEF v
      <4> QED BY <1>3, <3>4, <3>5
    <3>7. Spreads(plan[v], invoices, funds, x, y, d - a, l - a)
      BY <1>2a, <3>1, <3>6
    <3>8. plan[w] = {<<x, y, a>>} \cup plan[v]
      BY <2>7, <2>2b, <3>3, Zenon DEF Onward, I, J
    <3>9. Spreads({<<x, y, a>>} \cup plan[v], invoices, funds, x, y, d, l)
      <4> HIDE DEF v
      <4>1. d \in Nat \ {0} /\ l \in Nat \ {0}
        BY <2>7
      <4> QED BY <3>2, <3>3, <3>7, <4>1, MoreSpreads DEF I, J
    <3> QED BY <3>8, <3>9
  <2> QED BY <2>4, <2>5, <2>6, <2>7
<1>4. \A w \in D : (\A v \in D : m[v] < m[w] => v \in G) => w \in G
  <2> SUFFICES ASSUME NEW w \in D, \A v \in D : m[v] < m[w] => v \in G PROVE good(w)
    <3> HIDE DEF m, D, good
    <3> QED OBVIOUS
  <2> DEFINE x == w[1]
             y == w[2]
             d == w[3]
             l == w[4]
  <2>1. w = <<x, y, d, l>> /\ x \in Nat \ {0} /\ y \in Nat \ {0} /\ d \in Nat /\ l \in Nat
    OBVIOUS
  <2> HIDE DEF x, y, d, l, m, G, D
  <2>2. Spreads(plan[<<x, y, d, l>>], invoices, funds, x, y, d, l)
    BY <1>3, <2>1
  <2> QED BY <2>1, <2>2 DEF x, y, d, l
<1>5. D \subseteq G
  <2> HIDE DEF m, D, G
  <2> QED BY <1>1, <1>4, BySize
<1> HIDE DEF D, m, G
<1>6. <<i, j, due, left>> \in D
  BY <1>2
<1> QED BY <1>2a, <1>5, <1>6

(* What a whole plan gives: every entry something, no item more than it    *)
(* has open, and in all what the poorer side has.                          *)
LEMMA WholePlan ==
  ASSUME NEW invoices \in Seq(Nat), NEW funds \in Seq(Nat)
  PROVE  LET plan == AllocationPlan(invoices, funds)
         IN /\ plan \in SUBSET Entries /\ IsFiniteSet(plan)
            /\ \A p \in plan : p[3] # 0 /\ p[1] \in DOMAIN invoices /\ p[2] \in DOMAIN funds
            /\ \A p, q \in plan : p[1] = q[1] /\ p[2] = q[2] => p = q
            /\ \A k \in DOMAIN invoices : Given(plan, 1, k) <= invoices[k]
            /\ \A k \in DOMAIN funds : Given(plan, 2, k) <= funds[k]
            /\ Cents(plan) = Least(Total(invoices, DOMAIN invoices), Total(funds, DOMAIN funds))
<1> DEFINE plan == CHOOSE plan : IsPlan(plan, invoices, funds)
           A == plan[<<1, 1, At(invoices, 1), At(funds, 1)>>]
<1>1. IsPlan(plan, invoices, funds)
  BY PlanExists
<1>2. AllocationPlan(invoices, funds) = A
  BY DEF AllocationPlan, IsPlan
<1>3. At(invoices, 1) \in Nat /\ At(funds, 1) \in Nat
  BY AtType
<1> HIDE DEF plan
<1>4. Spreads(A, invoices, funds, 1, 1, At(invoices, 1), At(funds, 1))
  BY <1>1, <1>3, PlanSpreads
<1>5. ASSUME NEW items \in Seq(Nat)
      PROVE  /\ DOMAIN items = 1..Len(items)
             /\ \A k \in DOMAIN items : Lacks(items, 1, At(items, 1), k) = items[k]
             /\ Rest(items, 1, At(items, 1)) = Total(items, DOMAIN items)
  <2> DEFINE n == Len(items)
  <2>1. n \in Nat /\ DOMAIN items = 1..n
    OBVIOUS
  <2>2. \A k \in DOMAIN items : Lacks(items, 1, At(items, 1), k) = items[k]
    BY DEF Lacks, At
  <2>3. CASE n = 0
    <3>1. DOMAIN items = {} /\ 1 > n
      BY <2>1, <2>3
    <3>2. Total(items, DOMAIN items) = 0
      BY <3>1, SumOfNothing DEF Total
    <3>3. Rest(items, 1, At(items, 1)) = 0
      BY <3>1 DEF Rest
    <3> QED BY <2>1, <2>2, <3>2, <3>3
  <2>4. CASE n # 0
    <3>1. 1 \in 1..n /\ n \in 1..n /\ ~(1 > n) /\ 1 \in DOMAIN items
      BY <2>1, <2>4
    <3>2. Total(items, 1..n) = items[1] + Total(items, 1 + 1..n)
      BY <3>1, WindowTotal
    <3>3. Rest(items, 1, At(items, 1)) = items[1] + Total(items, 1 + 1..n)
      BY <3>1 DEF Rest, At
    <3>4. Total(items, 1..n) = Total(items, DOMAIN items)
      BY <2>1, Zenon
    <3> QED BY <2>1, <2>2, <3>2, <3>3, <3>4
  <2> QED BY <2>3, <2>4
<1> DEFINE allI == Total(invoices, DOMAIN invoices)
           allF == Total(funds, DOMAIN funds)
<1>6. /\ A \in SUBSET Entries /\ IsFiniteSet(A)
      /\ \A p \in A : p[3] # 0 /\ p[1] \in 1..Len(invoices) /\ p[2] \in 1..Len(funds)
      /\ \A p, q \in A : p[1] = q[1] /\ p[2] = q[2] => p = q
      /\ \A k \in 1..Len(invoices) : Given(A, 1, k) <= Lacks(invoices, 1, At(invoices, 1), k)
      /\ \A k \in 1..Len(funds) : Given(A, 2, k) <= Lacks(funds, 1, At(funds, 1), k)
      /\ Cents(A) = Least(Rest(invoices, 1, At(invoices, 1)), Rest(funds, 1, At(funds, 1)))
  BY <1>4 DEF Spreads
<1> HIDE DEF A
<1>7. /\ DOMAIN invoices = 1..Len(invoices) /\ DOMAIN funds = 1..Len(funds)
      /\ \A k \in DOMAIN invoices : Lacks(invoices, 1, At(invoices, 1), k) = invoices[k]
      /\ \A k \in DOMAIN funds : Lacks(funds, 1, At(funds, 1), k) = funds[k]
      /\ Rest(invoices, 1, At(invoices, 1)) = allI /\ Rest(funds, 1, At(funds, 1)) = allF
  BY <1>5
<1>8. \A k \in DOMAIN invoices : Given(A, 1, k) <= invoices[k]
  BY <1>6, <1>7
<1>9. \A k \in DOMAIN funds : Given(A, 2, k) <= funds[k]
  BY <1>6, <1>7
<1>10. Cents(A) = Least(allI, allF)
  BY <1>6, <1>7
<1> QED BY <1>2, <1>6, <1>7, <1>8, <1>9, <1>10

(* What a plan gives is what it gives the items of one side together.      *)
LEMMA GivenInAll ==
  ASSUME NEW A \in SUBSET Entries, IsFiniteSet(A), NEW K, IsFiniteSet(K), NEW side,
         \A p \in A : p[side] \in K, NEW h, DOMAIN h = K, \A k \in K : h[k] = Given(A, side, k)
  PROVE  SumFunction(h) = Cents(A)
<1> DEFINE f == [p \in Entries |-> p[3]]
           part == [k \in K |-> {p \in A : p[side] = k}]
<1>1. \A p \in Entries : f[p] \in Nat
  BY DEF Entries
<1>2. \A k \in K : part[k] \subseteq A /\ IsFiniteSet(part[k])
  BY FS_Subset
<1>3. \A j, k \in K : j # k => part[j] \cap part[k] = {}
  OBVIOUS
<1>4. \A k \in K : \A p \in part[k] : f[p] \in Nat
  BY <1>1, <1>2
<1>5. \A k \in K : h[k] = SumFunctionOnSet(f, part[k])
  BY DEF Given, Cents
<1>6. \A p \in A : \E k \in K : p \in part[k]
  OBVIOUS
<1> HIDE DEF f, part
<1>7. IsFiniteSet(K) /\ (\A k \in K : part[k] \subseteq A) /\ (\A k \in K : IsFiniteSet(part[k]))
  BY <1>2
<1>8. SumFunctionOnSet(h, K) = SumFunctionOnSet(f, A)
  BY <1>3, <1>4, <1>5, <1>6, <1>7, SumOfParts, SMTT(60)
<1> QED BY <1>8 DEF SumFunction, Cents, f

(* A settlement plan spreads all that both sides have, and never more.     *)
THEOREM PlansAreExact ==
  ASSUME NEW invoices \in Seq(Nat), NEW funds \in Seq(Nat)
  PROVE  PlanIsExact(invoices, funds)
<1> DEFINE plan == AllocationPlan(invoices, funds)
           given(side, k) == SumFunction([p \in {p \in plan : p[side] = k} |-> p[3]])
           sum(side, items) == SumFunction([k \in DOMAIN items |-> given(side, k)])
           most == Least(Total(invoices, DOMAIN invoices), Total(funds, DOMAIN funds))
<1>1. /\ plan \in SUBSET Entries /\ IsFiniteSet(plan)
      /\ \A p \in plan : p[3] # 0 /\ p[1] \in DOMAIN invoices /\ p[2] \in DOMAIN funds
      /\ \A k \in DOMAIN invoices : Given(plan, 1, k) <= invoices[k]
      /\ \A k \in DOMAIN funds : Given(plan, 2, k) <= funds[k]
      /\ Cents(plan) = most
  BY WholePlan
<1> HIDE DEF plan
<1>2. ASSUME NEW side, NEW k PROVE given(side, k) = Given(plan, side, k)
  <2> DEFINE S == {p \in plan : p[side] = k}
             f == [p \in Entries |-> p[3]]
             h == [p \in S |-> p[3]]
  <2>1. S \in SUBSET Entries /\ IsFiniteSet(S)
    BY <1>1, CentsType
  <2>2. \A p \in S : f[p] \in Nat /\ h[p] = f[p]
    BY <1>1 DEF Entries
  <2>3. DOMAIN h = S
    OBVIOUS
  <2> HIDE DEF S, f, h
  <2>4. SumFunction(h) = SumFunctionOnSet(f, S)
    BY <2>1, <2>2, <2>3, SumSpelledOut
  <2> QED BY <2>4 DEF S, f, h, Given, Cents
<1> HIDE DEF given
<1>3. ASSUME NEW side, NEW items, IsFiniteSet(DOMAIN items), \A p \in plan : p[side] \in DOMAIN items
      PROVE  sum(side, items) = most
  <2> DEFINE h == [k \in DOMAIN items |-> given(side, k)]
  <2>1. DOMAIN h = DOMAIN items /\ \A k \in DOMAIN items : h[k] = Given(plan, side, k)
    BY <1>2
  <2> HIDE DEF h
  <2>2. SumFunction(h) = Cents(plan)
    BY <1>1, <1>3, <2>1, GivenInAll
  <2> QED BY <1>1, <2>2 DEF h
<1>4. IsFiniteSet(DOMAIN invoices) /\ IsFiniteSet(DOMAIN funds)
  <2>1. /\ DOMAIN invoices = 1..Len(invoices) /\ DOMAIN funds = 1..Len(funds)
        /\ 1 \in Int /\ Len(invoices) \in Int /\ Len(funds) \in Int
    OBVIOUS
  <2> QED BY <2>1, FS_Interval
<1> HIDE DEF sum, most
<1>5. sum(1, invoices) = most /\ sum(2, funds) = most
  BY <1>1, <1>3, <1>4
<1>6. \A p \in plan : p[3] > 0
  <2> TAKE p \in plan
  <2>1. p[3] \in Nat /\ p[3] # 0
    BY <1>1 DEF Entries
  <2> QED BY <2>1
<1>7. /\ \A k \in DOMAIN invoices : given(1, k) <= invoices[k]
      /\ \A k \in DOMAIN funds : given(2, k) <= funds[k]
  BY <1>1, <1>2
<1> QED BY <1>5, <1>6, <1>7 DEF PlanIsExact, plan, given, sum, most

-----------------------------------------------------------------------------
(* What the pages suggest for the ledger as it is.                         *)

(* Of no record more is open than its amount, or less than nothing.        *)
LEMMA OpenType ==
  ASSUME LedgerInv, NEW x \in Records
  PROVE  Open(x) \in Nat /\ Open(x) <= Face[x] /\ Face[x] \in Nat \ {0}
<1>1. Allocated(x) \in Nat
  BY AllocatedType DEF LedgerInv
<1>2. Allocated(x) <= Face[x]
  BY DEF LedgerInv, NoOverAllocation
<1>3. Face[x] \in Nat \ {0}
  BY FaceAssumption
<1> QED BY <1>1, <1>2, <1>3 DEF Open

(* The records of a list.                                                  *)
LEMMA ListOf ==
  ASSUME NEW S \in SUBSET Records, NEW items, ListsOnce(items, S)
  PROVE  /\ DOMAIN items = 1..Len(items) /\ Len(items) \in Nat
         /\ \A k \in DOMAIN items : items[k] \in S
         /\ \A x \in S : \E k \in DOMAIN items : items[k] = x
         /\ \A j, k \in DOMAIN items : items[j] = items[k] => j = k
<1>1. items \in Seq(S) /\ Range(items) = S /\ IsInjective(items)
  BY DEF ListsOnce
<1>2. DOMAIN items = 1..Len(items) /\ Len(items) \in Nat
  BY <1>1
<1>3. \A k \in DOMAIN items : items[k] \in S
  BY <1>1
<1>4. \A x \in S : \E k \in DOMAIN items : items[k] = x
  BY <1>1 DEF Range
<1>5. \A j, k \in DOMAIN items : items[j] = items[k] => j = k
  BY <1>1 DEF IsInjective
<1> QED BY <1>2, <1>3, <1>4, <1>5

(* The open amounts of a list.                                             *)
LEMMA OpenOfType ==
  ASSUME LedgerInv, NEW S \in SUBSET Records, NEW items, ListsOnce(items, S)
  PROVE  /\ OpenOf(items) \in Seq(Nat) /\ DOMAIN OpenOf(items) = DOMAIN items
         /\ \A k \in DOMAIN items : OpenOf(items)[k] = Open(items[k]) /\ OpenOf(items)[k] \in Nat
<1>1. DOMAIN items = 1..Len(items) /\ Len(items) \in Nat /\ \A k \in DOMAIN items : items[k] \in S
  BY ListOf
<1>2. \A k \in DOMAIN items : Open(items[k]) \in Nat
  BY <1>1, OpenType
<1>3. OpenOf(items) = [k \in DOMAIN items |-> Open(items[k])]
  BY DEF OpenOf
<1>4. OpenOf(items) \in [1..Len(items) -> Nat]
  BY <1>1, <1>2, <1>3
<1>5. OpenOf(items) \in Seq(Nat)
  BY <1>1, <1>4
<1> QED BY <1>2, <1>3, <1>5

(* What is available for a record: each once, and all of it fits.          *)
LEMMA AvailableOnce ==
  ASSUME NEW x \in Records, NEW period
  PROVE  \E S \in SUBSET Records :
           /\ ListsOnce(Available(x, period), S)
           /\ \A y \in S : y \in period /\ \E party \in Parties : {x, y} \subseteq party
           /\ x \in Invoices => S \subseteq Funds
           /\ x \notin Invoices => S \subseteq Invoices \ cancelled
<1> DEFINE side == (IF x \in Invoices THEN Funds ELSE Invoices \ cancelled) \cap period
           S == {y \in side : Open(y) > 0 /\ \E party \in Parties : {x, y} \subseteq party}
<1>1. /\ S \in SUBSET Records
      /\ \A y \in S : y \in period /\ \E party \in Parties : {x, y} \subseteq party
      /\ x \in Invoices => S \subseteq Funds
      /\ x \notin Invoices => S \subseteq Invoices \ cancelled
  BY DEF Records
<1>2. Available(x, period) = Listed(S)
  BY DEF Available
<1> HIDE DEF S
<1>3. ListsOnce(Listed(S), S)
  BY <1>1, ListedOnce
<1> QED BY <1>1, <1>2, <1>3

(* A candidate of an invoice names funds of the period that fit.           *)
LEMMA TransactionCandidatesAlwaysFit ==
  ASSUME LedgerInv, NEW i \in Invoices, NEW period
  PROVE  TransactionCandidatesFit(i, period)
<1> DEFINE items == Available(i, period)
           open == OpenOf(items)
<1>1. PICK S \in SUBSET Records :
        /\ ListsOnce(items, S)
        /\ \A y \in S : y \in period /\ \E party \in Parties : {i, y} \subseteq party
        /\ i \in Invoices => S \subseteq Funds
  BY AvailableOnce DEF Records
<1> HIDE DEF items
<1>2. open \in Seq(Nat) /\ DOMAIN open = DOMAIN items
  BY <1>1, OpenOfType
<1>3. Open(i) \in Int
  BY OpenType DEF Records
<1>4. \A k \in DOMAIN items : items[k] \in S
  BY <1>1, ListOf
<1> HIDE DEF open
<1>5. ASSUME NEW c \in Candidates(open, Open(i)), NEW k \in c.first..c.last
      PROVE  k \in DOMAIN open
  <2> DEFINE exact == ContiguousWindows(open, Open(i))
             whole(w) == [first |-> w[1], last |-> w[2], total |-> Open(i), difference |-> 0]
  <2>1. DOMAIN open = 1..Len(open) /\ Len(open) \in Nat
    BY <1>2
  <2>2. exact = {w \in (DOMAIN open) \X (DOMAIN open) :
                   w[1] <= w[2] /\ Total(open, w[1]..w[2]) = Open(i)}
    BY <1>2, <1>3, WindowsMeetTheTarget DEF WindowsAreExact
  <2>3. (\E w \in exact : c = whole(w)) \/ (c.first = 1 /\ c.last = Len(open))
    BY <1>5 DEF Candidates
  <2>4. CASE c.first = 1 /\ c.last = Len(open)
    BY <1>5, <2>1, <2>4
  <2>5. CASE \E w \in exact : c = whole(w)
    <3>1. PICK w \in exact : c = whole(w)
      BY <2>5
    <3>2. c.first = w[1] /\ c.last = w[2]
      BY <3>1
    <3>3. w[1] \in DOMAIN open /\ w[2] \in DOMAIN open
      <4> HIDE DEF exact
      <4> QED BY <2>2
    <3> QED BY <1>5, <2>1, <3>2, <3>3
  <2> QED BY <2>3, <2>4, <2>5
<1>6. ASSUME NEW k \in DOMAIN items
      PROVE  items[k] \in period /\ Fits({[invoice |-> i, fund |-> items[k]]})
  <2>1. items[k] \in period /\ \E party \in Parties : {i, items[k]} \subseteq party
    BY <1>1, <1>4
  <2> QED BY <2>1 DEF Fits
<1>7. TransactionCandidates(i, period) = Candidates(open, Open(i))
  BY DEF TransactionCandidates, open, items
<1>8. \A c \in TransactionCandidates(i, period) :
        \A k \in c.first..c.last : items[k] \in period /\ Fits({[invoice |-> i, fund |-> items[k]]})
  BY <1>2, <1>5, <1>6, <1>7
<1> QED BY <1>8 DEF TransactionCandidatesFit, items

(* The invoices of a candidate may be reconciled as they are.              *)
LEMMA InvoiceCandidatesAlwaysFit ==
  ASSUME LedgerInv, NEW f \in Funds, NEW period
  PROVE  InvoiceCandidatesFit(f, period)
<1> DEFINE items == Available(f, period)
           open == OpenOf(items)
           entry(k) == [invoice |-> items[k], fund |-> f, amount |-> Open(items[k])]
           plan(w) == {entry(k) : k \in w[1]..w[2]}
<1>0. f \in Records /\ f \notin Invoices
  BY RecordsAreDisjoint DEF Records
<1>1. PICK S \in SUBSET Records :
        /\ ListsOnce(items, S)
        /\ \A y \in S : y \in period /\ \E party \in Parties : {f, y} \subseteq party
        /\ S \subseteq Invoices \ cancelled
  BY <1>0, AvailableOnce
<1> HIDE DEF items
<1>2. /\ open \in Seq(Nat) /\ DOMAIN open = DOMAIN items
      /\ \A k \in DOMAIN items : open[k] = Open(items[k]) /\ open[k] \in Nat
  BY <1>1, OpenOfType
<1>3. Open(f) \in Int
  BY <1>0, OpenType
<1>4. /\ DOMAIN items = 1..Len(items) /\ Len(items) \in Nat
      /\ \A k \in DOMAIN items : items[k] \in S
      /\ \A j, k \in DOMAIN items : items[j] = items[k] => j = k
  BY <1>1, ListOf
<1> HIDE DEF open
<1>5. InvoiceCandidates(f, period) \subseteq ContiguousWindows(open, Open(f))
  BY DEF InvoiceCandidates, open, items
<1>6. ContiguousWindows(open, Open(f)) =
        {w \in (DOMAIN open) \X (DOMAIN open) : w[1] <= w[2] /\ Total(open, w[1]..w[2]) = Open(f)}
  BY <1>2, <1>3, WindowsMeetTheTarget DEF WindowsAreExact
<1>7. ASSUME NEW w \in InvoiceCandidates(f, period)
      PROVE  Fits(plan(w)) /\ InvoicesOf(plan(w)) \cap cancelled = {} /\ Requested(plan(w), f) = Open(f)
  <2> DEFINE K == w[1]..w[2]
             A == plan(w)
             name == [k \in K |-> entry(k)]
             h == [a \in A |-> a.amount]
  <2>1. w[1] \in DOMAIN items /\ w[2] \in DOMAIN items /\ Total(open, K) = Open(f)
    BY <1>2, <1>5, <1>6
  <2>2. K \subseteq DOMAIN items /\ w[1] \in Int /\ w[2] \in Int
    BY <1>4, <2>1
  <2>3. IsFiniteSet(K)
    BY <2>2, FS_Interval
  <2>4. \A k \in K : /\ items[k] \in S /\ open[k] = Open(items[k]) /\ open[k] \in Nat
                     /\ entry(k).invoice = items[k] /\ entry(k).fund = f
                     /\ entry(k).amount = Open(items[k])
    BY <1>2, <1>4, <2>2
  <2>5. A = {entry(k) : k \in K}
    OBVIOUS
  <2>6. \A a \in A : \E k \in K : a = entry(k)
    BY <2>5
  <2> HIDE DEF K, A, entry
  <2>7. Fits(A)
    <3> SUFFICES ASSUME NEW a \in A PROVE \E party \in Parties : {a.invoice, a.fund} \subseteq party
      BY DEF Fits
    <3>1. PICK k \in K : a = entry(k)
      BY <2>6
    <3>2. a.fund = f /\ a.invoice \in S
      BY <2>4, <3>1
    <3>3. PICK party \in Parties : {f, a.invoice} \subseteq party
      BY <1>1, <3>2
    <3> QED BY <3>2, <3>3
  <2>8. InvoicesOf(A) \cap cancelled = {}
    <3>1. \A a \in A : a.invoice \in S
      BY <2>4, <2>6
    <3> QED BY <1>1, <3>1 DEF InvoicesOf
  <2>9. name \in Bijection(K, A)
    <3>1. name \in [K -> A]
      BY <2>5
    <3>2. \A j, k \in K : name[j] = name[k] => j = k
      <4> SUFFICES ASSUME NEW j \in K, NEW k \in K, entry(j) = entry(k) PROVE j = k
        OBVIOUS
      <4>1. items[j] = items[k]
        BY <2>4
      <4> QED BY <1>4, <2>2, <4>1
    <3>3. \A a \in A : \E k \in K : name[k] = a
      BY <2>6
    <3> HIDE DEF name
    <3> QED BY <3>1, <3>2, <3>3 DEF Bijection, Injection, Surjection, IsInjective
  <2>10. \A k \in K : open[k] \in Nat /\ h[name[k]] = open[k]
    <3> TAKE k \in K
    <3>1. name[k] = entry(k) /\ entry(k) \in A
      BY <2>5
    <3>2. h[name[k]] = entry(k).amount
      BY <3>1
    <3> QED BY <2>4, <3>2
  <2> HIDE DEF name
  <2>11. SumFunctionOnSet(h, A) = SumFunctionOnSet(open, K)
    <3> HIDE DEF h
    <3> QED BY <2>3, <2>9, <2>10, SumRenamed
  <2>12. {a \in A : Holds(a, f)} = A
    <3>1. \A a \in A : a.fund = f
      BY <2>4, <2>6
    <3> QED BY <3>1 DEF Holds
  <2>13. Requested(A, f) = SumFunction([a \in A |-> a.amount])
    BY <2>12 DEF Requested
  <2>14. Requested(A, f) = SumFunctionOnSet(h, A)
    BY <2>13 DEF SumFunction
  <2>15. Requested(A, f) = Open(f)
    BY <2>1, <2>11, <2>14 DEF Total
  <2> QED BY <2>7, <2>8, <2>15 DEF A
<1> QED BY <1>7 DEF InvoiceCandidatesFit, items

(* What a plan asks of a record, if its allocations are named by entries.  *)
LEMMA RequestedByName ==
  ASSUME NEW A, NEW x, NEW T \in SUBSET Entries, IsFiniteSet(T),
         NEW name \in Bijection(T, {a \in A : Holds(a, x)}), \A p \in T : name[p].amount = p[3]
  PROVE  Requested(A, x) = Cents(T)
<1> DEFINE B == {a \in A : Holds(a, x)}
           h == [a \in B |-> a.amount]
           f == [p \in Entries |-> p[3]]
<1>1. \A p \in T : f[p] \in Nat /\ h[name[p]] = f[p]
  <2> TAKE p \in T
  <2>1. p \in Entries /\ name[p] \in B
    BY DEF Bijection, Injection
  <2>2. f[p] = p[3] /\ p[3] \in Nat
    BY <2>1 DEF Entries
  <2>3. h[name[p]] = name[p].amount
    BY <2>1
  <2> QED BY <2>2, <2>3
<1>2. Requested(A, x) = SumFunction(h) /\ DOMAIN h = B
  BY DEF Requested
<1>3. name \in Bijection(T, B)
  OBVIOUS
<1> HIDE DEF B, h, f
<1>4. SumFunctionOnSet(h, B) = SumFunctionOnSet(f, T)
  BY <1>1, <1>3, SumRenamed
<1> QED BY <1>2, <1>4 DEF SumFunction, Cents, f

(* What the page of a batch shows as open, if nobody else has a claim.     *)
LEMMA LeftIsOpen ==
  ASSUME LedgerInv, NEW b, NEW S \in SUBSET Records, \A x \in S : ~Taken(b, x)
  PROVE  /\ Left(b, S) \in Seq(Nat) /\ DOMAIN Left(b, S) = DOMAIN Listed(S)
         /\ \A k \in DOMAIN Listed(S) : Left(b, S)[k] = Open(Listed(S)[k])
<1> DEFINE items == Listed(S)
<1>1. ListsOnce(items, S)
  BY ListedOnce
<1>2. Left(b, S) = [k \in DOMAIN items |-> IF Taken(b, items[k]) THEN 0 ELSE Open(items[k])]
  BY DEF Left
<1> HIDE DEF items
<1>3. DOMAIN items = 1..Len(items) /\ Len(items) \in Nat /\ \A k \in DOMAIN items : items[k] \in S
  BY <1>1, ListOf
<1>4. \A k \in DOMAIN items : Left(b, S)[k] = Open(items[k]) /\ Open(items[k]) \in Nat
  BY <1>2, <1>3, OpenType
<1>5. DOMAIN Left(b, S) = DOMAIN items
  BY <1>2
<1>6. Left(b, S) \in [1..Len(items) -> Nat]
  <2>1. Left(b, S) = [k \in DOMAIN items |-> Left(b, S)[k]]
    BY <1>2, <1>5
  <2> QED BY <1>3, <1>4, <2>1
<1>7. Left(b, S) \in Seq(Nat)
  BY <1>3, <1>6
<1> QED BY <1>4, <1>5, <1>7 DEF items

(* Then the total of a page is what is open of the records together.       *)
LEMMA TotalLeft ==
  ASSUME LedgerInv, NEW b, NEW S \in SUBSET Records, \A x \in S : ~Taken(b, x),
         NEW open, \A x \in S : open[x] = Open(x)
  PROVE  Total(Left(b, S), DOMAIN Listed(S)) = SumFunctionOnSet(open, S)
<1> DEFINE items == Listed(S)
           K == DOMAIN items
           left == Left(b, S)
<1>1. ListsOnce(items, S)
  BY ListedOnce
<1>2. left \in Seq(Nat) /\ DOMAIN left = K /\ \A k \in K : left[k] = Open(items[k])
  BY LeftIsOpen
<1> HIDE DEF items, left
<1>3. /\ K = 1..Len(items) /\ Len(items) \in Nat
      /\ \A k \in K : items[k] \in S
      /\ \A x \in S : \E k \in K : items[k] = x
      /\ \A j, k \in K : items[j] = items[k] => j = k
  BY <1>1, ListOf
<1>4. items \in [K -> S]
  <2>1. items \in Seq(S)
    BY <1>1 DEF ListsOnce
  <2> QED BY <1>3, <2>1
<1>5. items \in Bijection(K, S)
  BY <1>3, <1>4 DEF Bijection, Injection, Surjection, IsInjective
<1>6. IsFiniteSet(K)
  <2>1. 1 \in Int /\ Len(items) \in Int
    BY <1>3
  <2> QED BY <1>3, <2>1, FS_Interval
<1>7. \A k \in K : left[k] \in Nat /\ open[items[k]] = left[k]
  BY <1>2, <1>3
<1> HIDE DEF K
<1>8. SumFunctionOnSet(open, S) = SumFunctionOnSet(left, K)
  BY <1>5, <1>6, <1>7, SumRenamed
<1> QED BY <1>8 DEF Total, left, K, items

(* An entry of a plan over two lists, as the allocation it stands for. *)
Spelled(p, I, F) == [invoice |-> I[p[1]], fund |-> F[p[2]], amount |-> p[3]]

Pairs(S, I, F) == /\ \A p \in S : p[3] # 0 /\ p[1] \in DOMAIN I /\ p[2] \in DOMAIN F
                  /\ \A p, q \in S : p[1] = q[1] /\ p[2] = q[2] => p = q
Spells(A, S, I, F) == /\ \A p \in S : Spelled(p, I, F) \in A
                      /\ \A a \in A : \E p \in S : a = Spelled(p, I, F)

AsSpelled(A, S, I, F, SI, SF) ==
  /\ \A a \in A : a \in Allocations /\ a.invoice \in SI /\ a.fund \in SF
  /\ NoPairTwice(A)
  /\ \A k \in DOMAIN I : Requested(A, I[k]) = Given(S, 1, k)
  /\ \A k \in DOMAIN F : Requested(A, F[k]) = Given(S, 2, k)

(* Asked of a record is what the entries for its place in the list say.    *)
LEMMA SpelledOut ==
  ASSUME NEW S \in SUBSET Entries, IsFiniteSet(S),
         NEW SI \in SUBSET Invoices, NEW I, ListsOnce(I, SI),
         NEW SF \in SUBSET Funds, NEW F, ListsOnce(F, SF),
         Pairs(S, I, F), NEW A, Spells(A, S, I, F)
  PROVE  AsSpelled(A, S, I, F, SI, SF)
<1>0. /\ \A p \in S : p[3] # 0 /\ p[1] \in DOMAIN I /\ p[2] \in DOMAIN F
      /\ \A p, q \in S : p[1] = q[1] /\ p[2] = q[2] => p = q
  BY DEF Pairs
<1>1. /\ \A k \in DOMAIN I : I[k] \in SI
      /\ \A j, k \in DOMAIN I : I[j] = I[k] => j = k
  <2>1. SI \in SUBSET Records
    BY DEF Records
  <2> QED BY <2>1, ListOf
<1>2. /\ \A k \in DOMAIN F : F[k] \in SF
      /\ \A j, k \in DOMAIN F : F[j] = F[k] => j = k
  <2>1. SF \in SUBSET Records
    BY DEF Records
  <2> QED BY <2>1, ListOf
<1> DEFINE entry(p) == Spelled(p, I, F)
<1>3. ASSUME NEW p \in S
      PROVE  /\ entry(p).invoice = I[p[1]] /\ entry(p).fund = F[p[2]] /\ entry(p).amount = p[3]
             /\ entry(p) \in A /\ entry(p) \in Allocations
             /\ entry(p).invoice \in SI /\ entry(p).fund \in SF
  <2>1. I[p[1]] \in SI /\ F[p[2]] \in SF /\ p[3] \in Nat \ {0}
    BY <1>0, <1>1, <1>2 DEF Entries
  <2> QED BY <2>1 DEF Spelled, Spells, Allocations
<1>4. \A a \in A : \E p \in S : a = entry(p)
  BY DEF Spells
<1> HIDE DEF entry
<1>5. ASSUME NEW p \in S, NEW q \in S, entry(p).invoice = entry(q).invoice, entry(p).fund = entry(q).fund
      PROVE  p = q
  <2>1. p[1] \in DOMAIN I /\ q[1] \in DOMAIN I /\ p[2] \in DOMAIN F /\ q[2] \in DOMAIN F
    BY <1>0
  <2>2. I[p[1]] = I[q[1]] /\ F[p[2]] = F[q[2]]
    BY <1>3, <1>5
  <2>3. p[1] = q[1] /\ p[2] = q[2]
    BY <1>1, <1>2, <2>1, <2>2
  <2> QED BY <1>0, <2>3
<1>6. NoPairTwice(A)
  <2> SUFFICES ASSUME NEW a \in A, NEW c \in A, a.invoice = c.invoice, a.fund = c.fund PROVE a = c
    BY DEF NoPairTwice
  <2>1. PICK p \in S : a = entry(p)
    BY <1>4
  <2>2. PICK q \in S : c = entry(q)
    BY <1>4
  <2>3. p = q
    BY <1>5, <2>1, <2>2
  <2> QED BY <2>1, <2>2, <2>3
(* The entries of one place name the allocations of its record. *)
<1>7. ASSUME NEW x, NEW T \in SUBSET S, \A p \in S : p \in T <=> Holds(entry(p), x)
      PROVE  Requested(A, x) = Cents(T)
  <2> DEFINE B == {a \in A : Holds(a, x)}
             name == [p \in T |-> entry(p)]
  <2>1. T \in SUBSET Entries /\ IsFiniteSet(T)
    BY FS_Subset
  <2>2. name \in [T -> B]
    BY <1>3, <1>7
  <2>3. \A p, q \in T : name[p] = name[q] => p = q
    <3> SUFFICES ASSUME NEW p \in T, NEW q \in T, entry(p) = entry(q) PROVE p = q
      OBVIOUS
    <3> QED BY <1>5
  <2>4. \A a \in B : \E p \in T : name[p] = a
    <3> SUFFICES ASSUME NEW a \in A, Holds(a, x) PROVE \E p \in T : entry(p) = a
      OBVIOUS
    <3>1. PICK p \in S : a = entry(p)
      BY <1>4
    <3>2. Holds(entry(p), x)
      BY <3>1, Zenon
    <3> QED BY <1>7, <3>1, <3>2
  <2>5. \A p \in T : name[p].amount = p[3]
    BY <1>3
  <2> HIDE DEF name
  <2>6. name \in Bijection(T, B)
    <3> HIDE DEF B
    <3> QED BY <2>2, <2>3, <2>4 DEF Bijection, Injection, Surjection, IsInjective
  <2> QED BY <2>1, <2>5, <2>6, RequestedByName
<1>8. ASSUME NEW k \in DOMAIN I PROVE Requested(A, I[k]) = Given(S, 1, k)
  <2>1. ASSUME NEW p \in S PROVE p[1] = k <=> Holds(entry(p), I[k])
    <3>1. entry(p).invoice = I[p[1]] /\ entry(p).fund \in Funds /\ I[k] \in Invoices /\ p[1] \in DOMAIN I
      BY <1>0, <1>1, <1>3
    <3>2. I[k] # entry(p).fund
      BY <3>1, RecordsAreDisjoint
    <3>3. I[p[1]] = I[k] => p[1] = k
      BY <1>1, <3>1
    <3> QED BY <3>1, <3>2, <3>3 DEF Holds
  <2>2. Requested(A, I[k]) = Cents({p \in S : p[1] = k})
    BY <1>7, <2>1
  <2> QED BY <2>2 DEF Given
<1>9. ASSUME NEW k \in DOMAIN F PROVE Requested(A, F[k]) = Given(S, 2, k)
  <2>1. ASSUME NEW p \in S PROVE p[2] = k <=> Holds(entry(p), F[k])
    <3>1. entry(p).fund = F[p[2]] /\ entry(p).invoice \in Invoices /\ F[k] \in Funds /\ p[2] \in DOMAIN F
      BY <1>0, <1>2, <1>3
    <3>2. F[k] # entry(p).invoice
      BY <3>1, RecordsAreDisjoint
    <3>3. F[p[2]] = F[k] => p[2] = k
      BY <1>2, <3>1
    <3> QED BY <3>1, <3>2, <3>3 DEF Holds
  <2>2. Requested(A, F[k]) = Cents({p \in S : p[2] = k})
    BY <1>7, <2>1
  <2> QED BY <2>2 DEF Given
<1>10. \A a \in A : a \in Allocations /\ a.invoice \in SI /\ a.fund \in SF
  BY <1>3, <1>4
<1> QED BY <1>6, <1>8, <1>9, <1>10 DEF AsSpelled

(* Plans that settle some records to the cent and name no pair twice are   *)
(* among the exact plans.                                                  *)
LEMMA ExactIfTyped ==
  ASSUME LedgerInv, NEW items \in SUBSET Records, NEW A, NoPairTwice(A),
         \A a \in A : a \in Allocations /\ a.invoice \in items /\ a.fund \in items /\ a.amount <= Face[a.invoice],
         \A x \in items : Requested(A, x) = Open(x)
  PROVE  A \in ExactPlans(items)
<1> DEFINE pairs == (items \cap Invoices) \X (items \cap Funds)
           amounts == UNION {0..Face[x] : x \in items}
           given(p) == CHOOSE a \in A : a.invoice = p[1] /\ a.fund = p[2]
           typed == [p \in pairs |-> IF \E a \in A : a.invoice = p[1] /\ a.fund = p[2]
                                     THEN given(p).amount ELSE 0]
           plan == {[invoice |-> p[1], fund |-> p[2], amount |-> typed[p]] :
                      p \in {p \in pairs : typed[p] > 0}}
<1>1. \A a \in A : a.amount \in amounts /\ a.amount \in Nat \ {0} /\ <<a.invoice, a.fund>> \in pairs
  <2> TAKE a \in A
  <2>1. a.invoice \in Invoices /\ a.fund \in Funds /\ a.amount \in Nat \ {0} /\ a.amount <= Face[a.invoice]
    BY DEF Allocations
  <2>2. Face[a.invoice] \in Nat
    BY <2>1, FaceAssumption DEF Records
  <2>3. a.amount \in 0..Face[a.invoice]
    BY <2>1, <2>2
  <2> QED BY <2>1, <2>3
<1>2. \A p \in pairs : 0 \in amounts
  <2> TAKE p \in pairs
  <2>1. p[1] \in items /\ p[1] \in Records
    OBVIOUS
  <2>2. 0 \in 0..Face[p[1]]
    BY <2>1, FaceAssumption
  <2> QED BY <2>1, <2>2
<1>3. ASSUME NEW a \in A PROVE typed[<<a.invoice, a.fund>>] = a.amount
  <2>1. PICK p : p = <<a.invoice, a.fund>>
    OBVIOUS
  <2>2. p \in pairs /\ p[1] = a.invoice /\ p[2] = a.fund
    BY <1>1, <2>1
  <2>3. given(p) \in A /\ given(p).invoice = p[1] /\ given(p).fund = p[2]
    BY <2>2
  <2>4. given(p) = a
    BY <2>2, <2>3 DEF NoPairTwice
  <2>5. typed[p] = given(p).amount
    BY <2>2
  <2> QED BY <2>1, <2>4, <2>5
<1>4. ASSUME NEW p \in pairs
      PROVE  typed[p] = 0 \/ \E a \in A : a.invoice = p[1] /\ a.fund = p[2] /\ typed[p] = a.amount
  <2>1. CASE \E a \in A : a.invoice = p[1] /\ a.fund = p[2]
    <3>1. given(p) \in A /\ given(p).invoice = p[1] /\ given(p).fund = p[2]
      BY <2>1
    <3> QED BY <2>1, <3>1
  <2>2. CASE ~\E a \in A : a.invoice = p[1] /\ a.fund = p[2]
    BY <2>2
  <2> QED BY <2>1, <2>2
<1>5. typed = [p \in pairs |-> typed[p]]
  OBVIOUS
<1> HIDE DEF typed, amounts, pairs
<1>6. typed \in [pairs -> amounts]
  <2>1. \A p \in pairs : typed[p] \in amounts
    BY <1>1, <1>2, <1>4
  <2> QED BY <1>5, <2>1
<1>7. A = plan
  <2>1. ASSUME NEW a \in A PROVE a \in plan
    <3>1. PICK p \in pairs : p = <<a.invoice, a.fund>>
      BY <1>1
    <3>2. typed[p] = a.amount /\ a.amount > 0 /\ p[1] = a.invoice /\ p[2] = a.fund
      BY <1>1, <1>3, <3>1
    <3>3. a = [invoice |-> a.invoice, fund |-> a.fund, amount |-> a.amount]
      BY DEF Allocations
    <3>4. a = [invoice |-> p[1], fund |-> p[2], amount |-> typed[p]]
      BY <3>2, <3>3
    <3> QED BY <3>2, <3>4
  <2>2. ASSUME NEW c \in plan PROVE c \in A
    <3>1. PICK p \in pairs : typed[p] > 0 /\ c = [invoice |-> p[1], fund |-> p[2], amount |-> typed[p]]
      OBVIOUS
    <3>2. PICK a \in A : a.invoice = p[1] /\ a.fund = p[2] /\ typed[p] = a.amount
      BY <1>4, <3>1
    <3>3. a = [invoice |-> a.invoice, fund |-> a.fund, amount |-> a.amount]
      BY DEF Allocations
    <3>4. c = a
      BY <3>1, <3>2, <3>3
    <3> QED BY <3>4
  <2> QED BY <2>1, <2>2
<1> QED BY <1>6, <1>7 DEF ExactPlans, pairs, amounts

(* A list of records, and what the page of a batch shows of them.          *)
LEMMA ShownType ==
  ASSUME LedgerInv, NEW b, NEW S \in SUBSET Records, \A x \in S : ~Taken(b, x)
  PROVE  /\ IsFiniteSet(DOMAIN Listed(S))
         /\ \A k \in DOMAIN Listed(S) : Listed(S)[k] \in S /\ Left(b, S)[k] <= Face[Listed(S)[k]]
         /\ Total(Left(b, S), DOMAIN Listed(S)) \in Nat
<1> DEFINE items == Listed(S)
           left == Left(b, S)
<1>1. ListsOnce(items, S)
  BY ListedOnce
<1>2. left \in Seq(Nat) /\ DOMAIN left = DOMAIN items /\ \A k \in DOMAIN items : left[k] = Open(items[k])
  BY LeftIsOpen
<1> HIDE DEF items, left
<1>3. /\ DOMAIN items = 1..Len(items) /\ Len(items) \in Nat
      /\ \A k \in DOMAIN items : items[k] \in S
  BY <1>1, ListOf
<1>4. IsFiniteSet(DOMAIN items)
  <2>1. 1 \in Int /\ Len(items) \in Int
    BY <1>3
  <2> QED BY <1>3, <2>1, FS_Interval
<1>5. \A k \in DOMAIN items : left[k] <= Face[items[k]]
  BY <1>2, <1>3, OpenType
<1>6. \A k \in DOMAIN items : left[k] \in Nat
  BY <1>2
<1>7. Total(left, DOMAIN items) \in Nat
  BY <1>4, <1>6, SumType DEF Total
<1> QED BY <1>3, <1>4, <1>5, <1>7 DEF items, left

Within(A, side, items) ==
  \A k \in DOMAIN items : Given(A, side, k) <= items[k]
GivesTo(A, side, items) == \A p \in A : p[side] \in DOMAIN items

(* One side of a plan that gives all the side has gives each item its all. *)
LEMMA GivesAll ==
  ASSUME NEW A \in SUBSET Entries, IsFiniteSet(A), NEW side, NEW items \in Seq(Nat),
         GivesTo(A, side, items), Within(A, side, items), Cents(A) = Total(items, DOMAIN items)
  PROVE  \A k \in DOMAIN items : Given(A, side, k) = items[k]
<1> DEFINE K == DOMAIN items
           h == [k \in K |-> Given(A, side, k)]
<1>0. IsFiniteSet(K) /\ \A k \in K : items[k] \in Nat
  <2>1. K = 1..Len(items) /\ 1 \in Int /\ Len(items) \in Int /\ \A k \in K : items[k] \in Nat
    OBVIOUS
  <2> QED BY <2>1, FS_Interval
<1>1. DOMAIN h = K /\ \A k \in K : h[k] = Given(A, side, k)
  OBVIOUS
<1>2. \A k \in K : Given(A, side, k) \in Nat
  <2> TAKE k \in K
  <2>1. {p \in A : p[side] = k} \in SUBSET A
    OBVIOUS
  <2> QED BY <2>1, CentsType DEF Given
<1>3. \A p \in A : p[side] \in K
  BY DEF GivesTo
<1> HIDE DEF h
<1>4. SumFunction(h) = Cents(A)
  <2> HIDE DEF K
  <2> QED BY <1>0, <1>1, <1>3, GivenInAll
<1>5. SumFunctionOnSet(h, K) = SumFunctionOnSet(items, K)
  BY <1>1, <1>4 DEF SumFunction, Total
<1>6. \A k \in K : h[k] \in Nat /\ items[k] \in Nat /\ h[k] <= items[k]
  BY <1>0, <1>1, <1>2 DEF Within
<1> HIDE DEF K
<1>7. \A k \in K : h[k] = items[k]
  BY <1>0, <1>5, <1>6, SumTight
<1> QED BY <1>1, <1>7 DEF K

(* The plan a page offers for a batch nobody else has a claim on: no pair  *)
(* twice, no more than a record is worth, and if both sides have the same, *)
(* to the cent.                                                            *)
LEMMA OfferedPlan ==
  ASSUME LedgerInv, NEW b \in DOMAIN batches, \A x \in batches[b].items : ~Taken(b, x)
  PROVE  LET items == batches[b].items
             A == SettlementPlan(b)
             total(S) == Total(Left(b, S), DOMAIN Listed(S))
         IN /\ NoPairTwice(A)
            /\ \A a \in A : /\ a \in Allocations /\ a.invoice \in items /\ a.fund \in items
                            /\ a.amount <= Face[a.invoice]
            /\ A = {} => Least(total(items \cap Invoices), total(items \cap Funds)) = 0
            /\ total(items \cap Invoices) = total(items \cap Funds) =>
                 \A x \in items : Requested(A, x) = Open(x)
<1> DEFINE items == batches[b].items
           SI == items \cap Invoices
           SF == items \cap Funds
           I == Listed(SI)
           F == Listed(SF)
           L == Left(b, SI)
           R == Left(b, SF)
           S == AllocationPlan(L, R)
           A == SettlementPlan(b)
           totalI == Total(L, DOMAIN I)
           totalF == Total(R, DOMAIN F)
<1>1. items \in SUBSET Records
  <2>1. batches[b] \in Batches
    BY DEF LedgerInv, LedgerTypes
  <2> QED BY <2>1 DEF Batches
<1>2. A = {Spelled(p, I, F) : p \in S}
  BY DEF SettlementPlan, Spelled
<1> HIDE DEF A
<1>3. /\ SI \in SUBSET Invoices /\ SF \in SUBSET Funds
      /\ SI \in SUBSET Records /\ SF \in SUBSET Records
      /\ \A x \in SI : ~Taken(b, x)
      /\ \A x \in SF : ~Taken(b, x)
      /\ items = SI \cup SF
  BY <1>1 DEF Records
<1> HIDE DEF items, SI, SF
<1>4. ListsOnce(I, SI) /\ ListsOnce(F, SF)
  BY <1>3, ListedOnce
<1>5. L \in Seq(Nat) /\ DOMAIN L = DOMAIN I /\ \A k \in DOMAIN I : L[k] = Open(I[k])
  BY <1>3, LeftIsOpen
<1>6. R \in Seq(Nat) /\ DOMAIN R = DOMAIN F /\ \A k \in DOMAIN F : R[k] = Open(F[k])
  BY <1>3, LeftIsOpen
<1>7. /\ IsFiniteSet(DOMAIN I) /\ totalI \in Nat
      /\ \A k \in DOMAIN I : I[k] \in SI /\ L[k] <= Face[I[k]]
  BY <1>3, ShownType
<1>8. /\ IsFiniteSet(DOMAIN F) /\ totalF \in Nat
      /\ \A k \in DOMAIN F : F[k] \in SF
  BY <1>3, ShownType
<1> HIDE DEF I, F, L, R
<1>9. /\ S \in SUBSET Entries /\ IsFiniteSet(S)
      /\ \A p \in S : p[3] # 0 /\ p[1] \in DOMAIN I /\ p[2] \in DOMAIN F
      /\ \A p, q \in S : p[1] = q[1] /\ p[2] = q[2] => p = q
      /\ \A k \in DOMAIN I : Given(S, 1, k) <= L[k]
      /\ \A k \in DOMAIN F : Given(S, 2, k) <= R[k]
      /\ Cents(S) = Least(totalI, totalF)
  BY <1>5, <1>6, WholePlan
<1> HIDE DEF S
<1>10. /\ \A a \in A : a \in Allocations /\ a.invoice \in SI /\ a.fund \in SF
       /\ NoPairTwice(A)
       /\ \A k \in DOMAIN I : Requested(A, I[k]) = Given(S, 1, k)
       /\ \A k \in DOMAIN F : Requested(A, F[k]) = Given(S, 2, k)
  <2>1. Spells(A, S, I, F) /\ Pairs(S, I, F)
    BY <1>2, <1>9 DEF Spells, Pairs
  <2>2. S \in SUBSET Entries /\ IsFiniteSet(S)
    BY <1>9
  <2>3. AsSpelled(A, S, I, F, SI, SF)
    BY <1>3, <1>4, <2>1, <2>2, SpelledOut
  <2> QED BY <2>3 DEF AsSpelled
<1>11. ASSUME NEW a \in A PROVE a.amount <= Face[a.invoice]
  <2>1. PICK p \in S : a = Spelled(p, I, F)
    BY <1>2
  <2>2. a.amount = p[3] /\ a.invoice = I[p[1]] /\ p[1] \in DOMAIN I /\ p \in Entries /\ p[3] \in Nat
    BY <1>9, <2>1 DEF Spelled, Entries
  <2> DEFINE T == {q \in S : q[1] = p[1]}
             B == T \ {p}
  <2>3. B \in SUBSET Entries /\ IsFiniteSet(B) /\ {p} \cup B = T /\ p \notin B
    BY <1>9, FS_Subset
  <2>4. Given(S, 1, p[1]) = Cents(T)
    BY DEF Given
  <2> HIDE DEF T, B
  <2>5. Cents(B) \in Nat /\ Cents(T) = p[3] + Cents(B)
    BY <2>2, <2>3, OneMoreEntry
  <2>6. Given(S, 1, p[1]) <= L[p[1]] /\ L[p[1]] <= Face[I[p[1]]] /\ L[p[1]] \in Nat
    BY <1>5, <1>7, <1>9, <2>2
  <2>7. Face[I[p[1]]] \in Nat
    BY <1>3, <1>7, <2>2, FaceAssumption
  <2> QED BY <2>2, <2>4, <2>5, <2>6, <2>7
<1>12. ASSUME A = {} PROVE Least(totalI, totalF) = 0
  <2>1. S = {}
    BY <1>2, <1>12
  <2> QED BY <1>9, <2>1, CentsOfNothing
<1>13. ASSUME totalI = totalF, NEW x \in items PROVE Requested(A, x) = Open(x)
  <2>1. Cents(S) = Total(L, DOMAIN L) /\ Cents(S) = Total(R, DOMAIN R)
    <3> HIDE DEF totalI, totalF
    <3>1. Cents(S) = totalI /\ Cents(S) = totalF
      BY <1>7, <1>8, <1>9, <1>13 DEF Least
    <3> QED BY <1>5, <1>6, <3>1 DEF totalI, totalF
  <2>2. \A k \in DOMAIN I : Given(S, 1, k) = L[k]
    <3>1. GivesTo(S, 1, L) /\ Within(S, 1, L)
      BY <1>5, <1>9 DEF GivesTo, Within
    <3>2. \A k \in DOMAIN L : Given(S, 1, k) = L[k]
      BY <1>5, <1>9, <2>1, <3>1, GivesAll
    <3> QED BY <1>5, <3>2
  <2>3. \A k \in DOMAIN F : Given(S, 2, k) = R[k]
    <3>1. GivesTo(S, 2, R) /\ Within(S, 2, R)
      BY <1>6, <1>9 DEF GivesTo, Within
    <3>2. \A k \in DOMAIN R : Given(S, 2, k) = R[k]
      BY <1>6, <1>9, <2>1, <3>1, GivesAll
    <3> QED BY <1>6, <3>2
  <2>4. CASE x \in SI
    <3>1. PICK k \in DOMAIN I : I[k] = x
      BY <1>3, <1>4, <2>4, ListOf
    <3> QED BY <1>5, <1>10, <2>2, <3>1
  <2>5. CASE x \in SF
    <3>1. PICK k \in DOMAIN F : F[k] = x
      BY <1>3, <1>4, <2>5, ListOf
    <3> QED BY <1>6, <1>10, <2>3, <3>1
  <2> QED BY <1>3, <2>4, <2>5
<1>14. \A a \in A : a.invoice \in items /\ a.fund \in items
  BY <1>3, <1>10
<1> HIDE DEF totalI, totalF
<1>15. /\ NoPairTwice(A)
       /\ \A a \in A : /\ a \in Allocations /\ a.invoice \in items /\ a.fund \in items
                       /\ a.amount <= Face[a.invoice]
       /\ A = {} => Least(totalI, totalF) = 0
       /\ totalI = totalF => \A x \in items : Requested(A, x) = Open(x)
  BY <1>10, <1>11, <1>12, <1>13, <1>14
<1> QED BY <1>15 DEF items, SI, SF, I, F, L, R, A, totalI, totalF

(* A batch whose page offers its confirmation comes with a plan that       *)
(* settles it to the cent.                                                 *)
LEMMA OffersSettle ==
  ASSUME LedgerInv, NEW b \in DOMAIN batches, CanConfirm(b)
  PROVE  SettlementPlan(b) \in ExactPlans(batches[b].items)
<1> DEFINE items == batches[b].items
           A == SettlementPlan(b)
           total(S) == Total(Left(b, S), DOMAIN Listed(S))
<1>1. total(items \cap Invoices) = total(items \cap Funds) /\ \A x \in batches[b].items : ~Taken(b, x)
  BY DEF CanConfirm
<1>2. items \in SUBSET Records
  <2>1. batches[b] \in Batches
    BY DEF LedgerInv, LedgerTypes
  <2> QED BY <2>1 DEF Batches
<1>3. /\ NoPairTwice(A)
      /\ \A a \in A : a \in Allocations /\ a.invoice \in items /\ a.fund \in items /\ a.amount <= Face[a.invoice]
      /\ total(items \cap Invoices) = total(items \cap Funds) =>
           \A x \in items : Requested(A, x) = Open(x)
  BY <1>1, OfferedPlan
<1> HIDE DEF A, total
<1>4. \A x \in items : Requested(A, x) = Open(x)
  BY <1>1, <1>3
<1> HIDE DEF items
<1>5. A \in ExactPlans(items)
  BY <1>2, <1>3, <1>4, ExactIfTyped
<1> QED BY <1>5 DEF A, items

(* The allocations of an exact plan are finitely many, each between an     *)
(* invoice and a fund of the batch.                                        *)
LEMMA ExactPlanType ==
  ASSUME NEW items \in SUBSET Records, NEW A \in ExactPlans(items)
  PROVE  /\ IsFiniteSet(A) /\ \A x \in items : Requested(A, x) = Open(x)
         /\ \A a \in A : /\ a.invoice \in items \cap Invoices /\ a.fund \in items \cap Funds
                         /\ a.amount \in Nat
<1> DEFINE pairs == (items \cap Invoices) \X (items \cap Funds)
           amounts == UNION {0..Face[x] : x \in items}
           entry(typed, p) == [invoice |-> p[1], fund |-> p[2], amount |-> typed[p]]
           given(typed) == {p \in pairs : typed[p] > 0}
           plan(typed) == {entry(typed, p) : p \in given(typed)}
<1>1. PICK typed \in [pairs -> amounts] : A = plan(typed)
  BY DEF ExactPlans
<1>2. \A x \in items : Requested(A, x) = Open(x)
  BY DEF ExactPlans
<1>3. IsFiniteSet(pairs)
  <2>1. IsFiniteSet(items \cap Invoices) /\ IsFiniteSet(items \cap Funds)
    BY RecordsAreFinite, FS_Subset
  <2> QED BY <2>1, FS_Product
<1>4. \A n \in amounts : n \in Nat
  OBVIOUS
<1>5. \A p \in pairs : typed[p] \in Nat
  <2> HIDE DEF pairs, amounts
  <2> QED BY <1>4
<1> DEFINE G == given(typed)
<1>6. IsFiniteSet(G) /\ G \subseteq pairs
  <2> HIDE DEF pairs
  <2> QED BY <1>3, FS_Subset
<1>7. /\ \A p \in G : entry(typed, p) \in A
      /\ \A a \in A : \E p \in G : a = entry(typed, p)
  BY <1>1
<1>8. \A p \in pairs : p[1] \in items \cap Invoices /\ p[2] \in items \cap Funds
  OBVIOUS
<1>9. \A p \in G : /\ entry(typed, p).invoice = p[1] /\ entry(typed, p).fund = p[2]
                   /\ entry(typed, p).amount = typed[p]
  OBVIOUS
<1> HIDE DEF G, pairs, entry
<1>10. IsFiniteSet(A)
  <2> DEFINE name == [p \in G |-> entry(typed, p)]
  <2>1. name \in Surjection(G, A)
    BY <1>7 DEF Surjection
  <2> HIDE DEF name
  <2> QED BY <1>6, <2>1, FS_Surjection
<1>11. \A a \in A : /\ a.invoice \in items \cap Invoices /\ a.fund \in items \cap Funds
                    /\ a.amount \in Nat
  BY <1>5, <1>6, <1>7, <1>8, <1>9
<1> QED BY <1>2, <1>10, <1>11

(* Only records of equal totals on both sides have an exact plan.          *)
LEMMA ExactPlansBalance ==
  ASSUME NEW items \in SUBSET Records, NEW A \in ExactPlans(items),
         NEW open, \A x \in items : open[x] = Open(x)
  PROVE  SumFunctionOnSet(open, items \cap Invoices) = SumFunctionOnSet(open, items \cap Funds)
<1> DEFINE SI == items \cap Invoices
           SF == items \cap Funds
           f == [a \in A |-> a.amount]
           part == [x \in items |-> {a \in A : Holds(a, x)}]
<1>1. /\ IsFiniteSet(A) /\ \A x \in items : Requested(A, x) = Open(x)
      /\ \A a \in A : a.invoice \in SI /\ a.fund \in SF /\ a.amount \in Nat
  BY ExactPlanType
<1>2. IsFiniteSet(SI) /\ IsFiniteSet(SF)
  BY RecordsAreFinite, FS_Subset
<1>3. \A a \in A : f[a] \in Nat
  BY <1>1
<1>4. \A x \in items : part[x] \subseteq A /\ IsFiniteSet(part[x])
  BY <1>1, FS_Subset
<1>5. \A x \in items : open[x] = SumFunctionOnSet(f, part[x])
  <2> TAKE x \in items
  <2> DEFINE B == {a \in A : Holds(a, x)}
             h == [a \in B |-> a.amount]
  <2>1. IsFiniteSet(B) /\ DOMAIN h = B /\ \A a \in B : f[a] \in Nat /\ h[a] = f[a]
    BY <1>1, FS_Subset
  <2>2. part[x] = B /\ Requested(A, x) = SumFunction(h)
    BY DEF Requested
  <2> HIDE DEF B, h, f, part
  <2>3. SumFunction(h) = SumFunctionOnSet(f, B)
    BY <2>1, SumSpelledOut
  <2> QED BY <1>1, <2>2, <2>3
<1>6. \A x \in SI : part[x] = {a \in A : a.invoice = x}
  BY <1>1, RecordsAreDisjoint DEF Holds
<1>7. \A x \in SF : part[x] = {a \in A : a.fund = x}
  BY <1>1, RecordsAreDisjoint DEF Holds
<1>8. SI \subseteq items /\ SF \subseteq items
  OBVIOUS
<1> HIDE DEF SI, SF, f, part
<1>9. SumFunctionOnSet(open, SI) = SumFunctionOnSet(f, A)
  <2>1. /\ \A x \in SI : IsFiniteSet(part[x]) /\ open[x] = SumFunctionOnSet(f, part[x])
        /\ \A x \in SI : part[x] \subseteq A
        /\ \A x \in SI : \A a \in part[x] : f[a] \in Nat
    BY <1>3, <1>4, <1>5, <1>8
  <2>2. \A x, y \in SI : x # y => part[x] \cap part[y] = {}
    BY <1>6
  <2>3. \A a \in A : \E x \in SI : a \in part[x]
    BY <1>1, <1>6
  <2> QED BY <1>2, <2>1, <2>2, <2>3, SumOfParts, SMTT(60)
<1>10. SumFunctionOnSet(open, SF) = SumFunctionOnSet(f, A)
  <2>1. /\ \A x \in SF : IsFiniteSet(part[x]) /\ open[x] = SumFunctionOnSet(f, part[x])
        /\ \A x \in SF : part[x] \subseteq A
        /\ \A x \in SF : \A a \in part[x] : f[a] \in Nat
    BY <1>3, <1>4, <1>5, <1>8
  <2>2. \A x, y \in SF : x # y => part[x] \cap part[y] = {}
    BY <1>7
  <2>3. \A a \in A : \E x \in SF : a \in part[x]
    BY <1>1, <1>7
  <2> QED BY <1>2, <2>1, <2>2, <2>3, SumOfParts, SMTT(60)
<1> QED BY <1>9, <1>10 DEF SI, SF

(* A draft nobody else has a claim on is offered if any plan settles it.   *)
LEMMA SettledAreOffered ==
  ASSUME LedgerInv, BatchesHaveBoth, NEW b \in DOMAIN batches, batches[b].status = "draft",
         \A x \in batches[b].items : ~Occupied(x), ExactPlans(batches[b].items) # {}
  PROVE  CanConfirm(b)
<1> DEFINE items == batches[b].items
           SI == items \cap Invoices
           SF == items \cap Funds
           total(S) == Total(Left(b, S), DOMAIN Listed(S))
           open == [x \in Records |-> Open(x)]
<1>1. items \in SUBSET Records /\ SI # {} /\ SF # {}
  <2>1. batches[b] \in Batches
    BY DEF LedgerInv, LedgerTypes
  <2> QED BY <2>1 DEF Batches, BatchesHaveBoth
<1>2. \A x \in batches[b].items : ~Taken(b, x)
  BY DEF Occupied, Taken
<1>3. \A x \in Records : open[x] = Open(x) /\ open[x] \in Nat
  BY OpenType
<1>4. SI \in SUBSET Records /\ SF \in SUBSET Records /\ IsFiniteSet(SI) /\ IsFiniteSet(SF)
  <2>1. IsFiniteSet(SI) /\ IsFiniteSet(SF)
    BY RecordsAreFinite, FS_Subset
  <2> QED BY <1>1, <2>1
<1>5. PICK A \in ExactPlans(items) : TRUE
  OBVIOUS
<1>6. \A x \in items : open[x] = Open(x) /\ open[x] \in Nat \ {0}
  <2> TAKE x \in items
  <2>1. Open(x) = Face[x] /\ x \in Records
    BY <1>1, UnoccupiedIsOpen
  <2> QED BY <1>3, <2>1, FaceAssumption
<1> HIDE DEF open
<1>7. SumFunctionOnSet(open, SI) = SumFunctionOnSet(open, SF)
  <2> HIDE DEF items
  <2> QED BY <1>1, <1>5, <1>6, ExactPlansBalance
<1>8. total(SI) = SumFunctionOnSet(open, SI) /\ total(SF) = SumFunctionOnSet(open, SF)
  <2>1. (\A x \in SI : ~Taken(b, x) /\ open[x] = Open(x)) /\ \A x \in SF : ~Taken(b, x) /\ open[x] = Open(x)
    BY <1>2, <1>6
  <2> HIDE DEF SI, SF
  <2> QED BY <1>4, <2>1, TotalLeft
<1>9. SumFunctionOnSet(open, SI) \in Nat \ {0}
  <2>1. PICK x \in SI : TRUE
    BY <1>1
  <2>2. \A y \in SI : open[y] \in Nat \ {0}
    BY <1>6
  <2> HIDE DEF SI
  <2>3. SumFunctionOnSet(open, SI) = open[x] + SumFunctionOnSet(open, SI \ {x})
    BY <1>4, <2>1, <2>2, SumWithout
  <2>4. IsFiniteSet(SI \ {x}) /\ \A y \in SI \ {x} : open[y] \in Nat
    BY <1>4, <2>2, FS_Subset
  <2>5. SumFunctionOnSet(open, SI \ {x}) \in Nat
    BY <2>4, SumType
  <2> QED BY <2>1, <2>2, <2>3, <2>5
<1>10. SettlementPlan(b) # {}
  <2>1. SettlementPlan(b) = {} => Least(total(SI), total(SF)) = 0
    BY <1>2, OfferedPlan
  <2> HIDE DEF total
  <2>2. Least(total(SI), total(SF)) = total(SI)
    BY <1>7, <1>8, <1>9 DEF Least
  <2> QED BY <1>8, <1>9, <2>1, <2>2
<1>11. total(SI) = total(SF)
  BY <1>7, <1>8
<1>12. Total(Left(b, SI), DOMAIN Listed(SI)) = Total(Left(b, SF), DOMAIN Listed(SF))
  BY <1>11
<1> HIDE DEF total
<1> QED BY <1>2, <1>10, <1>12 DEF CanConfirm

(* The lists of the run are lists.                                         *)
LEMMA SmallListsAreAlwaysExact == SmallListsAreExact
<1>1. ASSUME NEW n \in Nat, NEW S \in SUBSET Nat, NEW items \in Lists(n, S)
      PROVE  items \in Seq(Nat)
  <2>1. PICK k \in 0..n : items \in [1..k -> S]
    BY DEF Lists
  <2>2. k \in Nat /\ items \in [1..k -> Nat]
    <3>1. \A j \in 1..k : items[j] \in Nat
      BY <2>1
    <3> QED BY <2>1, <3>1
  <2>3. DOMAIN items = 1..k /\ items = [j \in 1..k |-> items[j]] /\ \A j \in 1..k : items[j] \in Nat
    BY <2>2
  <2> QED BY <2>2, <2>3
<1>2. ASSUME NEW items \in Lists(4, 0..3), NEW target \in 1..7
      PROVE  /\ WindowsAreExact(items, target) /\ CandidatesAreExact(items, target)
             /\ RowsAreExact(items, target)
  <2>1. items \in Seq(Nat)
    <3>1. 4 \in Nat /\ 0..3 \in SUBSET Nat
      OBVIOUS
    <3> QED BY <1>1, <3>1
  <2>2. target \in Nat \ {0} /\ target \in Nat /\ target \in Int
    OBVIOUS
  <2> QED BY <2>1, <2>2, WindowsMeetTheTarget, CandidatesMeetTheTarget, RowsMeetTheTarget
<1>3. ASSUME NEW invoices \in Lists(3, 0..3), NEW funds \in Lists(3, 0..3)
      PROVE  PlanIsExact(invoices, funds)
  <2>1. 3 \in Nat /\ 0..3 \in SUBSET Nat
    OBVIOUS
  <2>2. invoices \in Seq(Nat) /\ funds \in Seq(Nat)
    BY <1>1, <2>1
  <2> QED BY <2>2, PlansAreExact
<1> QED BY <1>2, <1>3 DEF SmallListsAreExact

(* What the pages suggest is exact for every ledger that can be reached:   *)
(* candidates fit, plans settle to the cent, and a draft may be confirmed  *)
(* exactly if some plan settles it (settlement_context, candidates.py).    *)
THEOREM ExactSuggestions == Spec => []SuggestionsAreExact
<1>1. LedgerInv /\ BatchesHaveBoth => SuggestionsAreExact
  <2> SUFFICES ASSUME LedgerInv, BatchesHaveBoth PROVE SuggestionsAreExact
    OBVIOUS
  <2>1. \A b \in DOMAIN batches : OffersAreExact(b)
    BY OffersSettle, SettledAreOffered DEF OffersAreExact
  <2>2. \A period \in Periods : /\ \A f \in Funds : InvoiceCandidatesFit(f, period)
                                 /\ \A i \in Invoices : TransactionCandidatesFit(i, period)
    BY InvoiceCandidatesAlwaysFit, TransactionCandidatesAlwaysFit
  <2> QED BY <2>1, <2>2, SmallListsAreAlwaysExact DEF SuggestionsAreExact
<1> QED BY RequestsImplementLedger, LedgerInvariance, OnlyTwoSidedBatches, <1>1, PTL
=============================================================================
