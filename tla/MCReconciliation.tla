-------------------------- MODULE MCReconciliation --------------------------
(* Two web workers on the records of one party, two cents each, so that    *)
(* amounts can be split, exhausted and crossed; the month has the funds    *)
(* and only one invoice, which they can settle exactly.                    *)
EXTENDS ReconciliationProperties, TLC

S == INSTANCE SequencesExt

TwoCents == [x \in Records |-> 2]
OneParty == {Records}
Months == {{CHOOSE i \in Invoices : TRUE} \cup Funds}
Dates == S!SetToSeq(Invoices) \o S!SetToSeq(Funds)
SplitAmounts == 1..2
AnyInvoices == SUBSET Invoices
AllOrNone == {Invoices}
WholeAmounts == {2}
Symmetry == Permutations(Sessions)
=============================================================================
