---------------------------- MODULE MCReporting ----------------------------
(* Midnight passes once while two web workers are at work; one invoice is  *)
(* three days older than the rest, so that it grows stale the next day; the *)
(* other one is of another party, so that imports that void both of them   *)
(* can deadlock.                                                           *)
EXTENDS ReportingProperties, TLC

S == INSTANCE SequencesExt

TwoCents == [x \in Records |-> 2]
Old == CHOOSE i \in Invoices : TRUE
Months == {{Old} \cup Funds}
FirstParty == Months
Calendars == <<Old>> \o S!SetToSeq(Invoices \ {Old}) \o S!SetToSeq(Funds)
RecordDays == [x \in Records |-> IF x = Old THEN 0 ELSE 3]
DueDays == [i \in Invoices |-> RecordDays[i]]
AllOrNone == {Invoices}
WholeAmounts == {2}
=============================================================================
