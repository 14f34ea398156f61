------------------------------ MODULE MCImports ------------------------------
(* Statements that overlap and differ, with their rows in different        *)
(* orders, and one PDF.                                                    *)
EXTENDS ImportsProperties, TLC

CONSTANTS i1, i2, t1, t2

Invoice(k, status, face) ==
  [key |-> k, face |-> face, status |-> status, at |-> 0, balance |-> None]
Payment(k, at, balance) ==
  [key |-> k, face |-> 1, status |-> "normal", at |-> at, balance |-> balance]

(* The invoices as issued; a later export where both are red; another one, *)
(* with one voided and other fields for the other; and two bank statements *)
(* that disagree about the balance of one instant.                         *)
Issued == <<Invoice(i1, "normal", 1), Invoice(i2, "normal", 1), Invoice(None, "normal", 1)>>
Later  == <<Invoice(i2, "red", 1), Invoice(i1, "red", 1), Invoice(i1, "red", 1)>>
Voided == <<Invoice(i1, "void", 1), Invoice(i2, "normal", 2)>>
Bank   == <<Payment(t1, 1, 5), Payment(t1, 1, 5)>>
Online == <<Payment(t2, 1, 6)>>

MCParsed == [x \in {"issued", "later", "voided", "bank", "online"} |->
               CASE x = "issued" -> Issued [] x = "later" -> Later [] x = "voided" -> Voided
                 [] x = "bank" -> Bank [] OTHER -> Online]
MCStatements == DOMAIN MCParsed
MCShas == MCStatements \cup {"pdf"}
Symmetric == Permutations(Sessions)
=============================================================================
