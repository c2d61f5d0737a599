------------------------------ MODULE MCFiscal ------------------------------
(* Small salons for Fiscal: a visit invoiced, again after its invoice was   *)
(* cancelled, and a rectificativa of the first.                            *)
EXTENDS Fiscal, TLC

CONSTANTS i1, i2, r1, c1, c2

WithRectification == [i \in {i1, i2, r1} |-> IF i = r1 THEN i1 ELSE NoInvoice]
TwoSeries == [i \in {i1, i2, r1} |-> IF i = r1 THEN "R" ELSE "A"]
SameVisit == [i \in {i1, i2, r1} |-> IF i = r1 THEN "credit" ELSE "visit"]

\* Every pair of requests but two rectificativas and two resends at once.
TwoDesks == [c \in {c1, c2} |->
                {"issue", "cancel", "annul"}
                \cup IF c = c1 THEN {"rectify"} ELSE {"correct", "again"}]
=============================================================================
