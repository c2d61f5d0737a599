----------------------------- MODULE InvoiceBook -----------------------------
(***************************************************************************)
(* What a salon's invoicing promises, whatever its processes do in         *)
(* between: numbers without gaps, one live invoice of a visit at most, no   *)
(* invoice cancelled under a live rectificativa, and a tax agency (AEAT)    *)
(* that is never told of an invoice that was not issued, nor of an          *)
(* annulment nobody asked for.  Fiscal implements it.                      *)
(***************************************************************************)
EXTENDS Naturals, FiniteSets

CONSTANTS
    Invoices,     \* what may be invoiced: visits, and rectificativas of them
    Rectifies,    \* invoice -> the one it corrects, or NoInvoice
    SeriesOf,     \* invoice -> its series
    SourceOf,     \* invoice -> the visit it is of
    NoInvoice

VARIABLES
    status,       \* invoice -> absent, issued, cancelled
    number,       \* invoice -> its number in the series, 0 if absent
    told          \* invoice -> what the AEAT holds: nothing, alta, annulled

bookVars == <<status, number, told>>

BookInit == /\ status = [i \in Invoices |-> "absent"]
            /\ number = [i \in Invoices |-> 0]
            /\ told = [i \in Invoices |-> "nothing"]

NumberedIn(s) == {i \in Invoices : number[i] # 0 /\ SeriesOf[i] = s}

LiveRectifications(i) ==
    {r \in Invoices : Rectifies[r] = i /\ status[r] = "issued"}

Issue(i) ==
    /\ status[i] = "absent"
    /\ Rectifies[i] # NoInvoice => status[Rectifies[i]] = "issued"
    /\ \A j \in Invoices \ {i} :
           SourceOf[j] = SourceOf[i] => status[j] # "issued"
    /\ status' = [status EXCEPT ![i] = "issued"]
    /\ number' = [number EXCEPT ![i] =
                    Cardinality(NumberedIn(SeriesOf[i])) + 1]
    /\ UNCHANGED told

Cancel(i) ==
    /\ status[i] = "issued"
    /\ LiveRectifications(i) = {}
    /\ status' = [status EXCEPT ![i] = "cancelled"]
    /\ UNCHANGED <<number, told>>

\* The AEAT registers what a submission tells it, several invoices at once.
Tell ==
    /\ told' \in [Invoices -> {"nothing", "alta", "annulled"}]
    /\ \A i \in Invoices :
          \/ told'[i] = told[i]
          \/ told[i] = "nothing" /\ told'[i] = "alta" /\ status[i] # "absent"
          \/ told'[i] = "annulled" /\ status[i] = "cancelled"
    /\ UNCHANGED <<status, number>>

BookNext == Tell \/ \E i \in Invoices : Issue(i) \/ Cancel(i)

BookSpec == BookInit /\ [][BookNext]_bookVars
=============================================================================
