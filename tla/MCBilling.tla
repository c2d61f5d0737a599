----------------------------- MODULE MCBilling -----------------------------
(* Small accounts for Billing.                                             *)
EXTENDS Billing, TLC

CONSTANTS s1, s2, h1, h2

\* Two checkouts paid side by side, their events handled in turn.
Two == [subs |-> {s1, s2}, kinds |-> {"live", "ended"}, calls |-> {"subscribe"},
        handlers |-> {h1}, faults |-> 1]

\* One subscription: invoices of two bundles handled at once, invoices paid
\* or not, and an owner who changes her mind.
Invoices == [subs |-> {s1}, kinds |-> {"checkout", "paid"},
             calls |-> {"subscribe"}, handlers |-> {h1, h2}, faults |-> 1]
PaidOrNot == [Invoices EXCEPT !.kinds = {"paid", "failed"}, !.handlers = {h1}]
Changes == [Invoices EXCEPT !.kinds = {"live", "ended"}, !.faults = 0,
            !.calls = {"subscribe", "cancel", "undo", "reactivate"}]

SmallScenes == {Two, Invoices, PaidOrNot, Changes}

\* The end of one subscription and the purchase of another, handled at once.
AfterAnother == {[Two EXCEPT !.calls = {"subscribe", "cancel"},
                             !.handlers = {h1, h2}, !.faults = 0]}
=============================================================================
