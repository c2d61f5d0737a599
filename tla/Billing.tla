------------------------------ MODULE Billing ------------------------------
(***************************************************************************)
(* What one salon pays KiraRoom: its subscriptions in Stripe, Stripe's     *)
(* events about them (webhooks.controller.ts), the owner's calls           *)
(* (subscriptions.service.ts) and the two jobs that end trials and grace   *)
(* periods.  No handler runs in a transaction: each reads the salon, asks  *)
(* Stripe, and writes the salon by its id, a step each.                    *)
(***************************************************************************)
EXTENDS Naturals, FiniteSets

CONSTANTS
    Subs,        \* subscriptions the owner may buy
    NoSub,
    Handlers,    \* requests of Stripe handled at once
    Lines,       \* message bundles on an invoice, a line each
    Scenes       \* what happens: the subscriptions, kinds of event and calls
                 \* there are, the handlers, and a bound on their faults

ASSUME ScenesAssumption ==
    \A c \in Scenes : c.subs \subseteq Subs /\ c.handlers \subseteq Handlers

ASSUME LinesAssumption == Lines \in Nat \ {0}

VARIABLES
    scene,       \* one of Scenes: never changes
    sub,         \* Stripe: subscription -> status, whether it ends with its period
    event,       \* <<kind, subscription>> -> what became of Stripe's last one
    credits,     \* subscription -> line of its last invoice -> times it was given
    torn,        \* subscription -> times the handling of that invoice failed
                 \* between two of its lines: history, nothing reads it
    trialOver, status, stored, grace, cancelAt,    \* the salon
    handler,     \* slot -> the event it handles, what it read and will write
    panel,       \* the owner's call
    trialJob, graceJob,    \* what each job listed
    faults

wallet == <<credits, torn>>
stripe == <<scene, sub, event, wallet>>
salon == <<status, stored, grace, cancelAt>>
work == <<handler, panel, trialJob, graceJob>>
vars == <<stripe, trialOver, salon, work, faults>>

Events == {"checkout", "live", "ended", "paid", "failed"} \X Subs

Free == [pc |-> "free", event |-> <<"none", NoSub>>, status |-> "none",
         stored |-> NoSub, to |-> "none", ending |-> FALSE, line |-> 1]
NoCall == [pc |-> "none", kind |-> "none", stored |-> NoSub, status |-> "none"]
NoCredit == [n \in 1..Lines |-> 0]
NoList == [pc |-> "idle", stored |-> NoSub, ending |-> FALSE]

Init ==
    /\ scene \in Scenes
    /\ sub = [s \in Subs |-> [st |-> "none", ending |-> FALSE]]
    /\ event = [e \in Events |-> "quiet"]
    /\ credits = [s \in Subs |-> NoCredit]
    /\ torn = [s \in Subs |-> 0]
    /\ trialOver = FALSE
    /\ status = "trialing" /\ stored = NoSub
    /\ grace = "none" /\ cancelAt = "none"
    /\ handler = [h \in Handlers |-> Free]
    /\ panel = NoCall
    /\ trialJob = NoList /\ graceJob = "idle"
    /\ faults = 0

-----------------------------------------------------------------------------
(* Stripe.  It sends an event until it is answered; one that finds another *)
(* of its kind on its way is not looked at.                                *)

Live(s) == sub[s].st \in {"active", "trialing"}

Sent(kinds, s) ==
    [e \in Events |-> IF e[2] = s /\ e[1] \in kinds \cap scene.kinds
                         /\ event[e] = "quiet"
                      THEN "sent" ELSE event[e]]

Send(kinds, s) ==
    /\ UNCHANGED scene
    /\ event' = Sent(kinds, s)
    /\ IF "paid" \in kinds /\ event[<<"paid", s>>] = "quiet"
       THEN /\ credits' = [credits EXCEPT ![s] = NoCredit]
            /\ torn' = [torn EXCEPT ![s] = 0]
       ELSE UNCHANGED wallet

\* A checkout is paid, in the trial with or without a first charge.
Pay(s) ==
    /\ sub[s].st = "open"
    /\ \E st \in {"active"} \cup (IF trialOver THEN {} ELSE {"trialing"}) :
          sub' = [sub EXCEPT ![s].st = st]
    /\ Send({"checkout", "live", "paid"}, s)
    /\ UNCHANGED <<trialOver, salon, work, faults>>

\* One set to end with its period is not charged again.
Billed(s) == \/ sub[s].st = "past_due"
             \/ sub[s].st = "active" /\ ~sub[s].ending
             \/ sub[s].st = "trialing" /\ ~sub[s].ending /\ trialOver

\* A period charged, or tried again after it failed.
Renew(s) ==
    /\ Billed(s) /\ event[<<"live", s>>] = "quiet"
    /\ sub' = [sub EXCEPT ![s].st = "active"]
    /\ Send({"live", "paid"}, s)
    /\ UNCHANGED <<trialOver, salon, work, faults>>

ChargeFails(s) ==
    /\ Billed(s) /\ event[<<"failed", s>>] = "quiet"
    /\ sub' = [sub EXCEPT ![s].st = "past_due"]
    /\ Send({"failed"}, s)
    /\ UNCHANGED <<trialOver, salon, work, faults>>

Ended(s) == [sub EXCEPT ![s] = [st |-> "canceled", ending |-> FALSE]]

\* The period it was to end with is over, or its charge failed once too often.
Expire(s) ==
    /\ sub[s].ending \/ sub[s].st = "past_due"
    /\ sub' = Ended(s)
    /\ Send({"ended"}, s)
    /\ UNCHANGED <<trialOver, salon, work, faults>>

\* A handler that takes long is asked again, and the copy told it was
\* handled: no matter, unless the first then fails.
SendAgain(e) ==
    /\ event[e] = "claimed" /\ faults < scene.faults
    /\ event' = [event EXCEPT ![e] = "answered"]
    /\ UNCHANGED <<scene, sub, wallet, trialOver, salon, work, faults>>

Time ==
    /\ \/ ~trialOver /\ trialOver' = TRUE /\ UNCHANGED <<grace, cancelAt>>
       \/ grace = "open" /\ grace' = "over" /\ UNCHANGED <<trialOver, cancelAt>>
       \/ cancelAt = "ahead" /\ cancelAt' = "past" /\ UNCHANGED <<trialOver, grace>>
    /\ UNCHANGED <<stripe, status, stored, work, faults>>

-----------------------------------------------------------------------------
(* An event is handled.                                                    *)

At(h, pc) == handler[h].pc = pc
Of(h) == handler[h].event[2]
Kind(h) == handler[h].event[1]
Goto(h, pc) == handler' = [handler EXCEPT ![h].pc = pc]
\* What it read matters no more.
Over(h) == [Free EXCEPT !.pc = "answer", !.event = handler[h].event]
Finish(h) == handler' = [handler EXCEPT ![h] = Over(h)]

\* Mutant: the event is not recorded before it is handled.
Unrecorded(e) == event[e] \in {"sent", "claimed"}

Unclaimed(e) == event[e] = "sent"

\* claimEvent: its id is recorded first.
Claim(h, e) ==
    /\ At(h, "free") /\ Unclaimed(e)
    /\ event' = [event EXCEPT ![e] = "claimed"]
    /\ handler' = [handler EXCEPT ![h] = [Free EXCEPT !.pc = "read", !.event = e]]
    /\ UNCHANGED <<scene, sub, wallet, trialOver, salon, panel, trialJob, graceJob, faults>>

PaidGoesOn(seen) == IF seen \in {"past_due", "suspended"} THEN "recover" ELSE "credit"

\* Every handler begins with the salon as it is now.
Read(h) ==
    /\ At(h, "read")
    /\ LET pc == CASE Kind(h) \in {"checkout", "live"} -> "ask"
                    [] Kind(h) = "paid"   -> PaidGoesOn(status)
                    [] Kind(h) = "failed" -> IF status \in {"active", "trialing"}
                                             THEN "late" ELSE "answer"
                    [] Kind(h) = "ended"  -> IF stored \in {NoSub, Of(h)}
                                             THEN "close" ELSE "answer"
       IN  handler' = [handler EXCEPT ![h] =
               IF pc = "answer" THEN Over(h)
               ELSE [@ EXCEPT !.pc = pc, !.status = status, !.stored = stored]]
    /\ UNCHANGED <<stripe, trialOver, salon, panel, trialJob, graceJob, faults>>

\* liveStatusFor, at the moment it is computed.
LiveStatus(h, st) ==
    IF ~trialOver /\ "trialing" \in {st, handler[h].status}
    THEN "trialing" ELSE "active"

\* Mutant: whatever another subscription does.
AnyOther(h) == FALSE

\* Whether the salon has another one that may still bill.
HasAnother(h) == /\ handler[h].stored \notin {NoSub, Of(h)}
                 /\ handler[h].status # "cancelled"

\* activatePlan: the subscription as Stripe has it now.  One that is not
\* live, or that the salon cancelled, changes nothing.
Ask(h) ==
    /\ At(h, "ask")
    /\ LET now == sub[Of(h)]
           refused == handler[h].stored = Of(h) /\ handler[h].status = "cancelled"
       IN  handler' = [handler EXCEPT ![h] =
               IF ~Live(Of(h)) \/ refused THEN Over(h)
               ELSE [@ EXCEPT !.pc = IF HasAnother(h) THEN "askOther" ELSE "write",
                              !.ending = now.ending,
                              !.to = LiveStatus(h, now.st)]]
    /\ UNCHANGED <<stripe, trialOver, salon, panel, trialJob, graceJob, faults>>

AskOther(h) ==
    /\ At(h, "askOther")
    /\ handler' = [handler EXCEPT ![h] = [@ EXCEPT
           !.pc = IF Live(handler[h].stored) THEN "duplicate" ELSE "write",
           !.to = IF trialOver THEN "active" ELSE handler[h].to]]
    /\ UNCHANGED <<stripe, trialOver, salon, panel, trialJob, graceJob, faults>>

\* cancelDuplicate: ended in Stripe, unless Stripe fails, which is only logged.
CancelDuplicate(h) ==
    /\ At(h, "duplicate")
    /\ \/ sub' = Ended(Of(h)) /\ Send({"ended"}, Of(h)) /\ UNCHANGED faults
       \/ faults < scene.faults /\ faults' = faults + 1 /\ UNCHANGED stripe
    /\ Finish(h)
    /\ UNCHANGED <<trialOver, salon, panel, trialJob, graceJob>>

Write(h) ==
    /\ At(h, "write")
    /\ status' = handler[h].to /\ stored' = Of(h)
    /\ grace' = "none"
    /\ cancelAt' = IF handler[h].ending THEN "ahead" ELSE "none"
    /\ Finish(h)
    /\ UNCHANGED <<stripe, trialOver, panel, trialJob, graceJob, faults>>

\* handlePlanSubscription: its own subscription ended, as it was read.
Close(h) ==
    /\ At(h, "close")
    /\ IF status # "cancelled"
       THEN status' = "cancelled" /\ cancelAt' = "none"
       ELSE UNCHANGED <<status, cancelAt>>
    /\ Finish(h)
    /\ UNCHANGED <<stripe, trialOver, stored, grace, panel, trialJob, graceJob, faults>>

\* handleInvoicePaid: out of its grace, or its suspension...
Recover(h) ==
    /\ At(h, "recover")
    /\ status' = "active" /\ grace' = "none"
    /\ Goto(h, "credit")
    /\ UNCHANGED <<stripe, trialOver, stored, cancelAt, panel, trialJob, graceJob, faults>>

\* ... and the bundles on the invoice go to its wallet, a line at a time:
\* each an increment, whatever was given before (creditTopUp).
Credit(h) ==
    /\ At(h, "credit")
    /\ LET n == handler[h].line IN
          /\ credits' = [credits EXCEPT ![Of(h)][n] = @ + 1]
          /\ IF n = Lines THEN Finish(h)
             ELSE handler' = [handler EXCEPT ![h].line = n + 1]
    /\ UNCHANGED <<scene, sub, event, torn, trialOver, salon, panel, trialJob, graceJob,
                   faults>>

\* handleInvoicePaymentFailed: a grace opens from a working account.
Late(h) ==
    /\ At(h, "late")
    /\ status' = "past_due" /\ grace' = "open"
    /\ Finish(h)
    /\ UNCHANGED <<stripe, trialOver, stored, cancelAt, panel, trialJob, graceJob, faults>>

Answer(h) ==
    /\ At(h, "answer")
    /\ event' = [event EXCEPT ![handler[h].event] = "quiet"]
    /\ handler' = [handler EXCEPT ![h] = Free]
    /\ UNCHANGED <<scene, sub, wallet, trialOver, salon, panel, trialJob, graceJob, faults>>

\* Some lines of the invoice are in the wallet, and some are not.
Halfway(h) == At(h, "credit") /\ handler[h].line > 1

\* A database or Stripe that does not answer: the id is released, and
\* Stripe's next try handled from the beginning, if there is one.
Fail(h) ==
    /\ handler[h].pc \notin {"free", "answer", "duplicate"}
    /\ faults < scene.faults /\ faults' = faults + 1
    /\ event' = [event EXCEPT ![handler[h].event] =
                    IF @ = "claimed" THEN "sent" ELSE "quiet"]
    /\ torn' = IF Halfway(h) THEN [torn EXCEPT ![Of(h)] = @ + 1] ELSE torn
    /\ handler' = [handler EXCEPT ![h] = Free]
    /\ UNCHANGED <<scene, sub, credits, trialOver, salon, panel, trialJob, graceJob>>

\* The process dies: the next try is told the event was handled.
Die(h) ==
    /\ ~At(h, "free")
    /\ faults < scene.faults /\ faults' = faults + 1
    /\ event' = [event EXCEPT ![handler[h].event] = "quiet"]
    /\ handler' = [handler EXCEPT ![h] = Free]
    /\ UNCHANGED <<scene, sub, wallet, trialOver, salon, panel, trialJob, graceJob>>

-----------------------------------------------------------------------------
(* The owner's calls.                                                      *)

Subscribed == stored # NoSub /\ status # "cancelled"

\* Where a call begins, from what it reads; nowhere when it is refused.
Begins(kind) ==
    CASE kind = "subscribe"  -> IF Subscribed THEN "refused" ELSE "open"
      [] kind = "cancel"     -> IF stored # NoSub /\ status \in {"active", "trialing"}
                                THEN "atEnd"
                                ELSE IF stored # NoSub THEN "now" ELSE "close"
      [] kind = "undo"       -> IF Subscribed THEN "renew" ELSE "refused"
      [] kind = "reactivate" -> CASE status # "cancelled" -> "refused"
                                  [] trialOver            -> "open"
                                  [] OTHER                -> "back"

CallIn(pc) == panel.pc = pc
Hang(pc) == panel' = [panel EXCEPT !.pc = pc]
Hung == panel' = NoCall

Begin ==
    /\ panel = NoCall
    /\ \E kind \in scene.calls :
          /\ Begins(kind) # "refused"
          /\ panel' = [pc |-> Begins(kind), kind |-> kind, stored |-> stored,
                       status |-> status]
    /\ UNCHANGED <<stripe, trialOver, salon, handler, trialJob, graceJob, faults>>

\* createCheckoutSession: the open ones expire, if Stripe can, and one opens.
OpenCheckout ==
    /\ CallIn("open")
    /\ \E s \in {r \in scene.subs : sub[r].st = "none"}, expire \in BOOLEAN :
          sub' = [r \in Subs |->
                    IF r = s THEN [sub[r] EXCEPT !.st = "open"]
                    ELSE IF sub[r].st = "open" /\ expire
                    THEN [sub[r] EXCEPT !.st = "none"] ELSE sub[r]]
    /\ Hung
    /\ UNCHANGED <<scene, event, wallet, trialOver, salon, handler, trialJob, graceJob, faults>>

\* cancelSubscription, with a paid period: it ends with it, and one that
\* Stripe has already ended, now.
CancelAtEnd ==
    /\ CallIn("atEnd")
    /\ IF sub[panel.stored].st = "canceled"
       THEN Hang("close") /\ UNCHANGED sub
       ELSE /\ sub' = [sub EXCEPT ![panel.stored].ending = TRUE]
            /\ Hang("noteEnd")
    /\ UNCHANGED <<scene, event, wallet, trialOver, salon, handler, trialJob, graceJob, faults>>

NoteEnd ==
    /\ CallIn("noteEnd")
    /\ cancelAt' = "ahead"
    /\ Hung
    /\ UNCHANGED <<stripe, trialOver, status, stored, grace, handler, trialJob, graceJob,
                   faults>>

\* Without one, in Stripe first...
CancelNow ==
    /\ CallIn("now")
    /\ IF sub[panel.stored].st = "canceled" THEN UNCHANGED stripe
       ELSE sub' = Ended(panel.stored) /\ Send({"ended"}, panel.stored)
    /\ Hang("close")
    /\ UNCHANGED <<trialOver, salon, handler, trialJob, graceJob, faults>>

\* Mutant: the status is spelt as Stripe does.
StripesWord == "canceled"

CancelledWord == "cancelled"

\* ... then here.
CloseSalon ==
    /\ CallIn("close")
    /\ status' = CancelledWord /\ cancelAt' = "none"
    /\ Hung
    /\ UNCHANGED <<stripe, trialOver, stored, grace, handler, trialJob, graceJob, faults>>

\* undoCancellation: a subscription that ended has nothing to renew.
RenewInStripe ==
    /\ CallIn("renew")
    /\ IF sub[panel.stored].st = "canceled"
       THEN Hung /\ UNCHANGED sub
       ELSE /\ sub' = [sub EXCEPT ![panel.stored].ending = FALSE]
            /\ Hang("noteRenewal")
    /\ UNCHANGED <<scene, event, wallet, trialOver, salon, handler, trialJob, graceJob, faults>>

NoteRenewal ==
    /\ CallIn("noteRenewal")
    /\ cancelAt' = "none"
    /\ Hung
    /\ UNCHANGED <<stripe, trialOver, status, stored, grace, handler, trialJob, graceJob,
                   faults>>

\* reactivateSubscription in the trial.
BackInTrial ==
    /\ CallIn("back")
    /\ status' = "trialing" /\ stored' = NoSub
    /\ Hung
    /\ UNCHANGED <<stripe, trialOver, grace, cancelAt, handler, trialJob, graceJob, faults>>

\* Stripe fails, or the process: the call ends where it is.
HangUp ==
    /\ panel # NoCall
    /\ Hung
    /\ UNCHANGED <<stripe, trialOver, salon, handler, trialJob, graceJob, faults>>

-----------------------------------------------------------------------------
(* The jobs: each lists the salon, then updates it.                        *)

\* Mutant: only trials with a subscription end.
SubscribedTrial == status = "trialing" /\ trialOver /\ stored # NoSub

ExpiredTrial == status = "trialing" /\ trialOver

ListTrial ==
    /\ trialJob = NoList
    /\ ExpiredTrial
    /\ trialJob' = [pc |-> "listed", stored |-> stored, ending |-> cancelAt = "past"]
    /\ UNCHANGED <<stripe, trialOver, salon, handler, panel, graceJob, faults>>

EndTrial ==
    /\ trialJob.pc = "listed"
    /\ trialJob' = NoList
    /\ LET pays == trialJob.stored # NoSub /\ ~trialJob.ending IN
       IF status = "trialing"
       THEN /\ status' = IF pays THEN "active" ELSE "cancelled"
            /\ cancelAt' = IF trialJob.stored # NoSub /\ ~pays THEN "none" ELSE cancelAt
       ELSE UNCHANGED <<status, cancelAt>>
    /\ UNCHANGED <<stripe, trialOver, stored, grace, handler, panel, graceJob, faults>>

ListGrace ==
    /\ graceJob = "idle"
    /\ status = "past_due" /\ grace = "over"
    /\ graceJob' = "listed"
    /\ UNCHANGED <<stripe, trialOver, salon, handler, panel, trialJob, faults>>

Suspend ==
    /\ graceJob = "listed"
    /\ graceJob' = "idle"
    /\ status' = "suspended"
    /\ UNCHANGED <<stripe, trialOver, stored, grace, cancelAt, handler, panel, trialJob,
                   faults>>

-----------------------------------------------------------------------------

InStripe(s) == Pay(s) \/ Renew(s) \/ ChargeFails(s) \/ Expire(s)

Handle(h) == \/ Read(h) \/ Ask(h) \/ AskOther(h) \/ CancelDuplicate(h) \/ Write(h)
             \/ Close(h) \/ Recover(h) \/ Credit(h) \/ Late(h) \/ Answer(h)

Owner == \/ Begin \/ OpenCheckout \/ CancelAtEnd \/ NoteEnd \/ CancelNow \/ CloseSalon
         \/ RenewInStripe \/ NoteRenewal \/ BackInTrial \/ HangUp

Jobs == ListTrial \/ EndTrial \/ ListGrace \/ Suspend

Next == \/ \E s \in Subs : InStripe(s)
        \/ \E e \in Events : SendAgain(e) \/ \E h \in scene.handlers : Claim(h, e)
        \/ \E h \in Handlers : Handle(h) \/ Fail(h) \/ Die(h)
        \/ Time \/ Owner \/ Jobs

Spec == Init /\ [][Next]_vars

(* Stripe charges each period, ends what is to end, and tries an event     *)
(* until it is answered; a handler goes on unless it fails or dies, and    *)
(* the jobs run every hour.  Nobody has to pay, fail, subscribe or cancel. *)
FairSpec == /\ Spec
            /\ WF_vars(Time)
            /\ WF_vars(ListTrial \/ EndTrial)
            /\ \A s \in Subs : /\ WF_vars(Renew(s))
                              /\ WF_vars(Expire(s))
                              /\ SF_vars(\E h \in scene.handlers : Claim(h, <<"live", s>>))
            /\ \A h \in Handlers : WF_vars(Handle(h))

-----------------------------------------------------------------------------
(* Properties.                                                             *)

\* Every variable keeps its shape.
TypeOK ==
    /\ sub \in [Subs -> [st : {"none", "open", "trialing", "active", "past_due",
                              "canceled"}, ending : BOOLEAN]]
    /\ event \in [Events -> {"quiet", "sent", "claimed", "answered"}]
    /\ credits \in [Subs -> [1..Lines -> Nat]]
    /\ torn \in [Subs -> Nat]
    /\ status \in {"trialing", "active", "past_due", "suspended", "cancelled"}
    /\ stored \in Subs \cup {NoSub}
    /\ grace \in {"none", "open", "over"} /\ cancelAt \in {"none", "ahead", "past"}

(* However often Stripe sends an invoice, wherever its handling fails or   *)
(* dies, and whoever handles it meanwhile, a bundle on it reaches the      *)
(* wallet once: once more only for a handling that failed between two      *)
(* lines, which the next repeats from the first, and the last line never.  *)
CreditedUnlessTorn ==
    \A s \in Subs, n \in 1..Lines :
       credits[s][n] <= 1 + (IF n < Lines THEN torn[s] ELSE 0)

(* Two subscriptions never go on billing one salon: of two checkouts paid  *)
(* side by side, the webhook keeps one and ends the other, in whatever     *)
(* order their events arrive and though some die with their process.       *)
OneBills == []<>(Cardinality({s \in Subs : sub[s].st = "active"}) <= 1)

(* No "perpetual free tier": a salon whose trial is over stops trialing    *)
(* for good, whatever an activation computed before its end writes after.  *)
TrialIsOver == <>[](trialOver => status # "trialing")

(* "An older subscription ending (the salon has since paid for another     *)
(* one) must not lock the account": the end of a subscription cancels the  *)
(* salon only while that one is its own.                                   *)
OlderEndIgnored ==
    [][\A h \in Handlers :
          (At(h, "close") /\ handler'[h].pc = "answer" /\ status' # status)
              => stored \in {NoSub, Of(h)}]_vars
=============================================================================
