----------------------------- MODULE Campaigns -----------------------------
(***************************************************************************)
(* One email campaign of a salon (email-campaigns/): the panel's calls,    *)
(* and the background senders that email its recipients a batch at a time  *)
(* while the month's allowance lasts (email-quota.service.ts).  Each       *)
(* statement of a sender is a step: none of this runs in a transaction.    *)
(***************************************************************************)
EXTENDS Naturals, FiniteSets, FiniteSetsExt

CONSTANTS
    Recipients,   \* naturals, in the order they were added
    Senders,      \* backend processes
    Salons,       \* who a salon may reach, and the processes that run
    Kinds,        \* the panel's calls a run looks at
    Cap,          \* the plan's emails of a month
    MaxTries,     \* MAX_SEND_ATTEMPTS
    MaxMonths,    \* bound: months that pass
    Bono,         \* emails of a bono bought before
    MaxDeaths     \* bound: processes that die

ASSUME SalonsAssumption ==
    /\ Recipients \subseteq Nat /\ IsFiniteSet(Recipients) /\ IsFiniteSet(Senders)
    /\ \A x \in Salons : x.clients \subseteq Recipients /\ x.senders \subseteq Senders
ASSUME KindsAssumption ==
    Kinds \subseteq {"schedule", "unschedule", "send", "add", "retry"}
ASSUME BoundsAssumption ==
    {Cap, MaxTries, Bono} \subseteq Nat /\ MaxMonths \in Nat \ {0}

VARIABLES
    salon,            \* one of Salons: never changes
    status, paused,   \* the campaign: its status, and capPausedAt
    row,              \* recipient -> status, attempts, nextAttemptAt passed, sentAt
    blocked,          \* who refused promotions, or is on the suppression list
    month, planSent,  \* the salon's month; month -> emails of the plan taken
    credits,          \* what is left of the bono
    panel,            \* the call under way
    sender,           \* sender -> where its run is
    deaths, wasted    \* processes that died; slots they held

campaign == <<salon, status, paused, row, blocked>>
quota == <<month, planSent, credits>>
fate == <<deaths, wasted>>
vars == <<campaign, quota, panel, sender, fate>>

Months == 1..MaxMonths
Nobody == [r \in {} |-> 0]
NoSlot == [from |-> "none", month |-> 0]
Resting == [pc |-> "idle", batch |-> Nobody, skip |-> {}, month |-> 0,
            slot |-> NoSlot, outcome |-> "none"]
NoCall == [kind |-> "none", pc |-> "none"]

Init ==
    /\ salon \in Salons
    /\ status = "draft" /\ paused = FALSE
    /\ row = [r \in Recipients |->
                [status |-> "absent", tries |-> 0, due |-> TRUE, sentAt |-> FALSE]]
    /\ blocked = {}
    /\ month = 1 /\ planSent = [m \in Months |-> 0]
    /\ credits = Bono
    /\ panel = NoCall
    /\ sender = [s \in Senders |-> Resting]
    /\ deaths = 0 /\ wasted = 0

With(st) == {r \in Recipients : row[r].status \in st}

Room == (planSent[month] < Cap) \/ credits > 0

-----------------------------------------------------------------------------
(* The panel.  A call looks at the campaign first and writes later.        *)

From(kind) == CASE kind = "schedule"         -> {"draft"}
                [] kind = "unschedule"       -> {"scheduled"}
                [] kind \in {"send", "add"}  -> {"draft", "scheduled"}
                [] kind = "retry"            -> {"sent"}

\* Mutant: set going as a re-engagement campaign is.
ToActive(kind) == CASE kind = "schedule"   -> "scheduled"
                    [] kind = "unschedule" -> "draft"
                    [] OTHER               -> "active"

To(kind) == CASE kind = "schedule"   -> "scheduled"
              [] kind = "unschedule" -> "draft"
              [] OTHER               -> "sending"

Ask ==
    /\ panel = NoCall
    /\ \E kind \in Kinds :
          /\ status \in From(kind)
          /\ kind \in {"schedule", "send"} => With({"pending"}) # {}
          /\ panel' = [kind |-> kind,
                       pc |-> IF kind = "add" THEN "add" ELSE "claim"]
    /\ UNCHANGED <<campaign, quota, sender, fate>>

\* Mutant: what was read is still so.
AsRead(kind) == TRUE

StillFrom(kind) == status \in From(kind)

\* The conditional update of the status.
ClaimCampaign ==
    /\ panel.pc = "claim"
    /\ IF StillFrom(panel.kind)
       THEN /\ status' = To(panel.kind)
            /\ panel' = IF panel.kind = "retry"
                        THEN [panel EXCEPT !.pc = "reset"] ELSE NoCall
       ELSE panel' = NoCall /\ UNCHANGED status
    /\ UNCHANGED <<salon, blocked, paused, row, quota, sender, fate>>

\* retryFailed: the failed ones go back in the queue...
Reset ==
    /\ panel.pc = "reset"
    /\ LET failed == With({"failed"}) IN
       /\ row' = [r \in Recipients |->
                    IF r \in failed
                    THEN [row[r] EXCEPT !.status = "pending", !.tries = 0,
                                        !.due = TRUE]
                    ELSE row[r]]
       /\ panel' = IF failed = {} THEN [panel EXCEPT !.pc = "undo"] ELSE NoCall
    /\ UNCHANGED <<salon, blocked, status, paused, quota, sender, fate>>

\* ... and with none, the campaign is as it was.
Undo ==
    /\ panel.pc = "undo"
    /\ status' = IF status = "sending" THEN "sent" ELSE status
    /\ panel' = NoCall
    /\ UNCHANGED <<salon, blocked, paused, row, quota, sender, fate>>

\* addRecipients: those who may be reached and are not on the list.
AddRecipients ==
    /\ panel.pc = "add"
    /\ \E new \in SUBSET {r \in salon.clients \ blocked :
                           row[r].status = "absent"} :
          row' = [r \in Recipients |->
                    IF r \in new THEN [row[r] EXCEPT !.status = "pending"]
                    ELSE row[r]]
    /\ panel' = NoCall
    /\ UNCHANGED <<salon, blocked, status, paused, quota, sender, fate>>

\* She unsubscribes, or refuses promotions in her account.
Refuse(r) ==
    /\ blocked' = blocked \cup {r}
    /\ UNCHANGED <<salon, status, paused, row, quota, panel, sender, fate>>

NewMonth ==
    /\ month < MaxMonths
    /\ month' = month + 1
    /\ UNCHANGED <<campaign, planSent, credits, panel, sender, fate>>

\* A wait is over, or the lease of a send whose process died: a live one
\* takes less than the ten minutes it holds.
WaitOver(r) ==
    /\ ~row[r].due
    /\ \A s \in Senders : ~(sender[s].pc \in {"send", "write", "giveBack"}
                             /\ Min(DOMAIN sender[s].batch) = r)
    /\ row' = [row EXCEPT ![r].due = TRUE]
    /\ UNCHANGED <<salon, blocked, status, paused, quota, panel, sender, fate>>

-----------------------------------------------------------------------------
(* A run of a sender: startDue, resumePaused, sendBatches.                 *)

At(s, pc) == sender[s].pc = pc
Goto(s, pc) == sender' = [sender EXCEPT ![s].pc = pc]
Cur(s) == Min(DOMAIN sender[s].batch)

\* A scheduled campaign whose time has come, or to draft with nobody on it.
StartDue(s) ==
    /\ At(s, "idle")
    /\ status = "scheduled"
    /\ status' = IF With({"pending"}) = {} THEN "draft" ELSE "sending"
    /\ UNCHANGED <<salon, blocked, paused, row, quota, panel, sender, fate>>

\* resumePaused: with room again, it goes on.
Resume(s) ==
    /\ At(s, "idle")
    /\ status = "sending" /\ paused /\ Room
    /\ paused' = FALSE
    /\ UNCHANGED <<salon, blocked, status, row, quota, panel, sender, fate>>

Load(s) ==
    /\ At(s, "idle")
    /\ status = "sending" /\ ~paused
    /\ Goto(s, "pick")
    /\ UNCHANGED <<campaign, quota, panel, fate>>

\* Mutant: a lease is never over.
NothingLapsed == {}

Lapsed == {r \in With({"sending"}) : row[r].due}

\* sendBatch: the recovery sweep, then the due recipients with their tries;
\* who of them is out, and the month; with none, whether anybody waits is
\* asked next.
Pick(s) ==
    /\ At(s, "pick")
    /\ row' = [r \in Recipients |->
                 IF r \in Lapsed THEN [row[r] EXCEPT !.status = "pending"]
                 ELSE row[r]]
    /\ LET due == {r \in Recipients :
                      row'[r].status = "pending" /\ row'[r].due} IN
       sender' = [sender EXCEPT ![s] = [@ EXCEPT
           !.pc = IF due = {} THEN "count" ELSE "next",
           !.batch = [r \in due |-> row[r].tries],
           !.skip = blocked \cap due,
           !.month = IF due = {} THEN 0 ELSE month]]
    /\ UNCHANGED <<salon, blocked, status, paused, quota, panel, fate>>

\* Those not done with, claimed ones included.
Waiting == With({"pending", "sending"})

Count(s) ==
    /\ At(s, "count")
    /\ Goto(s, IF Waiting = {} THEN "finish" ELSE "idle")
    /\ UNCHANGED <<campaign, quota, panel, fate>>

Finish(s) ==
    /\ At(s, "finish")
    /\ status' = IF status = "sending" THEN "sent" ELSE status
    /\ Goto(s, "idle")
    /\ UNCHANGED <<salon, blocked, paused, row, quota, panel, fate>>

\* The batch without its first recipient.
Rest(s) == LET left == DOMAIN sender[s].batch \ {Cur(s)} IN
    IF left = {} THEN Resting
    ELSE [sender[s] EXCEPT !.pc = "next", !.slot = NoSlot, !.outcome = "none",
                           !.skip = sender[s].skip \cap left,
                           !.batch = [r \in left |-> sender[s].batch[r]]]

\* One who is out is marked so, by her id.
Skip(s) ==
    /\ At(s, "next") /\ Cur(s) \in sender[s].skip
    /\ row' = [row EXCEPT ![Cur(s)] = [@ EXCEPT !.status = "suppressed", !.due = TRUE]]
    /\ sender' = [sender EXCEPT ![s] = Rest(s)]
    /\ UNCHANGED <<salon, blocked, status, paused, quota, panel, fate>>

\* Mutant: the plan's emails are looked at when the batch begins.
PlanHadRoom(m) == TRUE

PlanHasRoom(m) == planSent[m] < Cap

\* reserve: one of the month's emails, else one of the bono.
ReservePlan(s) ==
    /\ At(s, "next") /\ Cur(s) \notin sender[s].skip
    /\ LET m == sender[s].month IN
       IF PlanHasRoom(m)
       THEN /\ planSent' = [planSent EXCEPT ![m] = @ + 1]
            /\ sender' = [sender EXCEPT ![s] = [@ EXCEPT !.pc = "claim",
                            !.slot = [from |-> "plan", month |-> m]]]
       ELSE Goto(s, "pack") /\ UNCHANGED planSent
    /\ UNCHANGED <<campaign, month, credits, panel, fate>>

ReservePack(s) ==
    /\ At(s, "pack")
    /\ IF credits > 0
       THEN /\ credits' = credits - 1
            /\ sender' = [sender EXCEPT ![s] = [@ EXCEPT !.pc = "claim",
                            !.slot = [from |-> "pack", month |-> 0]]]
       ELSE Goto(s, "pause") /\ UNCHANGED credits
    /\ UNCHANGED <<campaign, month, planSent, panel, fate>>

\* None left: the campaign waits, the rest of its list pending.
Pause(s) ==
    /\ At(s, "pause")
    /\ paused' = (paused \/ status = "sending")
    /\ sender' = [sender EXCEPT ![s] = Resting]
    /\ UNCHANGED <<salon, blocked, status, row, quota, panel, fate>>

\* Mutant: she was pending when the batch was read.
WasPending(r) == TRUE

StillPending(r) == row[r].status = "pending"

Claim(s) ==
    /\ At(s, "claim")
    /\ LET r == Cur(s) IN
       IF StillPending(r)
       THEN /\ row' = [row EXCEPT ![r] = [@ EXCEPT !.status = "sending", !.due = FALSE,
                            !.tries = Min({row[r].tries + 1, MaxTries})]]
            /\ Goto(s, "send")
       ELSE /\ sender' = [sender EXCEPT ![s] = [@ EXCEPT
                            !.pc = "giveBack", !.outcome = "notMine"]]
            /\ UNCHANGED row
    /\ UNCHANGED <<salon, blocked, status, paused, quota, panel, fate>>

\* The provider takes it, or not: for good, for now, or (429) nothing more.
\* The idempotency key makes a second one of the same row an answer only.
Send(s) ==
    /\ At(s, "send")
    /\ \E answer \in {"sent", "refused", "later", "tooMany"} :
          LET again == sender[s].batch[Cur(s)] + 1 < MaxTries
              outcome == IF answer \in {"later", "tooMany"} /\ ~again
                         THEN "refused" ELSE answer
          IN  sender' = [sender EXCEPT ![s] = [@ EXCEPT
                  !.outcome = outcome,
                  !.pc = IF outcome = "sent" THEN "write" ELSE "giveBack"]]
    /\ UNCHANGED <<campaign, quota, panel, fate>>

SlotOf(s) == sender[s].slot

\* release: to the month it was taken from, or to the bono.
GiveBack(s) ==
    /\ At(s, "giveBack")
    /\ LET slot == SlotOf(s) IN
       IF slot.from = "plan"
       THEN /\ planSent' = [planSent EXCEPT
                              ![slot.month] = IF @ > 0 THEN @ - 1 ELSE 0]
            /\ UNCHANGED credits
       ELSE /\ credits' = credits + 1
            /\ UNCHANGED planSent
    /\ sender' = [sender EXCEPT ![s] =
                    IF @.outcome = "notMine" THEN Rest(s)
                    ELSE [@ EXCEPT !.pc = "write", !.slot = NoSlot]]
    /\ UNCHANGED <<campaign, month, panel, fate>>

\* What became of her email, written by her id.
Write(s) ==
    /\ At(s, "write")
    /\ LET outcome == sender[s].outcome
           r == Cur(s)
       IN  /\ row' = [row EXCEPT ![r] =
                CASE outcome = "sent"    -> [@ EXCEPT !.status = "sent",
                                                !.due = TRUE, !.sentAt = TRUE]
                  [] outcome = "refused" -> [@ EXCEPT !.status = "failed",
                                                !.due = TRUE]
                  [] OTHER               -> [@ EXCEPT !.status = "pending",
                                                !.due = FALSE]]
           /\ sender' = [sender EXCEPT ![s] =
                           IF outcome = "tooMany" THEN Resting ELSE Rest(s)]
    /\ UNCHANGED <<salon, blocked, status, paused, quota, panel, fate>>

\* A process dies: a slot it held is never given back.
Die(s) ==
    /\ sender[s].pc # "idle"
    /\ deaths < MaxDeaths
    /\ deaths' = deaths + 1
    /\ wasted' = IF sender[s].slot = NoSlot THEN wasted ELSE wasted + 1
    /\ sender' = [sender EXCEPT ![s] = Resting]
    /\ UNCHANGED <<campaign, quota, panel>>

-----------------------------------------------------------------------------

Manage == ClaimCampaign \/ Reset \/ Undo \/ AddRecipients

Run(s) == \/ Resume(s) \/ Load(s) \/ Pick(s)
          \/ Count(s) \/ Finish(s) \/ Skip(s)
          \/ ReservePlan(s) \/ ReservePack(s) \/ Pause(s) \/ Claim(s)
          \/ Send(s) \/ GiveBack(s) \/ Write(s)

Next == \/ Ask \/ Manage \/ NewMonth
        \/ \E r \in salon.clients : Refuse(r) \/ WaitOver(r)
        \/ \E s \in salon.senders : StartDue(s) \/ Run(s) \/ Die(s)

Spec == Init /\ [][Next]_vars

(* A sender runs every minute and goes on once it has begun, a call of the *)
(* panel ends, a wait and a lease run out.  No month has to pass, nobody   *)
(* has to press anything, and the provider may refuse whatever it likes.   *)
FairSpec == /\ Spec
            /\ WF_vars(Manage)
            /\ \A r \in Recipients : WF_vars(WaitOver(r))
            /\ \A s \in Senders : WF_vars(s \in salon.senders /\ Run(s))

-----------------------------------------------------------------------------
(* Properties.                                                             *)

\* Every variable keeps its shape.
TypeOK ==
    /\ status \in {"draft", "scheduled", "sending", "sent"}
    /\ paused \in BOOLEAN /\ blocked \subseteq Recipients
    /\ row \in [Recipients ->
          [status : {"absent", "pending", "sending", "sent", "failed",
                     "suppressed"},
           tries : 0..MaxTries, due : BOOLEAN, sentAt : BOOLEAN]]
    /\ month \in Months /\ planSent \in [Months -> Nat]
    /\ credits \in Nat

Holding == {s \in Senders : sender[s].slot # NoSlot}

(* The month's emails and the bono are what the rows say went out: every    *)
(* one taken is an email sent, one about to be, or one a dead process held, *)
(* whoever gave one back after midnight; no month gives more than the plan. *)
EmailsAddUp ==
    /\ MapThenSumSet(LAMBDA m : planSent[m], Months) + (Bono - credits)
         = Cardinality(Holding) + wasted
           + Cardinality({r \in Recipients : row[r].sentAt})
    /\ \A m \in Months : planSent[m] <= Cap

(* "A recipient is claimed before its email goes out, so two runs never    *)
(* email her twice": no two senders send to one recipient at once.         *)
OneSenderEach ==
    \A s, t \in Senders :
        (/\ s # t
         /\ sender[s].pc \in {"send", "write"}
         /\ sender[t].pc \in {"send", "write"}) => Cur(s) # Cur(t)

(* A campaign that began to send is never a draft or scheduled again,      *)
(* whichever of the panel and the scheduler came first: it could be edited *)
(* and sent anew while a sender is emailing it.                            *)
NeverUnsent ==
    [][(status \in {"sending", "sent"}) => (status' \in {"sending", "sent"})]_vars

(* A campaign that is sending ends, or has used up the month and the bono: *)
(* no death, lost answer, pause or retry leaves it sending for ever.       *)
SendingEnds == []<>(status # "sending" \/ ~Room)

(* "The recipients whose email could not be sent go back in the queue and  *)
(* the campaign sends again": nobody is left waiting in a campaign that    *)
(* began, unless the allowance is used up.                                 *)
EveryoneIsHandled ==
    \A r \in Recipients :
        (status \in {"sending", "sent"} /\ r \in Waiting)
            ~> (r \notin Waiting \/ ~Room)
=============================================================================
