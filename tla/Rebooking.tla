------------------------------ MODULE Rebooking ------------------------------
(***************************************************************************)
(* The "vuelve a reservar" reminders of one client                         *)
(* (rebooking-dispatcher.service.ts, client-cadence.service.ts): her       *)
(* cadence row, recomputed after each visit and each change of the salon's *)
(* settings, and the dispatchers that read it every hour, claim it and     *)
(* email her.                                                              *)
(*                                                                         *)
(* A moment is kept as what matters of it: how many times she had          *)
(* completed the service by then, plus one, so that 0 is never.            *)
(***************************************************************************)
EXTENDS Naturals, Sequences, SequencesExt, FiniteSetsExt

CONSTANTS
    Services,
    Senders,      \* ticks of the dispatcher, of one backend or of several
    Computes,     \* computeForClient calls in flight
    Scenes,       \* who is at work in a run, and what else may happen
    MinChoices,   \* what the salon may set "minimo de visitas" to
    History,      \* service -> her visits so far
    MaxFailed,    \* failed sends of a day before the cycle is skipped
    MaxVisits,    \* bound: visits of each service from now on
    MaxDeaths,    \* bound: senders that die
    NoService

Happenings == {"visit", "stop", "switch", "save", "off", "die", "ask"}

ASSUME NoServiceAssumption == NoService \notin Services
ASSUME ScenesAssumption ==
    \A x \in Scenes : /\ x.services \subseteq Services
                      /\ x.senders \subseteq Senders
                      /\ x.computes \subseteq Computes
                      /\ x.happens \subseteq Happenings
                      /\ x.saves \in Nat
ASSUME BoundsAssumption == /\ History \in [Services -> Nat]
                           /\ MinChoices \cup {MaxFailed, MaxVisits} \subseteq Nat

VARIABLES
    scene,        \* which of Scenes this is
    settings,     \* rebookingSettings, with the number of its last change
    offered,      \* the services the salon offers
    visits,       \* service -> completed visits
    appt,         \* her next appointment
    booked,       \* services whose booking has yet to cancel reminders
    refused,      \* she refused promotions, or her address is suppressed
    cadence,      \* her ClientCadence row
    rows,         \* her RebookingReminder rows, in order, but the failed ones
    failures,     \* service -> its rows that failed in the last day
    sender,       \* sender -> where it is, and what it read
    compute,      \* computeForClient call -> where it is, and what it read
    again,        \* recomputeAgain: a save during a run
    deaths,
    overwritten   \* history: a computation overwrote one of newer settings

salon == <<scene, settings, offered>>
client == <<visits, appt, booked, refused>>
sending == <<rows, failures, sender, deaths>>
computing == <<compute, again, overwritten>>
vars == <<salon, client, cadence, sending, computing>>

Resting == [pc |-> "idle", service |-> NoService, stats |-> "none",
            sentFor |-> [s \in Services |-> 0]]
Still == [pc |-> "idle", run |-> FALSE, min |-> 0, version |-> 0,
          visits |-> [s \in Services |-> 0]]
NoAppt == [at |-> "none", service |-> NoService]
NoStats == [s \in Services |-> "none"]

Fresh == [due |-> "none", service |-> NoService, stats |-> NoStats,
          sentFor |-> [s \in Services |-> 0], claimed |-> FALSE,
          optedOut |-> FALSE, version |-> 0]

\* Her history may have been looked at already.
Regulars == {s \in offered : visits[s] >= Max({2, settings.min})}
Computed(s) == [Fresh EXCEPT !.due = "due", !.service = s, !.stats[s] = "regular"]

Happens(x) == x \in scene.happens

Init ==
    /\ scene \in Scenes
    /\ settings \in [enabled : BOOLEAN, min : MinChoices, version : {0}]
    /\ offered = scene.services
    /\ visits = [s \in Services |-> IF s \in offered THEN History[s] ELSE 0]
    /\ appt = NoAppt
    /\ booked = {}
    /\ refused = FALSE
    /\ cadence \in {Fresh} \cup {Computed(s) : s \in Regulars}
    /\ rows = <<>>
    /\ failures = [s \in Services |-> 0]
    /\ sender = [w \in Senders |-> Resting]
    /\ compute = [c \in Computes |-> Still]
    /\ again = FALSE
    /\ deaths = 0
    /\ overwritten = FALSE

Now(s) == visits[s] + 1

\* completedSince: she completed the service after the moment t.
CompletedSince(s, t) == visits[s] >= t

-----------------------------------------------------------------------------
(* Her visits, and what they set off.                                      *)

\* afterAppointmentCreated: cancelPending is not waited for.
Book(s) ==
    /\ Happens("visit") /\ appt = NoAppt /\ visits[s] < History[s] + MaxVisits
    /\ s \in offered
    /\ appt' = [at |-> "upcoming", service |-> s]
    /\ booked' = booked \cup {s}
    /\ UNCHANGED <<salon, visits, refused, cadence, sending, computing>>

CancelPending(s) ==
    /\ s \in booked
    /\ booked' = booked \ {s}
    /\ rows' = [n \in DOMAIN rows |->
                  IF rows[n].service = s /\ rows[n].status = "scheduled"
                  THEN [rows[n] EXCEPT !.status = "cancelled"] ELSE rows[n]]
    /\ UNCHANGED <<salon, visits, appt, refused, cadence, failures, sender,
                   deaths, computing>>

\* Its hour comes: no longer upcoming.
Begins ==
    /\ appt.at = "upcoming"
    /\ appt' = [appt EXCEPT !.at = "begun"]
    /\ UNCHANGED <<salon, visits, booked, refused, cadence, sending, computing>>

CancelAppt ==
    /\ appt # NoAppt
    /\ appt' = NoAppt
    /\ UNCHANGED <<salon, visits, booked, refused, cadence, sending, computing>>

Rests(c) == c \in scene.computes /\ compute[c] = Still

Asked(c, run) == [compute EXCEPT ![c] = [Still EXCEPT !.pc = "settings",
                                                      !.run = run]]

\* The visit is completed, and computeForClient called and not waited for.
Complete(c) ==
    /\ appt # NoAppt /\ Rests(c)
    /\ visits' = [visits EXCEPT ![appt.service] = @ + 1]
    /\ appt' = NoAppt
    /\ compute' = Asked(c, FALSE)
    /\ UNCHANGED <<salon, booked, refused, cadence, sending, again, overwritten>>

\* GET prediction, POST recompute.
Predict(c) ==
    /\ Happens("ask") /\ Rests(c)
    /\ compute' = Asked(c, FALSE)
    /\ UNCHANGED <<salon, client, cadence, sending, again, overwritten>>

\* The unsubscribe link, or a bounce: the suppression list comes first.
Refuse ==
    /\ Happens("stop") /\ ~refused
    /\ refused' = TRUE
    /\ UNCHANGED <<salon, visits, appt, booked, cadence, sending, computing>>

\* ... and the cadence later; optOutClient does only this.
OptOut ==
    /\ Happens("stop") /\ ~cadence.optedOut
    /\ cadence' = [cadence EXCEPT !.optedOut = TRUE, !.due = "none"]
    /\ UNCHANGED <<salon, client, sending, computing>>

-----------------------------------------------------------------------------
(* The salon's settings, and the recompute in the background.              *)

Running == \E c \in Computes : compute[c].run

\* updateConfig; recomputeTenantInBackground: one run at a time, and once
\* more for a save made meanwhile.
Save ==
    /\ Happens("save") \/ Happens("off")
    /\ \E enabled, lead \in BOOLEAN, min \in MinChoices :
        LET asks == \/ lead \/ min # settings.min
                    \/ enabled /\ ~settings.enabled
        IN
        /\ enabled # settings.enabled => Happens("off")
        /\ lead \/ min # settings.min => Happens("save")
        /\ settings' = [enabled |-> enabled, min |-> min,
                        version |-> settings.version + (IF asks THEN 1 ELSE 0)]
        /\ settings'.version <= scene.saves /\ settings' # settings
        /\ IF ~asks THEN UNCHANGED <<compute, again>>
           ELSE IF Running THEN again' = TRUE /\ UNCHANGED compute
           ELSE /\ \E c \in Computes : Rests(c) /\ compute' = Asked(c, TRUE)
                /\ again' = FALSE
    /\ UNCHANGED <<scene, offered, client, cadence, sending, overwritten>>

SwitchService(s) ==
    /\ Happens("switch") /\ s \in scene.services
    /\ offered' = IF s \in offered THEN offered \ {s} ELSE offered \cup {s}
    /\ UNCHANGED <<scene, settings, client, cadence, sending, computing>>

\* Mutant: a save during a run is taken for the run's own.
OnceIsEnough(c) == FALSE

GoesRound(c) == compute[c].run /\ again

Finish(c) ==
    IF GoesRound(c)
    THEN compute' = Asked(c, TRUE) /\ again' = FALSE
    ELSE /\ compute' = [compute EXCEPT ![c] = Still]
         /\ again' = IF compute[c].run THEN FALSE ELSE again

\* computeForClient, from the settings as it finds them...
ReadSettings(c) ==
    /\ compute[c].pc = "settings"
    /\ compute' = [compute EXCEPT ![c] =
          [@ EXCEPT !.pc = IF settings.enabled THEN "visits" ELSE "empty",
                    !.min = settings.min, !.version = settings.version]]
    /\ UNCHANGED <<salon, client, cadence, sending, again, overwritten>>

Written(c, new) ==
    /\ cadence' = [new EXCEPT !.version = compute[c].version]
    /\ overwritten' = (overwritten \/ compute[c].version < cadence.version)
    /\ Finish(c)
    /\ UNCHANGED <<salon, client, sending>>

\* ... without statistics when the reminders are off, and the date as it was.
WriteEmpty(c) ==
    /\ compute[c].pc = "empty"
    /\ Written(c, [cadence EXCEPT !.stats = NoStats])

ReadVisits(c) ==
    /\ compute[c].pc = "visits"
    /\ compute' = [compute EXCEPT ![c].pc = "write", ![c].visits = visits]
    /\ UNCHANGED <<salon, client, cadence, sending, again, overwritten>>

Known(c) == {s \in Services : compute[c].visits[s] >= compute[c].min}

\* The mean of no intervals is not a number, and no date prints it.
Unprintable(c) == \E s \in Known(c) : compute[c].visits[s] = 1

\* The statistics are the dates' affair; of the candidates, the earliest.
WriteCadence(c) ==
    /\ compute[c].pc = "write" /\ ~Unprintable(c)
    /\ \E varied \in SUBSET Known(c) :
          LET stats == [s \in Services |->
                          IF s \notin Known(c) THEN "none"
                          ELSE IF s \in varied THEN "irregular" ELSE "regular"]
          IN
          IF Known(c) = {}
          THEN Written(c, [cadence EXCEPT !.stats = stats, !.due = "none",
                                          !.service = NoService])
          ELSE \E s \in Known(c), due \in {"ahead", "due"} :
                  Written(c, [cadence EXCEPT !.stats = stats, !.due = due,
                                             !.service = s])

\* It throws, and the caller logs it.
ComputeThrows(c) ==
    /\ compute[c].pc = "write" /\ Unprintable(c)
    /\ Finish(c)
    /\ UNCHANGED <<salon, client, cadence, sending, overwritten>>

-----------------------------------------------------------------------------
(* Time.                                                                   *)

FallsDue ==
    /\ cadence.due = "ahead"
    /\ cadence' = [cadence EXCEPT !.due = "due"]
    /\ UNCHANGED <<salon, client, sending, computing>>

\* Due for more than OVERDUE_WINDOW_DAYS.
GrowsOld ==
    /\ cadence.due = "due"
    /\ cadence' = [cadence EXCEPT !.due = "old"]
    /\ UNCHANGED <<salon, client, sending, computing>>

Early == {"idle", "listed", "batch"}
NobodySends == \A w \in Senders : sender[w].pc \in Early

\* Mutant: a claim without a lease.
NoLease == FALSE

\* CLAIM_LEASE_MS: longer than any dispatch of one client.
LeaseLapses ==
    /\ cadence.claimed /\ NobodySends
    /\ cadence' = [cadence EXCEPT !.claimed = FALSE]
    /\ UNCHANGED <<salon, client, sending, computing>>

\* Failed sends are counted for a day; nothing else is asked of their rows.
DayPasses ==
    /\ NobodySends
    /\ \E s \in Services : failures[s] # 0
    /\ failures' = [s \in Services |-> 0]
    /\ UNCHANGED <<salon, client, cadence, rows, sender, deaths, computing>>

-----------------------------------------------------------------------------
(* A tick of the dispatcher, from the list to the client.                  *)

At(w, pc) == sender[w].pc = pc
Goes(w, pc) == sender' = [sender EXCEPT ![w].pc = pc]
Ends(w) == sender' = [sender EXCEPT ![w] = Resting]

\* Not this cycle, but at the next one when the cycle is known.
Skips(w) == IF sender[w].stats = "none" THEN Ends(w) ELSE Goes(w, "advance")

OnlySender == UNCHANGED <<salon, client, cadence, rows, failures, deaths,
                          computing>>

\* runDailyTick: due, and in nobody's hands.
List(w) ==
    /\ w \in scene.senders /\ At(w, "idle")
    /\ cadence.due = "due" /\ ~cadence.optedOut /\ ~cadence.claimed
    /\ Goes(w, "listed") /\ OnlySender

\* processTenantBatch
CheckSalon(w) ==
    /\ At(w, "listed")
    /\ IF settings.enabled THEN Goes(w, "batch") ELSE Ends(w)
    /\ OnlySender

\* processOne: the conditional update of dispatchClaimedAt.
Claim(w) ==
    /\ At(w, "batch")
    /\ IF ~cadence.claimed
       THEN cadence' = [cadence EXCEPT !.claimed = TRUE] /\ Goes(w, "claimed")
       ELSE Ends(w) /\ UNCHANGED cadence
    /\ UNCHANGED <<salon, client, rows, failures, deaths, computing>>

\* The row as it is now: no longer the one listed, perhaps.
Read(w) ==
    /\ At(w, "claimed")
    /\ IF cadence.optedOut THEN Ends(w)
       ELSE sender' = [sender EXCEPT ![w] =
              [pc |-> "enabled", service |-> cadence.service,
               stats |-> IF cadence.service = NoService THEN "none"
                         ELSE cadence.stats[cadence.service],
               sentFor |-> cadence.sentFor]]
    /\ OnlySender

CheckEnabled(w) ==
    /\ At(w, "enabled")
    /\ IF settings.enabled /\ sender[w].service # NoService
       THEN Goes(w, "offered") ELSE Ends(w)
    /\ OnlySender

CheckOffered(w) ==
    /\ At(w, "offered")
    /\ IF sender[w].service \in offered THEN Goes(w, "cycle") ELSE Ends(w)
    /\ OnlySender

\* One notice per visit cycle, by what the cadence row remembers...
CheckCycle(w) ==
    /\ At(w, "cycle")
    /\ LET s == sender[w].service
           sent == sender[w].sentFor[s]
       IN  IF sent # 0 /\ ~CompletedSince(s, sent) THEN Ends(w)
           ELSE Goes(w, "row")
    /\ OnlySender

\* Mutant: a reminder that was not recorded as sent does not count.
OnlySent == {"sent"}

StandingStatus == {"scheduled", "sent"}

Standing(s) == {n \in DOMAIN rows : rows[n].service = s
                                    /\ rows[n].status \in StandingStatus}

\* ... and by the newest reminder.
CheckRow(w) ==
    /\ At(w, "row")
    /\ LET s == sender[w].service
           row == rows[Max(Standing(s))]
           since == IF row.sentAt # 0 THEN row.sentAt ELSE row.at
       IN  IF Standing(s) # {} /\ ~CompletedSince(s, since) THEN Ends(w)
           ELSE Goes(w, "upcoming")
    /\ OnlySender

CheckUpcoming(w) ==
    /\ At(w, "upcoming")
    /\ IF appt.at = "upcoming" THEN Ends(w)
       ELSE Goes(w, IF sender[w].stats = "irregular" THEN "advance"
                                                     ELSE "allowed")
    /\ OnlySender

CheckAllowed(w) ==
    /\ At(w, "allowed")
    /\ IF refused THEN Skips(w) ELSE Goes(w, "failures")
    /\ OnlySender

\* Mutant: one failure more is let through.
TooManyByOne(s) == failures[s] > MaxFailed

TooMany(s) == failures[s] >= MaxFailed

CheckFailures(w) ==
    /\ At(w, "failures")
    /\ IF TooMany(sender[w].service) THEN Skips(w) ELSE Goes(w, "create")
    /\ OnlySender

Create(w) ==
    /\ At(w, "create")
    /\ LET s == sender[w].service IN
       rows' = Append(rows, [service |-> s, at |-> Now(s), sentAt |-> 0,
                             status |-> "scheduled", mailed |-> FALSE])
    /\ Goes(w, "deliver")
    /\ UNCHANGED <<salon, client, cadence, failures, deaths, computing>>

\* The sender's own row: nobody creates one while it is at work.
Mine == Len(rows)

\* The email goes out; whether the backend lives to write it down is another
\* matter.
Delivered(w) ==
    /\ At(w, "deliver")
    /\ rows' = [rows EXCEPT ![Mine].mailed = TRUE]
    /\ Goes(w, "sent")
    /\ UNCHANGED <<salon, client, cadence, failures, deaths, computing>>

\* The provider refuses it; there is no address to send it to.
NotDelivered(w) ==
    /\ At(w, "deliver")
    /\ \E pc \in {"failed", "permanent"} : Goes(w, pc)
    /\ OnlySender

\* By id, whatever has become of the row.
RecordSent(w) ==
    /\ At(w, "sent")
    /\ rows' = [rows EXCEPT ![Mine].status = "sent",
                            ![Mine].sentAt = Now(sender[w].service)]
    /\ IF sender[w].stats = "none" THEN Ends(w) ELSE Goes(w, "remember")
    /\ UNCHANGED <<salon, client, cadence, failures, deaths, computing>>

RecordFailed(w) ==
    /\ sender[w].pc \in {"failed", "permanent"}
    /\ rows' = Front(rows)
    /\ failures' = [failures EXCEPT ![sender[w].service] = @ + 1]
    /\ IF At(w, "permanent") THEN Skips(w) ELSE Ends(w)
    /\ UNCHANGED <<salon, client, cadence, deaths, computing>>

\* reminderSentFor is written whole, from what was read at the start.
Remember(w) ==
    /\ At(w, "remember")
    /\ LET s == sender[w].service IN
       cadence' = [cadence EXCEPT
                      !.sentFor = [sender[w].sentFor EXCEPT ![s] = Now(s)]]
    /\ Goes(w, "advance")
    /\ UNCHANGED <<salon, client, rows, failures, deaths, computing>>

\* advanceCycle: now plus her usual cycle, less the days of notice.
Advance(w) ==
    /\ At(w, "advance")
    /\ \E due \in {"ahead", "due"} :
          cadence' = [cadence EXCEPT !.due = due, !.service = sender[w].service]
    /\ Ends(w)
    /\ UNCHANGED <<salon, client, rows, failures, deaths, computing>>

\* The process dies, or a statement throws and the batch goes on.
Dies(w) ==
    /\ Happens("die") /\ ~At(w, "idle") /\ deaths < MaxDeaths
    /\ deaths' = deaths + 1
    /\ Ends(w)
    /\ UNCHANGED <<salon, client, cadence, rows, failures, computing>>

-----------------------------------------------------------------------------

Look(w) == CheckSalon(w) \/ Claim(w) \/ Read(w) \/ CheckEnabled(w)
           \/ CheckOffered(w) \/ CheckCycle(w) \/ CheckRow(w)
           \/ CheckUpcoming(w) \/ CheckAllowed(w) \/ CheckFailures(w)

Send(w) == Create(w) \/ NotDelivered(w) \/ RecordSent(w) \/ RecordFailed(w)
           \/ Remember(w) \/ Advance(w)

Work(w) == List(w) \/ Look(w) \/ Send(w) \/ Delivered(w)

Computing(c) == ReadSettings(c) \/ WriteEmpty(c) \/ ReadVisits(c)
                \/ WriteCadence(c) \/ ComputeThrows(c)

Client == \/ \E s \in Services : Book(s) \/ CancelPending(s) \/ SwitchService(s)
          \/ Begins \/ CancelAppt \/ Refuse \/ OptOut
          \/ \E c \in Computes : Complete(c) \/ Predict(c)

Next == \/ Client \/ Save
        \/ FallsDue \/ GrowsOld \/ LeaseLapses \/ DayPasses
        \/ \E c \in Computes : Computing(c)
        \/ \E w \in Senders : Work(w) \/ Dies(w)

Spec == Init /\ [][Next]_vars

(* The cron ticks and its steps end, leases lapse and days pass; a          *)
(* provider asked again and again takes the email at some time.            *)
FairSpec == /\ Spec
            /\ \A c \in Computes : WF_vars(Computing(c))
            /\ \A w \in Senders : WF_vars(Work(w)) /\ SF_vars(Delivered(w))
            /\ WF_vars(LeaseLapses) /\ SF_vars(DayPasses)

-----------------------------------------------------------------------------
(* Properties.                                                             *)

(* The cadence row and the counters stay what the code's columns may hold;  *)
(* in particular no more sends fail in a day than the limit lets through.   *)
TypeOK ==
    /\ settings.version \in 0..scene.saves
    /\ \A s \in Services : visits[s] \in 0..(History[s] + MaxVisits)
    /\ cadence.due \in {"none", "ahead", "due", "old"}
    /\ cadence.stats \in [Services -> {"none", "regular", "irregular"}]
    /\ failures \in [Services -> 0..MaxFailed]

(* One notice per visit cycle: two emails of one service have a completed   *)
(* visit of it between them, however many ticks overlap, whatever the       *)
(* settings and statistics became meanwhile and wherever a sender died --   *)
(* but for one that died after its email, whose row a booking cancelled.   *)
OncePerCycle ==
    \A m, n \in DOMAIN rows :
        /\ m < n /\ rows[m].mailed /\ rows[n].mailed
        /\ rows[m].service = rows[n].service /\ rows[m].at = rows[n].at
        => rows[m].status = "cancelled"

\* She is to be reminded, nothing is in the way and nobody has.
Owed ==
    /\ scene.senders # {}
    /\ cadence.due = "due" /\ ~cadence.optedOut /\ ~refused
    /\ settings.enabled /\ appt.at # "upcoming"
    /\ cadence.service \in offered
    /\ LET s == cadence.service IN
       /\ cadence.stats[s] = "regular"
       /\ cadence.sentFor[s] # Now(s)
       /\ \A n \in DOMAIN rows :
             rows[n].service = s /\ rows[n].status \in {"scheduled", "sent"}
             => CompletedSince(s, rows[n].at) /\ CompletedSince(s, rows[n].sentAt)

(* Nobody is forgotten: a client to be reminded is, or no longer has to be, *)
(* though sends fail, senders die and others hold her row.                 *)
NobodyIsForgotten == Owed ~> ~Owed

\* With a minimum of one visit, a service visited once has no mean.
Unaveraged == settings.min = 1 /\ \E s \in Services : visits[s] = 1

(* What the salon saves reaches the client it already has: the cadence      *)
(* ends up computed from the last settings, saves during a run included,   *)
(* unless a slower computation of hers wrote what it had read before, or   *)
(* the computation throws.                                                 *)
SettingsReachHer ==
    cadence.version # settings.version
        ~> cadence.version = settings.version \/ overwritten \/ Unaveraged
=============================================================================
