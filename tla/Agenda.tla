------------------------------- MODULE Agenda -------------------------------
(***************************************************************************)
(* The salon's appointment book (appointments.service.ts) and everything   *)
(* that writes to it at once: clients booking online, the team booking,    *)
(* editing and dragging from the panel, status changes, the job that       *)
(* expires unconfirmed bookings, deletions.                                *)
(*                                                                         *)
(* Each call is a request with a program counter, so that its reads and    *)
(* its write are separate steps.  What serialises them in the code is one  *)
(* Postgres advisory lock per salon and day, held to the end of a          *)
(* transaction, and writes conditioned on the status that was read.        *)
(*                                                                         *)
(* One appointment is one stretch of one professional's day; a visit of    *)
(* several services is that stretch too, moved as a whole.                 *)
(***************************************************************************)
EXTENDS Integers, FiniteSets

CONSTANTS
    Appts,        \* appointment ids, each used for at most one booking
    Requests,     \* slots for the calls and job runs in flight at once
    Pros,         \* professionals
    Days,         \* salon days, ordered as their dates are
    Starts,       \* minutes of the day, in ticks, a booking may start at
    DayLength,    \* ticks in a day
    Services,     \* the catalogue
    Duration,     \* [Services -> ticks]: length of a service
    Cleanup,      \* [Services -> ticks]: tidy-up after it (Service.bufferTime)
    Kinds,        \* the kinds of request that occur
    Patches,      \* the sets of columns the body of an edit may carry
    Targets,      \* the statuses that are asked for
    AutoConfirm,  \* Tenant.autoConfirmOnlineBookings
    Faults,       \* subset of {"crash", "txTimeout"}: what may go wrong
    OneEditAtATime, \* TRUE: an appointment has one panel edit in flight at most
    NoAppt, NoReq, NoPlace

Bookings == {"online", "staff", "visit"}
PanelEdits == {"edit", "drag", "rowEdit"}
StatusChanges == {"status", "expire", "link", "settle"}
Updates == PanelEdits \cup StatusChanges
AllKinds == Bookings \cup PanelEdits \cup StatusChanges \cup {"remove"}

Fields == {"pro", "day", "at", "svc"}
Slot == {"pro", "day", "at"}

ASSUME ServicesAssumption ==
    /\ Duration \in [Services -> Nat \ {0}]
    /\ Cleanup \in [Services -> Nat]

ASSUME ClockAssumption == /\ Days \subseteq Nat
                          /\ Starts \subseteq Nat
                          /\ DayLength \in Nat

-----------------------------------------------------------------------------
(* Statuses and the table every change of status is checked against.       *)

Live == {"pending", "confirmed", "in_progress"}
Statuses == Live \cup {"completed", "cancelled", "no_show"}

Transitions ==
    [ pending     |-> {"confirmed", "in_progress", "completed", "cancelled",
                       "no_show"},
      confirmed   |-> {"in_progress", "completed", "cancelled", "no_show"},
      in_progress |-> {"confirmed", "completed", "cancelled"},
      completed   |-> {},
      cancelled   |-> {},
      no_show     |-> {"confirmed"} ]

CanTransition(from, to) == from \in Statuses /\ to \in Transitions[from]

ASSUME ScopeAssumption ==
    /\ Kinds \subseteq AllKinds
    /\ Patches \subseteq SUBSET Fields
    /\ Faults \subseteq {"crash", "txTimeout"}
    /\ Targets \subseteq Statuses
    /\ AutoConfirm \in BOOLEAN
    /\ OneEditAtATime \in BOOLEAN
    /\ NoReq \notin Requests
    /\ NoAppt \notin Appts

(* Where an appointment sits.  A professional is busy from its start to    *)
(* the end of the tidy-up after it; back to back is not a clash.           *)

Place == [pro : Pros, day : Days, at : Starts, svc : Services]

\* p with the columns F taken from q: what an update of those columns leaves.
Merge(p, q, F) == [pro |-> IF "pro" \in F THEN q.pro ELSE p.pro,
                   day |-> IF "day" \in F THEN q.day ELSE p.day,
                   at  |-> IF "at"  \in F THEN q.at  ELSE p.at,
                   svc |-> IF "svc" \in F THEN q.svc ELSE p.svc]

BusyUntil(p) == p.at + Duration[p.svc] + Cleanup[p.svc]

Overlap(p, q) == /\ p.pro = q.pro
                 /\ p.day = q.day
                 /\ p.at < BusyUntil(q)
                 /\ q.at < BusyUntil(p)

EndsToday(p) == p.at + Duration[p.svc] <= DayLength

-----------------------------------------------------------------------------
VARIABLES
    place,        \* appointment -> where it sits
    status,       \* appointment -> its status, "absent" or "deleted"
    origin,       \* appointment -> who booked it
    completions,  \* appointment -> times its completion was followed through
    lock,         \* day -> the request holding the salon's lock of that day
    req           \* request -> what it has read and where it stands

vars == <<place, status, origin, completions, lock, req>>

(* A request: what it does, to which appointment, where the appointment is *)
(* to go and which columns it will write, the status it will write and the *)
(* one it saw, the days it locks.                                          *)
PCs == {"idle", "scan", "lock", "check", "write", "release", "after"}

Request == [pc : PCs, kind : AllKinds \cup {"none"},
            appt : Appts \cup {NoAppt},
            to : Place \cup {NoPlace},
            seenSt : Statuses \cup {"absent"}, stTo : Statuses \cup {"keep"},
            fields : SUBSET Fields, days : SUBSET Days, checked : BOOLEAN]

Unborn == [pc |-> "idle", kind |-> "none", appt |-> NoAppt, to |-> NoPlace,
           seenSt |-> "absent", stTo |-> "keep", fields |-> {},
           days |-> {}, checked |-> FALSE]

Booked(a) == status[a] \in Statuses

\* A cancelled appointment gives its time back; no other status does.
Holds(a) == Booked(a) /\ status[a] # "cancelled"

Free(p, a) == \A b \in Appts \ {a} : Holds(b) => ~Overlap(place[b], p)

\* The day locks without those of r: what the end of its transaction leaves.
Without(r) == [d \in Days |-> IF lock[d] = r THEN NoReq ELSE lock[d]]

InFlight(r) == req[r].pc # "idle"

Editing(r, a) == /\ req[r].pc \in {"lock", "check", "write"}
                 /\ req[r].kind \in PanelEdits
                 /\ req[r].appt = a

MayEdit(a) == OneEditAtATime => \A r \in Requests : ~Editing(r, a)

-----------------------------------------------------------------------------
Init ==
    /\ place = [a \in Appts |-> NoPlace]
    /\ status = [a \in Appts |-> "absent"]
    /\ origin = [a \in Appts |-> "none"]
    /\ completions = [a \in Appts |-> 0]
    /\ lock = [d \in Days |-> NoReq]
    /\ req = [r \in Requests |-> Unborn]

Start(r, fresh) ==
    /\ fresh.kind \in Kinds
    /\ req[r].pc = "idle"
    /\ req' = [req EXCEPT ![r] = fresh]
    /\ UNCHANGED <<place, status, origin, completions, lock>>

(* bookOnline and createByStaff ("visit": with service rows): the caller   *)
(* names the place (an online booking for "any professional" ends up       *)
(* asking for some one of them); the lock of that day comes first.         *)
StartBooking(r) ==
    \E kind \in Bookings, p \in Place :
        Start(r, [Unborn EXCEPT !.pc = "lock", !.kind = kind, !.to = p,
                                !.days = {p.day}])

(* update(), on an appointment without service rows: reads it and plans    *)
(* the whole edit from what it read, before any lock.  A column the body   *)
(* leaves out keeps the value read.  The slot is checked when the edit     *)
(* moves the appointment, lengthens it or lengthens its tidy-up, unless it *)
(* ends up cancelled.                                                      *)
Moves(p, q) == p.pro # q.pro \/ p.day # q.day \/ p.at # q.at

Lengthens(p, q) == \/ Duration[q.svc] > Duration[p.svc]
                   \/ Cleanup[q.svc] > Cleanup[p.svc]

\* Mutant: a longer service or tidy-up is not a reason to check the slot.
NeedsCheckOnlyForMoves(a, p, st) ==
    /\ (IF st = "keep" THEN status[a] ELSE st) # "cancelled"
    /\ Moves(place[a], p)

NeedsCheck(a, p, st) ==
    /\ (IF st = "keep" THEN status[a] ELSE st) # "cancelled"
    /\ Moves(place[a], p) \/ Lengthens(place[a], p)

StartEdit(r) ==
    \E a \in Appts, F \in Patches, p \in Place, st \in Targets \cup {"keep"} :
        /\ Booked(a)
        /\ origin[a] # "visit"
        /\ MayEdit(a)
        /\ p = Merge(place[a], p, F)
        /\ st # "keep" => CanTransition(status[a], st)
        /\ Start(r, [pc      |-> IF NeedsCheck(a, p, st) THEN "lock" ELSE "write",
                     kind    |-> "edit", appt |-> a, to |-> p,
                     seenSt  |-> IF st = "keep" THEN "absent" ELSE status[a],
                     stTo    |-> st, fields |-> F,
                     days    |-> IF NeedsCheck(a, p, st)
                                 THEN {p.day, place[a].day} ELSE {},
                     checked |-> FALSE])

(* applyVisit: the drag of a visit that has service rows.  Its status is   *)
(* looked at here, before the lock; every moved row is written whole.      *)
StartDrag(r) ==
    \E a \in Appts, p \in Place :
        /\ status[a] \in Live
        /\ origin[a] = "visit"
        /\ MayEdit(a)
        /\ p.svc = place[a].svc
        /\ Moves(place[a], p)
        /\ Start(r, [Unborn EXCEPT !.pc = "lock", !.kind = "drag", !.appt = a,
                                   !.to = p,
                                   !.fields = Slot,
                                   !.days = {p.day, place[a].day}])

(* PATCH of one service row (appointment-services.service.ts update): the  *)
(* same slot check as a move, but with no lock and no transaction.         *)
StartRowEdit(r) ==
    \E a \in Appts, F \in Patches, p \in Place :
        /\ Booked(a)
        /\ origin[a] = "visit"
        /\ MayEdit(a)
        /\ F \subseteq Slot
        /\ p = Merge(place[a], p, F)
        /\ Start(r, [Unborn EXCEPT !.pc = IF Moves(place[a], p) THEN "check"
                                                                ELSE "write",
                                   !.kind = "rowEdit", !.appt = a, !.to = p,
                                   !.fields = F])

(* changeStatus: reads the status, looks the change up in the table.       *)
StartStatus(r) ==
    \E a \in Appts, st \in Targets :
        /\ CanTransition(status[a], st)
        /\ Start(r, [Unborn EXCEPT !.pc = "write", !.kind = "status",
                                   !.appt = a, !.seenSt = status[a],
                                   !.stTo = st])

(* Three callers look at the appointment first and only then ask           *)
(* changeStatus, which reads it again: the job that expires online         *)
(* bookings still pending, the client's cancel link, and the payment or    *)
(* last finished service that completes its visit.                         *)
Scanned(kind, a) ==
    \/ kind = "expire" /\ origin[a] = "online" /\ status[a] = "pending"
    \/ kind = "link" /\ origin[a] = "online" /\ status[a] \in Live
    \/ kind = "settle" /\ CanTransition(status[a], "completed")

StartScan(r) ==
    \E kind \in {"expire", "link", "settle"}, a \in Appts :
        /\ Scanned(kind, a)
        /\ Start(r, [Unborn EXCEPT !.pc = "scan", !.kind = kind, !.appt = a,
                                   !.stTo = IF kind = "settle"
                                            THEN "completed" ELSE "cancelled"])

(* remove: history is refused on what was read; the delete comes later.    *)
StartRemove(r) ==
    \E a \in Appts :
        /\ Booked(a)
        /\ status[a] # "completed"
        /\ Start(r, [Unborn EXCEPT !.pc = "write", !.kind = "remove",
                                   !.appt = a])

-----------------------------------------------------------------------------
\* Mutant: locks of the session (pg_advisory_lock), not of the transaction.
FinishKeepingLocks(r) == /\ req' = [req EXCEPT ![r] = Unborn]
                         /\ UNCHANGED lock

\* The end of r's transaction, or of a call that has none.
Finish(r) == /\ req' = [req EXCEPT ![r] = Unborn]
             /\ lock' = Without(r)

Unwritten == UNCHANGED <<place, status, origin, completions>>

\* Mutant: the status read again is not looked up in the table again.
RereadTrustingTheScan(r) ==
    /\ req[r].pc = "scan"
    /\ req' = [req EXCEPT ![r].pc = "write",
                          ![r].seenSt = status[req[r].appt]]
    /\ Unwritten
    /\ UNCHANGED lock

(* changeStatus, called by one of the three scans: the status as it is now.*)
Reread(r) ==
    LET a == req[r].appt IN
    /\ req[r].pc = "scan"
    /\ req' = [req EXCEPT ![r] =
                 IF CanTransition(status[a], req[r].stTo)
                 THEN [@ EXCEPT !.pc = "write", !.seenSt = status[a]]
                 ELSE Unborn]
    /\ Unwritten
    /\ UNCHANGED lock

(* lockBookingDays: one pg_advisory_xact_lock per day, in order.           *)
\* Mutant: in whatever order the days come.
NextLockInAnyOrder(r, d) == d \in req[r].days /\ lock[d] # r

NextLock(r, d) == /\ d \in req[r].days
                  /\ lock[d] # r
                  /\ \A e \in req[r].days : lock[e] # r => d <= e

Acquire(r) ==
    /\ req[r].pc = "lock"
    /\ \E d \in Days :
        /\ NextLock(r, d)
        /\ lock[d] = NoReq
        /\ lock' = [lock EXCEPT ![d] = r]
        /\ req' = [req EXCEPT ![r].pc =
                     IF \A e \in req[r].days \ {d} : lock[e] = r
                     THEN "check" ELSE "lock"]
    /\ Unwritten

(* isSlotFree, assertCanBook, assertCanReschedule: the agenda is read.     *)
Check(r) ==
    /\ req[r].pc = "check"
    /\ Free(req[r].to, req[r].appt)
    /\ EndsToday(req[r].to)
    /\ req' = [req EXCEPT ![r] = [@ EXCEPT !.pc = "write", !.checked = TRUE]]
    /\ Unwritten
    /\ UNCHANGED lock

(* The check fails, or the insert itself refuses: the slot is taken, or    *)
(* the hours, time off, the salon's plan or a blocked client, which are    *)
(* not modelled, stand in the way.                                         *)
Refuse(r) == /\ \/ req[r].pc = "check"
                \/ req[r].pc = "write" /\ req[r].kind \in Bookings
             /\ Finish(r)
             /\ Unwritten

\* Mutant: the appointment is made first and placed later.
InsertUnplaced(a, p, st, from) == /\ status[a] = "absent"
                                  /\ status' = [status EXCEPT ![a] = st]
                                  /\ origin' = [origin EXCEPT ![a] = from]
                                  /\ UNCHANGED <<place, completions>>

\* insertAppointment.
Insert(a, p, st, from) == /\ status[a] = "absent"
                          /\ place' = [place EXCEPT ![a] = p]
                          /\ status' = [status EXCEPT ![a] = st]
                          /\ origin' = [origin EXCEPT ![a] = from]
                          /\ UNCHANGED completions

(* bookOnline inserts through the normal client: the appointment is there  *)
(* for everyone to see while the lock's transaction is still open.         *)
InsertOnline(r) ==
    /\ req[r].pc = "write"
    /\ req[r].kind = "online"
    /\ \E a \in Appts,
         st \in {"pending"} \cup (IF AutoConfirm THEN {"confirmed"} ELSE {}) :
        /\ Insert(a, req[r].to, st, "online")
        /\ req' = [req EXCEPT ![r] = [@ EXCEPT !.pc = "release", !.appt = a]]
    /\ UNCHANGED lock

Release(r) == /\ req[r].pc = "release"
              /\ Finish(r)
              /\ Unwritten

\* createByStaff inserts inside the transaction.
InsertByStaff(r) ==
    /\ req[r].pc = "write"
    /\ req[r].kind \in {"staff", "visit"}
    /\ \E a \in Appts : Insert(a, req[r].to, "pending", req[r].kind)
    /\ Finish(r)

\* Mutant: the row is updated by its id alone.
LandsWhateverTheStatus(r) == Booked(req[r].appt)

(* The update of a row: it must still be there and, when the status is     *)
(* written, still have the status the change was checked against.          *)
Lands(r) == LET q == req[r] IN
    /\ Booked(q.appt)
    /\ q.stTo # "keep" => status[q.appt] = q.seenSt

\* Mutant: a completion that is a by-product is a bare status write.
UpdateWithoutFollowUp(r) ==
    LET q == req[r]  a == req[r].appt IN
    /\ q.pc = "write"
    /\ q.kind \in Updates
    /\ Lands(r)
    /\ place' = [place EXCEPT ![a] = Merge(@, q.to, q.fields)]
    /\ status' = [status EXCEPT ![a] = IF q.stTo = "keep" THEN @ ELSE q.stTo]
    /\ Finish(r)
    /\ UNCHANGED <<origin, completions>>

Update(r) ==
    LET q == req[r]  a == req[r].appt IN
    /\ q.pc = "write"
    /\ q.kind \in Updates
    /\ Lands(r)
    /\ place' = [place EXCEPT ![a] = Merge(@, q.to, q.fields)]
    /\ status' = [status EXCEPT ![a] = IF q.stTo = "keep" THEN @ ELSE q.stTo]
    /\ req' = [req EXCEPT ![r] = IF q.stTo = "completed"
                                 THEN [Unborn EXCEPT !.pc = "after",
                                                     !.kind = q.kind,
                                                     !.appt = a]
                                 ELSE Unborn]
    /\ lock' = Without(r)
    /\ UNCHANGED <<origin, completions>>

\* The row matched nothing (P2025): 404, or 409 STATUS_CHANGED.
Stale(r) == /\ req[r].pc = "write"
            /\ req[r].kind \in Updates
            /\ ~Lands(r)
            /\ Finish(r)
            /\ Unwritten

(* afterStatusChange(completed): invoice, notices, points, commission.     *)
FollowUp(r) ==
    /\ req[r].pc = "after"
    /\ completions' = [completions EXCEPT ![req[r].appt] = @ + 1]
    /\ req' = [req EXCEPT ![r] = Unborn]
    /\ UNCHANGED <<place, status, origin, lock>>

(* deleteAppointmentRow: by id alone.                                      *)
Delete(r) ==
    LET a == req[r].appt IN
    /\ req[r].pc = "write"
    /\ req[r].kind = "remove"
    /\ status' = IF Booked(a) THEN [status EXCEPT ![a] = "deleted"] ELSE status
    /\ Finish(r)
    /\ UNCHANGED <<place, origin, completions>>

-----------------------------------------------------------------------------
(* The instance dies, the database rolls the transaction back, or a panel  *)
(* transaction outlives its timeout: its locks go, and what it had already *)
(* committed stays.                                                        *)
Crash(r) == /\ "crash" \in Faults
            /\ InFlight(r)
            /\ Finish(r)
            /\ Unwritten

(* bookOnline's transaction outlives its 15 s once it has the lock: the    *)
(* lock goes, but the callback works through the normal client and goes on.*)
TxTimeout(r) == /\ "txTimeout" \in Faults
                /\ req[r].kind = "online"
                /\ req[r].pc \in {"check", "write"}
                /\ Without(r) # lock
                /\ lock' = Without(r)
                /\ UNCHANGED req
                /\ Unwritten

-----------------------------------------------------------------------------
Begin(r) == \/ StartBooking(r)
            \/ StartEdit(r)
            \/ StartDrag(r)
            \/ StartRowEdit(r)
            \/ StartStatus(r)
            \/ StartScan(r)
            \/ StartRemove(r)

Proceed(r) == \/ Reread(r)
              \/ Acquire(r)
              \/ Check(r)
              \/ Refuse(r)
              \/ InsertOnline(r)
              \/ Release(r)
              \/ InsertByStaff(r)
              \/ Update(r)
              \/ Stale(r)
              \/ FollowUp(r)
              \/ Delete(r)

Fault(r) == Crash(r) \/ TxTimeout(r)

Next == \E r \in Requests : Begin(r) \/ Proceed(r) \/ Fault(r)

Spec == Init /\ [][Next]_vars

(* A call that was made goes on: the event loop runs its next step.        *)
(* Postgres queues the waiters of a lock, so one that comes free again and *)
(* again is granted in the end.  Nobody has to make a call, and nothing    *)
(* has to fail.                                                            *)
FairSpec == /\ Spec
            /\ \A r \in Requests : WF_vars(Proceed(r)) /\ SF_vars(Acquire(r))

-----------------------------------------------------------------------------
(* Properties.                                                             *)

TypeOK ==
    /\ place \in [Appts -> Place \cup {NoPlace}]
    /\ status \in [Appts -> Statuses \cup {"absent", "deleted"}]
    /\ origin \in [Appts -> {"none", "online", "staff", "visit"}]
    /\ completions \in [Appts -> Nat]
    /\ lock \in [Days -> Requests \cup {NoReq}]
    /\ req \in [Requests -> Request]
    /\ \A a \in Appts : status[a] # "absent" => place[a] \in Place
    /\ \A r \in Requests : req[r].kind \in Bookings \/ req[r].fields # {}
                             => req[r].to \in Place

(* "Never a double booking" (reschedule-check.ts:86): two appointments     *)
(* that hold their time never have the same professional busy at once,     *)
(* tidy-up included, however bookings, moves and cancellations interleave. *)
NoDoubleBooking ==
    \A a, b \in Appts :
        a # b /\ Holds(a) /\ Holds(b) => ~Overlap(place[a], place[b])

(* Every change of status is one the table allows from the status the      *)
(* appointment really had, not from the one somebody read before: a visit  *)
(* completed or cancelled meanwhile stays so.                              *)
StatusFollowsTable ==
    [][\A a \in Appts :
        Booked(a) /\ status'[a] # status[a] /\ status'[a] # "deleted"
            => CanTransition(status[a], status'[a])]_vars

(* "Two complete clicks at once used to both go through and issue two      *)
(* invoices" (changeStatus): whoever completes a visit -- the panel, its   *)
(* payment, its last service, an edit -- its completion is followed        *)
(* through at most once, and only if it was completed.                     *)
CompletedOnce ==
    \A a \in Appts :
        /\ completions[a] <= 1
        /\ completions[a] = 1 => status[a] \in {"completed", "deleted"}

(* Why it holds when every edit is serialised and locked (Disciplined):    *)
(* the state of each call, as an invariant that every step keeps.          *)
Disciplined == /\ OneEditAtATime
               /\ "rowEdit" \notin Kinds
               /\ "txTimeout" \notin Faults

Planning(r) == req[r].pc \in {"lock", "check", "write"}
Checked(r) == req[r].pc = "write" /\ req[r].checked

\* A place that is being checked, or was, is in the days the call locks.
LocksItsDay(r) ==
    req[r].pc \in {"lock", "check"} \/ Checked(r)
        => req[r].to \in Place /\ req[r].to.day \in req[r].days

\* From the check to the write, the days are locked.
HoldsItsDays(r) ==
    req[r].pc \in {"check", "write"} => \A d \in req[r].days : lock[d] = r

\* At the write, the place is still as free as when it was checked.
CheckStillGood(r) == Checked(r) => Free(req[r].to, req[r].appt)

\* Only calls that check their place, and bookings always do.
BookingsAreNew(r) ==
    Planning(r) /\ req[r].kind \in Bookings
        => /\ req[r].appt = NoAppt
           /\ req[r].pc = "write" => req[r].checked

\* Nobody else moves the appointment that an edit has read.
PlanStillFits(r) ==
    LET q == req[r] IN
    Planning(r) /\ q.kind \in PanelEdits
        => /\ q.appt \in Appts
           /\ status[q.appt] # "absent"
           /\ Booked(q.appt) => q.to = Merge(place[q.appt], q.to, q.fields)

\* An edit that was not checked takes no time the appointment did not have.
UncheckedIsHarmless(r) ==
    LET q == req[r] IN
    q.pc = "write" /\ q.kind \in PanelEdits /\ ~q.checked /\ Booked(q.appt)
        => \/ q.stTo = "cancelled"
           \/ status[q.appt] = "cancelled"
           \/ ~Moves(place[q.appt], q.to) /\ ~Lengthens(place[q.appt], q.to)

\* A change of status moves nothing, and was looked up in the table.
StatusWasLookedUp(r) ==
    /\ req[r].kind \in StatusChanges => req[r].fields = {}
    /\ req[r].pc = "scan" => req[r].kind \in StatusChanges /\ req[r].days = {}
    /\ Planning(r) /\ req[r].stTo # "keep"
           => CanTransition(req[r].seenSt, req[r].stTo)

CallOK(r) == /\ LocksItsDay(r)
             /\ HoldsItsDays(r)
             /\ CheckStillGood(r)
             /\ BookingsAreNew(r)
             /\ PlanStillFits(r)
             /\ UncheckedIsHarmless(r)
             /\ StatusWasLookedUp(r)
             /\ req[r].checked => req[r].pc \in {"write", "release"}
             /\ req[r].kind \in Updates \cup {"remove"} => req[r].appt \in Appts
             /\ req[r].kind # "rowEdit"

OneEditor == \A r, s \in Requests, a \in Appts :
                 Editing(r, a) /\ Editing(s, a) => r = s

AgendaInv == /\ NoDoubleBooking
             /\ OneEditor
             /\ \A r \in Requests : CallOK(r)

(* A lock is held only by a call in flight that asked for that day: no     *)
(* ending of a call leaves the salon's day locked.                         *)
LocksHaveOwners ==
    \A d \in Days : lock[d] # NoReq =>
        /\ req[lock[d]].pc \in {"lock", "check", "write", "release"}
        /\ d \in req[lock[d]].days

(* "In order so two callers never wait on each other" (lockBookingDays):   *)
(* every call that was made ends.                                          *)
CallsEnd == \A r \in Requests : InFlight(r) ~> ~InFlight(r)

(* Unless the instance dies in between, a visit that was completed gets    *)
(* its invoice, notices and points.                                        *)
CompletionsFollowed ==
    \A a \in Appts : status[a] = "completed" ~> completions[a] = 1
=============================================================================
