---------------------------- MODULE AgendaProofs ----------------------------
(***************************************************************************)
(* Proofs about Agenda, for every number of appointments, calls, days and  *)
(* professionals, every catalogue and every length of day.                 *)
(***************************************************************************)
EXTENDS Agenda, TLAPS

(* A type of a request is kept by what a step writes into it.              *)
LEMMA UnbornIsRequest == Unborn \in Request
  BY DEF Unborn, Request, PCs

LEMMA MergeIsPlace ==
    ASSUME NEW p \in Place, NEW q \in Place, NEW F PROVE Merge(p, q, F) \in Place
  BY DEF Merge, Place

LEMMA WithoutIsLock ==
    ASSUME TypeOK, NEW r
    PROVE  Without(r) \in [Days -> Requests \cup {NoReq}]
  BY DEF Without, TypeOK

LEMMA TypeStart ==
    ASSUME TypeOK, NEW r \in Requests, NEW fresh \in Request, Start(r, fresh),
           fresh.kind \in Bookings \/ fresh.fields # {} => fresh.to \in Place
    PROVE  TypeOK'
  BY DEF TypeOK, Start

LEMMA TypeBegin ==
    ASSUME TypeOK, NEW r \in Requests, Begin(r) PROVE TypeOK'
<1> USE DEF Request, PCs, AllKinds, Updates, Bookings, PanelEdits, StatusChanges,
            Statuses, Live
<1>1. CASE StartBooking(r)
  <2>1. PICK kind \in Bookings, p \in Place :
          Start(r, [Unborn EXCEPT !.pc = "lock", !.kind = kind, !.to = p,
                                  !.days = {p.day}])
    BY <1>1 DEF StartBooking
  <2>2. [Unborn EXCEPT !.pc = "lock", !.kind = kind, !.to = p,
                       !.days = {p.day}] \in Request
    BY DEF Unborn, Place
  <2>3. [Unborn EXCEPT !.pc = "lock", !.kind = kind, !.to = p,
                       !.days = {p.day}].to = p
    BY DEF Unborn
  <2> HIDE DEF Request
  <2> QED BY <2>1, <2>2, <2>3, TypeStart
<1>2. CASE StartEdit(r)
  <2>1. PICK a \in Appts, F \in Patches, p \in Place, st \in Targets \cup {"keep"} :
          /\ Booked(a)
          /\ Start(r, [pc |-> IF NeedsCheck(a, p, st) THEN "lock" ELSE "write",
                       kind |-> "edit", appt |-> a, to |-> p,
                       seenSt |-> IF st = "keep" THEN "absent" ELSE status[a],
                       stTo |-> st, fields |-> F,
                       days |-> IF NeedsCheck(a, p, st)
                                THEN {p.day, place[a].day} ELSE {},
                       checked |-> FALSE])
    BY <1>2 DEF StartEdit
  <2>2. place[a] \in Place /\ status[a] \in Statuses
    BY <2>1 DEF Booked, TypeOK
  <2>3. {p.day, place[a].day} \in SUBSET Days
    BY <2>2 DEF Place
  <2>4. st \in Statuses \cup {"keep"} /\ F \in SUBSET Fields
    BY ScopeAssumption
  <2>5. [pc |-> IF NeedsCheck(a, p, st) THEN "lock" ELSE "write",
         kind |-> "edit", appt |-> a, to |-> p,
         seenSt |-> IF st = "keep" THEN "absent" ELSE status[a],
         stTo |-> st, fields |-> F,
         days |-> IF NeedsCheck(a, p, st) THEN {p.day, place[a].day} ELSE {},
         checked |-> FALSE] \in Request
    BY <2>2, <2>3, <2>4
  <2> HIDE DEF Request
  <2> QED BY <2>1, <2>5, TypeStart
<1>3. CASE StartDrag(r)
  <2>1. PICK a \in Appts, p \in Place :
          /\ status[a] \in Live
          /\ Start(r, [Unborn EXCEPT !.pc = "lock", !.kind = "drag", !.appt = a,
                                     !.to = p,
                                     !.fields = Slot,
                                     !.days = {p.day, place[a].day}])
    BY <1>3 DEF StartDrag
  <2>2. {p.day, place[a].day} \in SUBSET Days
    BY <2>1 DEF Place, TypeOK
  <2>3. Slot \in SUBSET Fields
    BY DEF Slot, Fields
  <2>4. [Unborn EXCEPT !.pc = "lock", !.kind = "drag", !.appt = a, !.to = p,
                       !.fields = Slot,
                       !.days = {p.day, place[a].day}] \in Request
    BY <2>2, <2>3 DEF Unborn
  <2>5. [Unborn EXCEPT !.pc = "lock", !.kind = "drag", !.appt = a, !.to = p,
                       !.fields = Slot,
                       !.days = {p.day, place[a].day}].to = p
    BY DEF Unborn
  <2> HIDE DEF Request
  <2> QED BY <2>1, <2>4, <2>5, TypeStart
<1>4. CASE StartRowEdit(r)
  <2>1. PICK a \in Appts, F \in Patches, p \in Place :
          Start(r, [Unborn EXCEPT !.pc = IF Moves(place[a], p) THEN "check"
                                                               ELSE "write",
                                  !.kind = "rowEdit", !.appt = a, !.to = p,
                                  !.fields = F])
    BY <1>4 DEF StartRowEdit
  <2>2. PICK pc \in PCs :
          Start(r, [Unborn EXCEPT !.pc = pc, !.kind = "rowEdit", !.appt = a,
                                  !.to = p, !.fields = F])
    <3>1. CASE Moves(place[a], p)
      BY <2>1, <3>1
    <3>2. CASE ~Moves(place[a], p)
      BY <2>1, <3>2
    <3> QED BY <3>1, <3>2
  <2>3. [Unborn EXCEPT !.pc = pc, !.kind = "rowEdit", !.appt = a, !.to = p,
                       !.fields = F] \in Request
    BY ScopeAssumption DEF Unborn
  <2> QED BY <2>2, <2>3, TypeStart DEF Unborn
<1>5. CASE StartStatus(r)
  <2>1. PICK a \in Appts, st \in Targets :
          /\ CanTransition(status[a], st)
          /\ Start(r, [Unborn EXCEPT !.pc = "write", !.kind = "status",
                                     !.appt = a, !.seenSt = status[a],
                                     !.stTo = st])
    BY <1>5 DEF StartStatus
  <2>2. [Unborn EXCEPT !.pc = "write", !.kind = "status", !.appt = a,
                       !.seenSt = status[a], !.stTo = st] \in Request
    BY <2>1, ScopeAssumption DEF Unborn, CanTransition
  <2> QED BY <2>1, <2>2, TypeStart DEF Unborn
<1>6. CASE StartScan(r)
  <2>1. PICK kind \in {"expire", "link", "settle"}, a \in Appts :
          Start(r, [Unborn EXCEPT !.pc = "scan", !.kind = kind, !.appt = a,
                                  !.stTo = IF kind = "settle"
                                           THEN "completed" ELSE "cancelled"])
    BY <1>6 DEF StartScan
  <2>2. PICK st \in Statuses :
          Start(r, [Unborn EXCEPT !.pc = "scan", !.kind = kind, !.appt = a,
                                  !.stTo = st])
    <3>1. CASE kind = "settle"
      BY <2>1, <3>1
    <3>2. CASE kind # "settle"
      BY <2>1, <3>2
    <3> QED BY <3>1, <3>2
  <2>3. [Unborn EXCEPT !.pc = "scan", !.kind = kind, !.appt = a,
                       !.stTo = st] \in Request
    BY DEF Unborn
  <2> QED BY <2>2, <2>3, TypeStart DEF Unborn
<1>7. CASE StartRemove(r)
  <2>1. PICK a \in Appts :
          Start(r, [Unborn EXCEPT !.pc = "write", !.kind = "remove", !.appt = a])
    BY <1>7 DEF StartRemove
  <2>2. [Unborn EXCEPT !.pc = "write", !.kind = "remove", !.appt = a] \in Request
    BY DEF Unborn
  <2> QED BY <2>1, <2>2, TypeStart DEF Unborn
<1> QED
  BY <1>1, <1>2, <1>3, <1>4, <1>5, <1>6, <1>7 DEF Begin

(* What every ending of a call leaves well typed.                          *)
LEMMA TypeFinish ==
    ASSUME TypeOK, NEW r \in Requests, Finish(r)
    PROVE  /\ req' \in [Requests -> Request]
           /\ lock' \in [Days -> Requests \cup {NoReq}]
           /\ \A s \in Requests : req'[s].kind \in Bookings \/ req'[s].fields # {}
                                      => req'[s].to \in Place
<1>1. Unborn.fields = {} /\ Unborn.kind \notin Bookings
  BY DEF Unborn, Bookings
<1> QED
  BY <1>1, UnbornIsRequest, WithoutIsLock DEF Finish, TypeOK

(* A booking that is inserted.                                             *)
LEMMA TypeInsert ==
    ASSUME TypeOK, NEW a \in Appts, NEW p \in Place, NEW st \in Statuses,
           NEW from \in {"online", "staff", "visit"}, Insert(a, p, st, from)
    PROVE  /\ place' \in [Appts -> Place \cup {NoPlace}]
           /\ status' \in [Appts -> Statuses \cup {"absent", "deleted"}]
           /\ origin' \in [Appts -> {"none", "online", "staff", "visit"}]
           /\ completions' \in [Appts -> Nat]
           /\ \A b \in Appts : status'[b] # "absent" => place'[b] \in Place
  BY DEF TypeOK, Insert

LEMMA TypeProceed ==
    ASSUME TypeOK, NEW r \in Requests, Proceed(r) \/ Fault(r) PROVE TypeOK'
<1>0. req[r] \in Request
  BY DEF TypeOK
<1>1. CASE Reread(r)
  <2>1. CanTransition(status[req[r].appt], req[r].stTo)
          => status[req[r].appt] \in Statuses
    BY DEF CanTransition
  <2>2. CASE CanTransition(status[req[r].appt], req[r].stTo)
    <3> DEFINE q == [req[r] EXCEPT !.pc = "write",
                                   !.seenSt = status[req[r].appt]]
    <3>1. q \in Request /\ q.kind = req[r].kind /\ q.fields = req[r].fields
            /\ q.to = req[r].to
      BY <1>0, <2>1, <2>2 DEF Request, PCs
    <3>2. req' = [req EXCEPT ![r] = q]
      BY <1>1, <2>2 DEF Reread
    <3> HIDE DEF q
    <3> QED BY <1>1, <3>1, <3>2 DEF Reread, Unwritten, TypeOK
  <2>3. CASE ~CanTransition(status[req[r].appt], req[r].stTo)
    <3>1. req' = [req EXCEPT ![r] = Unborn]
      BY <1>1, <2>3 DEF Reread
    <3>2. Unborn.fields = {} /\ Unborn.kind \notin Bookings
      BY DEF Unborn, Bookings
    <3> QED BY <1>1, <3>1, <3>2, UnbornIsRequest DEF Reread, Unwritten, TypeOK
  <2> QED BY <2>2, <2>3
<1>2. CASE Acquire(r)
  <2>1. req' \in [Requests -> Request]
    BY <1>2 DEF Acquire, TypeOK, Request, PCs
  <2>2. lock' \in [Days -> Requests \cup {NoReq}]
    BY <1>2 DEF Acquire, TypeOK
  <2>3. \A s \in Requests : req'[s].kind = req[s].kind /\ req'[s].to = req[s].to
                              /\ req'[s].fields = req[s].fields
    BY <1>2 DEF Acquire, TypeOK, Request
  <2> QED BY <1>2, <2>1, <2>2, <2>3 DEF Acquire, Unwritten, TypeOK
<1>3. CASE Check(r)
  <2> DEFINE q == [req[r] EXCEPT !.pc = "write", !.checked = TRUE]
  <2>1. q \in Request /\ q.kind = req[r].kind /\ q.fields = req[r].fields
          /\ q.to = req[r].to
    BY <1>0 DEF Request, PCs
  <2>2. req' = [req EXCEPT ![r] = q]
    BY <1>3 DEF Check
  <2> HIDE DEF q
  <2> QED BY <1>3, <2>1, <2>2 DEF Check, Unwritten, TypeOK
<1>4. CASE Refuse(r) \/ Release(r) \/ Stale(r) \/ Crash(r)
  BY <1>4, TypeFinish DEF Refuse, Release, Stale, Crash, Unwritten, TypeOK
<1>5. CASE InsertOnline(r)
  <2>1. PICK a \in Appts, st \in Statuses :
          /\ Insert(a, req[r].to, st, "online")
          /\ req' = [req EXCEPT ![r] = [@ EXCEPT !.pc = "release", !.appt = a]]
    BY <1>5 DEF InsertOnline, Statuses, Live
  <2>2. req[r].to \in Place
    BY <1>5 DEF InsertOnline, TypeOK, Bookings
  <2> DEFINE q == [req[r] EXCEPT !.pc = "release", !.appt = a]
  <2>3. q \in Request /\ q.kind = req[r].kind /\ q.fields = req[r].fields
          /\ q.to = req[r].to
    BY <1>0 DEF Request, PCs
  <2>4. req' = [req EXCEPT ![r] = q]
    BY <2>1
  <2> HIDE DEF q
  <2>5. /\ req' \in [Requests -> Request]
        /\ \A s \in Requests : req'[s].kind \in Bookings \/ req'[s].fields # {}
                                   => req'[s].to \in Place
    BY <2>3, <2>4 DEF TypeOK
  <2>6. lock' = lock
    BY <1>5 DEF InsertOnline
  <2> QED BY <2>1, <2>2, <2>5, <2>6, TypeInsert DEF TypeOK
<1>6. CASE InsertByStaff(r)
  <2>1. PICK a \in Appts : Insert(a, req[r].to, "pending", req[r].kind)
    BY <1>6 DEF InsertByStaff
  <2>2. /\ req[r].to \in Place
        /\ req[r].kind \in {"online", "staff", "visit"}
        /\ "pending" \in Statuses
    BY <1>6 DEF InsertByStaff, TypeOK, Bookings, Statuses, Live
  <2>3. Finish(r)
    BY <1>6 DEF InsertByStaff
  <2> QED BY <2>1, <2>2, <2>3, TypeInsert, TypeFinish DEF TypeOK
<1>7. CASE Update(r)
  <2> DEFINE a == req[r].appt
             p == Merge(place[a], req[r].to, req[r].fields)
             q == [Unborn EXCEPT !.pc = "after", !.kind = req[r].kind, !.appt = a]
  <2>1. Booked(a)
    BY <1>7 DEF Update, Lands
  <2>2. a \in Appts => p \in Place
    <3>1. CASE req[r].fields = {}
      BY <2>1, <3>1 DEF Merge, Booked, TypeOK, Statuses, Live, Place
    <3>2. CASE req[r].fields # {}
      BY <2>1, <3>2, MergeIsPlace DEF Booked, TypeOK, Statuses, Live
    <3> QED BY <3>1, <3>2
  <2>3. q \in Request /\ q.fields = {}
    BY <1>0 DEF Unborn, Request, PCs
  <2>4. q.kind \notin Bookings
    BY <1>7 DEF Update, Unborn, Updates, PanelEdits, StatusChanges, Bookings
  <2>5. Unborn.fields = {} /\ Unborn.kind \notin Bookings
    BY DEF Unborn, Bookings
  <2>6. req' = [req EXCEPT ![r] = q] \/ req' = [req EXCEPT ![r] = Unborn]
    BY <1>7 DEF Update
  <2>7. req[r].stTo \in Statuses \cup {"keep"}
    BY <1>0 DEF Request
  <2>8. /\ place' = [place EXCEPT ![a] = p]
        /\ status' = [status EXCEPT ![a] = req[r].stTo] \/ status' = status
        /\ lock' = Without(r)
        /\ UNCHANGED <<origin, completions>>
        /\ req[r].stTo = "keep" => status' = status
    BY <1>7 DEF Update, TypeOK
  <2> HIDE DEF a, p, q
  <2>9. /\ req' \in [Requests -> Request]
        /\ \A s \in Requests : req'[s].kind \in Bookings \/ req'[s].fields # {}
                                   => req'[s].to \in Place
    BY <2>3, <2>4, <2>5, <2>6, UnbornIsRequest DEF TypeOK
  <2>10. place' \in [Appts -> Place \cup {NoPlace}]
    BY <2>2, <2>8 DEF TypeOK
  <2>11. status' \in [Appts -> Statuses \cup {"absent", "deleted"}]
    BY <2>7, <2>8 DEF TypeOK
  <2>12. \A b \in Appts : status'[b] # "absent" => place'[b] \in Place
    BY <2>1, <2>2, <2>8 DEF TypeOK, Booked
  <2> QED BY <2>8, <2>9, <2>10, <2>11, <2>12, WithoutIsLock DEF TypeOK
<1>8. CASE FollowUp(r)
  <2>1. Unborn.fields = {} /\ Unborn.kind \notin Bookings
    BY DEF Unborn, Bookings
  <2>2. completions' \in [Appts -> Nat]
    <3>1. \A b \in Appts : completions[b] \in Nat /\ completions[b] + 1 \in Nat
      BY DEF TypeOK
    <3>2. completions' = [completions EXCEPT ![req[r].appt] = @ + 1]
      BY <1>8 DEF FollowUp
    <3>3. completions \in [Appts -> Nat]
      BY DEF TypeOK
    <3> QED BY <3>1, <3>2, <3>3
  <2> QED BY <1>8, <2>1, <2>2, UnbornIsRequest DEF FollowUp, TypeOK
<1>9. CASE Delete(r)
  <2>1. Finish(r)
    BY <1>9 DEF Delete
  <2>2. /\ status' \in [Appts -> Statuses \cup {"absent", "deleted"}]
        /\ \A b \in Appts : status'[b] # "absent" => place'[b] \in Place
        /\ UNCHANGED <<place, origin, completions>>
    BY <1>9 DEF Delete, TypeOK, Booked, Statuses, Live
  <2> QED BY <2>1, <2>2, TypeFinish DEF TypeOK
<1>10. CASE TxTimeout(r)
  BY <1>10, WithoutIsLock DEF TxTimeout, Unwritten, TypeOK
<1> QED
  BY <1>1, <1>2, <1>3, <1>4, <1>5, <1>6, <1>7, <1>8, <1>9, <1>10
     DEF Proceed, Fault

(* The agenda is always well formed: every appointment that was ever made  *)
(* sits somewhere, every call in flight is one of the kinds there are.     *)
THEOREM TypeCorrect == Spec => []TypeOK
<1>1. Init => TypeOK
  BY UnbornIsRequest DEF Init, TypeOK, Unborn, Bookings
<1>2. TypeOK /\ [Next]_vars => TypeOK'
  <2>1. TypeOK /\ UNCHANGED vars => TypeOK'
    BY DEF TypeOK, vars
  <2> QED BY <2>1, TypeBegin, TypeProceed DEF Next
<1> QED BY <1>1, <1>2, PTL DEF Spec

-----------------------------------------------------------------------------
(* No double booking.  A write either checked its place, holding the lock  *)
(* of its day, or takes no time its appointment did not have.              *)

Shrunk(p, q) == /\ ~Moves(p, q)
                /\ BusyUntil(q) <= BusyUntil(p)

LEMMA BusyIsNat == ASSUME NEW p \in Place PROVE /\ p.at \in Nat
                                                /\ BusyUntil(p) \in Nat
<1>1. p.at \in Nat /\ p.svc \in Services
  BY ClockAssumption DEF Place
<1>2. Duration[p.svc] \in Nat /\ Cleanup[p.svc] \in Nat
  BY <1>1, ServicesAssumption
<1> QED BY <1>1, <1>2 DEF BusyUntil

LEMMA OverlapIsSymmetric ==
    ASSUME NEW p, NEW q PROVE Overlap(p, q) <=> Overlap(q, p)
  BY DEF Overlap

LEMMA ShrunkStaysClear ==
    ASSUME NEW p \in Place, NEW q \in Place, NEW b \in Place, Shrunk(p, q),
           ~Overlap(b, p)
    PROVE  ~Overlap(b, q)
<1>1. /\ p.at \in Nat /\ BusyUntil(p) \in Nat
      /\ q.at \in Nat /\ BusyUntil(q) \in Nat
      /\ b.at \in Nat /\ BusyUntil(b) \in Nat
  BY BusyIsNat
<1> QED BY <1>1 DEF Overlap, Shrunk, Moves

LEMMA UnlengthenedIsShrunk ==
    ASSUME NEW p \in Place, NEW q \in Place, ~Moves(p, q), ~Lengthens(p, q)
    PROVE  Shrunk(p, q)
<1>1. /\ p.at \in Nat /\ p.svc \in Services
      /\ q.at = p.at /\ q.svc \in Services
  BY ClockAssumption DEF Place, Moves
<1>2. /\ Duration[p.svc] \in Nat /\ Cleanup[p.svc] \in Nat
      /\ Duration[q.svc] \in Nat /\ Cleanup[q.svc] \in Nat
  BY <1>1, ServicesAssumption
<1> QED BY <1>1, <1>2 DEF Shrunk, Lengthens, BusyUntil

(* One write to one appointment leaves nobody double booked, and leaves    *)
(* every other call's check as good as it was.                             *)
LEMMA OneWrite ==
    ASSUME TypeOK, TypeOK', AgendaInv, NEW w \in Requests, NEW a \in Appts,
           \A b \in Appts \ {a} : place'[b] = place[b] /\ (Holds(b)' => Holds(b)),
           Holds(a)' => \/ Holds(a) /\ Shrunk(place[a], place'[a])
                        \/ /\ Checked(w)
                           /\ place'[a] = req[w].to
                           /\ req[w].appt \in {a, NoAppt}
    PROVE  /\ NoDoubleBooking'
           /\ \A r \in Requests \ {w} :
                Checked(r) => \A b \in Appts \ {req[r].appt} :
                    Holds(b)' => ~Overlap(place'[b], req[r].to)
<1>1. \A b \in Appts : Holds(b) => place[b] \in Place
  BY DEF TypeOK, Holds, Booked, Statuses, Live
<1>2. \A b \in Appts : Holds(b)' => place'[b] \in Place
  BY DEF TypeOK, Holds, Booked, Statuses, Live
<1>3. ASSUME NEW b \in Appts, b # a, Holds(b)', Holds(a)'
      PROVE  ~Overlap(place'[b], place'[a])
  <2>1. Holds(b) /\ place'[b] = place[b] /\ place[b] \in Place
    BY <1>1, <1>3
  <2>2. CASE Holds(a) /\ Shrunk(place[a], place'[a])
    <3>1. ~Overlap(place[b], place[a])
      BY <2>1, <2>2, <1>3 DEF AgendaInv, NoDoubleBooking
    <3> QED BY <1>1, <1>2, <1>3, <2>1, <2>2, <3>1, ShrunkStaysClear
  <2>3. CASE Checked(w) /\ place'[a] = req[w].to /\ req[w].appt \in {a, NoAppt}
    <3>1. Free(req[w].to, req[w].appt) /\ b # req[w].appt
      BY <2>3, <1>3, ScopeAssumption DEF AgendaInv, CallOK, CheckStillGood
    <3> QED BY <2>1, <2>3, <3>1 DEF Free
  <2> QED BY <1>3, <2>2, <2>3
<1>4. NoDoubleBooking'
  <2> SUFFICES ASSUME NEW b \in Appts, NEW c \in Appts, b # c, Holds(b)', Holds(c)'
               PROVE  ~Overlap(place'[b], place'[c])
    BY DEF NoDoubleBooking
  <2>1. CASE b = a
    BY <2>1, <1>3, OverlapIsSymmetric
  <2>2. CASE c = a
    BY <2>2, <1>3
  <2>3. CASE b # a /\ c # a
    BY <2>3 DEF AgendaInv, NoDoubleBooking
  <2> QED BY <2>1, <2>2, <2>3
<1>5. ASSUME NEW r \in Requests, r # w, Checked(r),
             NEW b \in Appts, b # req[r].appt, Holds(b)'
      PROVE  ~Overlap(place'[b], req[r].to)
  <2>1. /\ Free(req[r].to, req[r].appt)
        /\ req[r].to \in Place
        /\ lock[req[r].to.day] = r
    BY <1>5 DEF AgendaInv, CallOK, CheckStillGood, LocksItsDay, HoldsItsDays,
                Checked
  <2>2. CASE b # a
    BY <2>1, <2>2, <1>5 DEF Free
  <2>3. CASE b = a /\ Holds(a) /\ Shrunk(place[a], place'[a])
    <3>1. ~Overlap(place[a], req[r].to)
      BY <2>1, <2>3, <1>5 DEF Free
    <3>2. ~Overlap(req[r].to, place'[a])
      BY <1>1, <1>2, <1>5, <2>1, <2>3, <3>1, OverlapIsSymmetric, ShrunkStaysClear
    <3> QED BY <2>3, <3>2, OverlapIsSymmetric
  <2>4. CASE b = a /\ Checked(w) /\ place'[a] = req[w].to
    <3>1. lock[req[w].to.day] = w
      BY <2>4 DEF AgendaInv, CallOK, LocksItsDay, HoldsItsDays, Checked
    <3>2. req[w].to.day # req[r].to.day
      BY <2>1, <3>1, <1>5
    <3> QED BY <2>4, <3>2 DEF Overlap
  <2> QED BY <1>5, <2>2, <2>3, <2>4
<1> QED BY <1>4, <1>5

(* A call that is not the one that moves keeps its part of the invariant,  *)
(* as long as its locks, its check and what it read stay good.             *)
LEMMA OthersKeep ==
    ASSUME TypeOK, AgendaInv, NEW r \in Requests,
           req'[r] = req[r],
           \A d \in Days : lock[d] = r => lock'[d] = r,
           Checked(r) => \A b \in Appts \ {req[r].appt} :
                             Holds(b)' => ~Overlap(place'[b], req[r].to),
           Planning(r) /\ req[r].kind \in PanelEdits
               => LET a == req[r].appt IN
                  /\ place'[a] = place[a]
                  /\ status'[a] # "absent"
                  /\ Booked(a)' => Booked(a)
                  /\ Booked(a)' /\ status[a] = "cancelled"
                        => status'[a] = "cancelled"
    PROVE  CallOK(r)'
<1>1. CallOK(r)
  BY DEF AgendaInv
<1>2. LocksItsDay(r)' /\ BookingsAreNew(r)' /\ StatusWasLookedUp(r)'
  BY <1>1 DEF CallOK, LocksItsDay, BookingsAreNew, StatusWasLookedUp, Checked, Planning
<1>3. HoldsItsDays(r)'
  BY <1>1 DEF CallOK, HoldsItsDays, TypeOK, Request
<1>4. CheckStillGood(r)'
  BY DEF CheckStillGood, Checked, Free
<1>5. PlanStillFits(r)'
  BY <1>1 DEF CallOK, PlanStillFits, Planning
<1>6. UncheckedIsHarmless(r)'
  BY <1>1 DEF CallOK, UncheckedIsHarmless, Planning
<1> QED BY <1>1, <1>2, <1>3, <1>4, <1>5, <1>6 DEF CallOK

(* A step that writes no appointment.                                      *)
LEMMA QuietStep ==
    ASSUME TypeOK, AgendaInv, NEW w \in Requests,
           UNCHANGED <<place, status>>,
           \A r \in Requests \ {w} : req'[r] = req[r],
           \A r \in Requests \ {w}, d \in Days : lock[d] = r => lock'[d] = r,
           CallOK(w)',
           \A a \in Appts : Editing(w, a)'
               => \A r \in Requests \ {w} : ~Editing(r, a)
    PROVE  AgendaInv'
<1>1. \A b \in Appts : Holds(b)' <=> Holds(b)
  BY DEF Holds, Booked
<1>2. NoDoubleBooking'
  BY <1>1 DEF AgendaInv, NoDoubleBooking
<1>3. ASSUME NEW r \in Requests, r # w PROVE CallOK(r)'
  <2>1. CallOK(r)
    BY DEF AgendaInv
  <2>2. Checked(r) => \A b \in Appts \ {req[r].appt} :
                          Holds(b)' => ~Overlap(place'[b], req[r].to)
    BY <2>1, <1>1 DEF CallOK, CheckStillGood, Free
  <2>3. Planning(r) /\ req[r].kind \in PanelEdits
            => status[req[r].appt] # "absent"
    BY <2>1 DEF CallOK, PlanStillFits
  <2> QED BY <1>3, <2>2, <2>3, OthersKeep DEF Booked
<1>4. OneEditor'
  <2> SUFFICES ASSUME NEW r \in Requests, NEW s \in Requests, NEW a \in Appts,
                      Editing(r, a)', Editing(s, a)', r # s
               PROVE  FALSE
    BY DEF OneEditor
  <2>1. \A t \in Requests \ {w} : Editing(t, a)' => Editing(t, a)
    BY DEF Editing
  <2> QED BY <2>1 DEF AgendaInv, OneEditor
<1> QED BY <1>2, <1>3, <1>4 DEF AgendaInv

(* A step that writes one appointment, and with which the call no longer   *)
(* plans anything.                                                         *)
LEMMA WritingStep ==
    ASSUME TypeOK, TypeOK', AgendaInv, NEW w \in Requests, NEW a \in Appts,
           \A r \in Requests \ {w} : req'[r] = req[r],
           \A r \in Requests \ {w}, d \in Days : lock[d] = r => lock'[d] = r,
           CallOK(w)', ~Planning(w)',
           \A b \in Appts \ {a} : place'[b] = place[b] /\ status'[b] = status[b],
           Holds(a)' => \/ Holds(a) /\ Shrunk(place[a], place'[a])
                        \/ /\ Checked(w)
                           /\ place'[a] = req[w].to
                           /\ req[w].appt \in {a, NoAppt},
           Booked(a)' /\ status[a] = "cancelled" => status'[a] = "cancelled",
           status[a] # "absent" /\ Booked(a)' => Booked(a),
           status'[a] # "absent",
           place'[a] # place[a] => status[a] = "absent" \/ Editing(w, a)
    PROVE  AgendaInv'
<1>1. \A b \in Appts \ {a} : Holds(b)' => Holds(b)
  BY DEF Holds, Booked
<1>2. /\ NoDoubleBooking'
      /\ \A r \in Requests \ {w} :
           Checked(r) => \A b \in Appts \ {req[r].appt} :
               Holds(b)' => ~Overlap(place'[b], req[r].to)
  BY <1>1, OneWrite
<1>3. ASSUME NEW r \in Requests, r # w PROVE CallOK(r)'
  <2>1. CallOK(r)
    BY DEF AgendaInv
  <2>2. ASSUME Planning(r), req[r].kind \in PanelEdits
        PROVE  LET b == req[r].appt IN
               /\ place'[b] = place[b]
               /\ status'[b] # "absent"
               /\ Booked(b)' => Booked(b)
               /\ Booked(b)' /\ status[b] = "cancelled"
                     => status'[b] = "cancelled"
    <3>1. req[r].appt \in Appts /\ status[req[r].appt] # "absent"
      BY <2>1, <2>2 DEF CallOK, PlanStillFits
    <3>2. CASE req[r].appt = a
      <4>1. Editing(r, a)
        BY <2>2, <3>2 DEF Editing, Planning
      <4>2. ~Editing(w, a)
        BY <4>1, <1>3 DEF AgendaInv, OneEditor
      <4> QED BY <1>3, <3>1, <3>2, <4>2 DEF Booked
    <3>3. CASE req[r].appt # a
      BY <1>3, <3>1, <3>3 DEF Booked
    <3> QED BY <3>2, <3>3
  <2> QED BY <1>2, <1>3, <2>2, OthersKeep
<1>4. OneEditor'
  <2> SUFFICES ASSUME NEW r \in Requests, NEW s \in Requests, NEW b \in Appts,
                      Editing(r, b)', Editing(s, b)', r # s
               PROVE  FALSE
    BY DEF OneEditor
  <2>1. \A t \in Requests \ {w} : Editing(t, b)' => Editing(t, b)
    BY DEF Editing
  <2>2. ~Editing(w, b)'
    BY DEF Editing, Planning
  <2> QED BY <2>1, <2>2 DEF AgendaInv, OneEditor
<1> QED BY <1>2, <1>3, <1>4 DEF AgendaInv

(* A call that ends: it is forgotten, its locks go, nobody else's do.      *)
LEMMA CallEnds ==
    ASSUME TypeOK, NEW w \in Requests, Finish(w)
    PROVE  /\ \A r \in Requests \ {w} : req'[r] = req[r]
           /\ \A r \in Requests \ {w}, d \in Days : lock[d] = r => lock'[d] = r
           /\ CallOK(w)' /\ ~Planning(w)'
           /\ \A a \in Appts : ~Editing(w, a)'
<1>1. req'[w] = Unborn /\ \A r \in Requests \ {w} : req'[r] = req[r]
  BY DEF Finish, TypeOK
<1>2. \A r \in Requests \ {w}, d \in Days : lock[d] = r => lock'[d] = r
  BY DEF Finish, Without
<1>3. ~Planning(w)' /\ \A a \in Appts : ~Editing(w, a)'
  BY <1>1 DEF Planning, Editing, Unborn
<1>4. CallOK(w)'
  BY <1>1 DEF CallOK, LocksItsDay, HoldsItsDays, CheckStillGood, BookingsAreNew,
              PlanStillFits, UncheckedIsHarmless, StatusWasLookedUp, Checked,
              Planning, Unborn, Updates, PanelEdits, StatusChanges
<1> QED BY <1>1, <1>2, <1>3, <1>4

LEMMA BeginKeeps ==
    ASSUME TypeOK, AgendaInv, Disciplined, NEW w \in Requests, Begin(w)
    PROVE  AgendaInv'
<1> DEFINE Fresh(q) == /\ Start(w, q)
                       /\ q.kind \in PanelEdits => MayEdit(q.appt)
<1>1. ASSUME NEW q, Fresh(q), CallOK(w)' PROVE AgendaInv'
  <2>1. /\ req'[w] = q /\ UNCHANGED <<place, status, lock>>
        /\ \A r \in Requests \ {w} : req'[r] = req[r]
    BY <1>1 DEF Start, TypeOK
  <2>2. \A a \in Appts : Editing(w, a)'
            => \A r \in Requests \ {w} : ~Editing(r, a)
    BY <1>1, <2>1 DEF Editing, MayEdit, Disciplined
  <2> QED BY <1>1, <2>1, <2>2, QuietStep
<1> USE DEF CallOK, LocksItsDay, HoldsItsDays, CheckStillGood, BookingsAreNew,
            PlanStillFits, UncheckedIsHarmless, StatusWasLookedUp, Checked,
            Planning, Updates, Bookings, PanelEdits, StatusChanges
<1>2. CASE StartBooking(w)
  <2> DEFINE Q(kind, p) == [Unborn EXCEPT !.pc = "lock", !.kind = kind, !.to = p,
                                          !.days = {p.day}]
  <2>1. PICK kind \in Bookings, p \in Place : Start(w, Q(kind, p))
    BY <1>2 DEF StartBooking
  <2>2. req'[w] = Q(kind, p) /\ UNCHANGED <<place, status, lock>>
    BY <2>1 DEF Start, TypeOK
  <2>3. CallOK(w)'
    BY <2>2 DEF Unborn
  <2>4. Fresh(Q(kind, p))
    BY <2>1 DEF Unborn
  <2> QED BY <1>1, <2>3, <2>4
<1>3. CASE StartEdit(w)
  <2> DEFINE Q(a, F, p, st) ==
               [pc |-> IF NeedsCheck(a, p, st) THEN "lock" ELSE "write",
                kind |-> "edit", appt |-> a, to |-> p,
                seenSt |-> IF st = "keep" THEN "absent" ELSE status[a],
                stTo |-> st, fields |-> F,
                days |-> IF NeedsCheck(a, p, st)
                         THEN {p.day, place[a].day} ELSE {},
                checked |-> FALSE]
  <2>1. PICK a \in Appts, F \in Patches, p \in Place, st \in Targets \cup {"keep"} :
          /\ Booked(a) /\ MayEdit(a)
          /\ p = Merge(place[a], p, F)
          /\ st # "keep" => CanTransition(status[a], st)
          /\ Start(w, Q(a, F, p, st))
    BY <1>3 DEF StartEdit
  <2>2. req'[w] = Q(a, F, p, st) /\ UNCHANGED <<place, status, lock>>
    BY <2>1 DEF Start, TypeOK
  <2>3. Fresh(Q(a, F, p, st))
    BY <2>1
  <2>4. CASE NeedsCheck(a, p, st)
    BY <1>1, <2>1, <2>2, <2>3, <2>4 DEF Booked, Statuses, Live
  <2>5. CASE ~NeedsCheck(a, p, st)
    <3>1. \/ st = "cancelled"
          \/ status[a] = "cancelled"
          \/ ~Moves(place[a], p) /\ ~Lengthens(place[a], p)
      BY <2>5 DEF NeedsCheck
    <3>2. CallOK(w)'
      BY <2>1, <2>2, <2>5, <3>1 DEF Booked, Statuses, Live
    <3> QED BY <1>1, <2>3, <3>2
  <2> QED BY <2>4, <2>5
<1>4. CASE StartDrag(w)
  <2> DEFINE Q(a, p) == [Unborn EXCEPT !.pc = "lock", !.kind = "drag",
                                       !.appt = a, !.to = p, !.fields = Slot,
                                       !.days = {p.day, place[a].day}]
  <2>1. PICK a \in Appts, p \in Place :
          /\ status[a] \in Live /\ MayEdit(a)
          /\ p.svc = place[a].svc
          /\ Start(w, Q(a, p))
    BY <1>4 DEF StartDrag
  <2>2. req'[w] = Q(a, p) /\ UNCHANGED <<place, status, lock>>
    BY <2>1 DEF Start, TypeOK
  <2>3. p = Merge(place[a], p, Slot)
    BY <2>1 DEF Merge, Slot, Place
  <2>4. CallOK(w)'
    BY <2>1, <2>2, <2>3 DEF Unborn, Live
  <2>5. Fresh(Q(a, p))
    BY <2>1 DEF Unborn
  <2> QED BY <1>1, <2>4, <2>5
<1>5. CASE StartRowEdit(w)
  BY <1>5 DEF StartRowEdit, Start, Disciplined, Unborn
<1>6. CASE StartStatus(w)
  <2> DEFINE Q(a, st) == [Unborn EXCEPT !.pc = "write", !.kind = "status",
                                        !.appt = a, !.seenSt = status[a],
                                        !.stTo = st]
  <2>1. PICK a \in Appts, st \in Targets :
          CanTransition(status[a], st) /\ Start(w, Q(a, st))
    BY <1>6 DEF StartStatus
  <2>2. req'[w] = Q(a, st) /\ UNCHANGED <<place, status, lock>>
    BY <2>1 DEF Start, TypeOK
  <2>3. CallOK(w)'
    BY <2>1, <2>2 DEF Unborn
  <2>4. Fresh(Q(a, st))
    BY <2>1 DEF Unborn
  <2> QED BY <1>1, <2>3, <2>4
<1>7. CASE StartScan(w)
  <2> DEFINE Q(kind, a) == [Unborn EXCEPT !.pc = "scan", !.kind = kind, !.appt = a,
                                          !.stTo = IF kind = "settle"
                                                   THEN "completed" ELSE "cancelled"]
  <2>1. PICK kind \in {"expire", "link", "settle"}, a \in Appts : Start(w, Q(kind, a))
    BY <1>7 DEF StartScan
  <2>2. req'[w] = Q(kind, a) /\ UNCHANGED <<place, status, lock>>
    BY <2>1 DEF Start, TypeOK
  <2>3. CallOK(w)'
    BY <2>2 DEF Unborn
  <2>4. Fresh(Q(kind, a))
    BY <2>1 DEF Unborn
  <2> QED BY <1>1, <2>3, <2>4
<1>8. CASE StartRemove(w)
  <2> DEFINE Q(a) == [Unborn EXCEPT !.pc = "write", !.kind = "remove", !.appt = a]
  <2>1. PICK a \in Appts : Start(w, Q(a))
    BY <1>8 DEF StartRemove
  <2>2. req'[w] = Q(a) /\ UNCHANGED <<place, status, lock>>
    BY <2>1 DEF Start, TypeOK
  <2>3. CallOK(w)'
    BY <2>2 DEF Unborn
  <2>4. Fresh(Q(a))
    BY <2>1 DEF Unborn
  <2> QED BY <1>1, <2>3, <2>4
<1> QED BY <1>2, <1>3, <1>4, <1>5, <1>6, <1>7, <1>8 DEF Begin

(* The steps of a call that write no appointment.                          *)
LEMMA QuietProceedKeeps ==
    ASSUME TypeOK, AgendaInv, NEW w \in Requests,
           \/ Reread(w) \/ Acquire(w) \/ Check(w) \/ Refuse(w) \/ Release(w)
           \/ Stale(w) \/ FollowUp(w) \/ Crash(w)
    PROVE  AgendaInv'
<1>0. CallOK(w) /\ req[w] \in Request
  BY DEF AgendaInv, TypeOK
<1>1. ASSUME Finish(w), UNCHANGED <<place, status>> PROVE AgendaInv'
  BY <1>1, CallEnds, QuietStep
<1>2. CASE Refuse(w) \/ Release(w) \/ Stale(w) \/ Crash(w)
  BY <1>1, <1>2 DEF Refuse, Release, Stale, Crash, Unwritten
<1>3. CASE FollowUp(w)
  <2>1. /\ req'[w] = Unborn /\ UNCHANGED <<place, status, lock>>
        /\ \A r \in Requests \ {w} : req'[r] = req[r]
    BY <1>3 DEF FollowUp, TypeOK
  <2>2. CallOK(w)' /\ \A a \in Appts : ~Editing(w, a)'
    BY <2>1 DEF CallOK, LocksItsDay, HoldsItsDays, CheckStillGood, BookingsAreNew,
                PlanStillFits, UncheckedIsHarmless, StatusWasLookedUp, Checked,
                Planning, Unborn, Updates, PanelEdits, StatusChanges, Editing
  <2> QED BY <2>1, <2>2, QuietStep
<1>4. CASE Reread(w)
  <2>1. /\ UNCHANGED <<place, status, lock>>
        /\ \A r \in Requests \ {w} : req'[r] = req[r]
    BY <1>4 DEF Reread, Unwritten, TypeOK
  <2>2. CASE CanTransition(status[req[w].appt], req[w].stTo)
    <3>1. req'[w] = [req[w] EXCEPT !.pc = "write",
                                   !.seenSt = status[req[w].appt]]
      BY <1>4, <2>2 DEF Reread, TypeOK
    <3>2. CallOK(w)' /\ \A a \in Appts : ~Editing(w, a)'
      BY <1>0, <1>4, <2>1, <2>2, <3>1
         DEF Reread, CallOK, LocksItsDay, HoldsItsDays, CheckStillGood,
             BookingsAreNew, PlanStillFits, UncheckedIsHarmless,
             StatusWasLookedUp, Checked, Planning, Request, Bookings,
             PanelEdits, StatusChanges, Editing
    <3> QED BY <2>1, <3>2, QuietStep
  <2>3. CASE ~CanTransition(status[req[w].appt], req[w].stTo)
    <3>1. req'[w] = Unborn
      BY <1>4, <2>3 DEF Reread, TypeOK
    <3>2. CallOK(w)' /\ \A a \in Appts : ~Editing(w, a)'
      BY <3>1 DEF CallOK, LocksItsDay, HoldsItsDays, CheckStillGood, BookingsAreNew,
                  PlanStillFits, UncheckedIsHarmless, StatusWasLookedUp, Checked,
                  Planning, Unborn, Updates, PanelEdits, StatusChanges, Editing
    <3> QED BY <2>1, <3>2, QuietStep
  <2> QED BY <2>2, <2>3
<1>5. CASE Acquire(w)
  <2>1. PICK d \in Days :
          /\ NextLock(w, d) /\ lock[d] = NoReq
          /\ lock' = [lock EXCEPT ![d] = w]
          /\ req' = [req EXCEPT ![w].pc =
                       IF \A e \in req[w].days \ {d} : lock[e] = w
                       THEN "check" ELSE "lock"]
    BY <1>5 DEF Acquire
  <2>2. UNCHANGED <<place, status>> /\ req[w].pc = "lock"
    BY <1>5 DEF Acquire, Unwritten
  <2>3. PICK pc \in {"lock", "check"} :
          /\ req'[w] = [req[w] EXCEPT !.pc = pc]
          /\ pc = "check" => \A e \in req[w].days : lock'[e] = w
    <3>1. \A e \in req[w].days : e \in Days
      BY <1>0 DEF Request
    <3>2. CASE \A e \in req[w].days \ {d} : lock[e] = w
      BY <2>1, <3>1, <3>2 DEF TypeOK
    <3>3. CASE ~ \A e \in req[w].days \ {d} : lock[e] = w
      BY <2>1, <3>3 DEF TypeOK
    <3> QED BY <3>2, <3>3
  <2>4. \A r \in Requests \ {w} :
            req'[r] = req[r] /\ \A e \in Days : lock[e] = r => lock'[e] = r
    BY <2>1, ScopeAssumption DEF TypeOK
  <2>5. CallOK(w)'
    BY <1>0, <2>2, <2>3
       DEF CallOK, LocksItsDay, HoldsItsDays, CheckStillGood, BookingsAreNew,
           PlanStillFits, UncheckedIsHarmless, StatusWasLookedUp, Checked,
           Planning, Booked, Request
  <2>6. \A a \in Appts : Editing(w, a)' => Editing(w, a)
    BY <1>0, <2>2, <2>3 DEF Editing, Request
  <2> QED BY <2>2, <2>4, <2>5, <2>6, QuietStep DEF AgendaInv, OneEditor
<1>6. CASE Check(w)
  <2>1. /\ UNCHANGED <<place, status, lock>> /\ req[w].pc = "check"
        /\ \A r \in Requests \ {w} : req'[r] = req[r]
        /\ req'[w] = [req[w] EXCEPT !.pc = "write", !.checked = TRUE]
        /\ Free(req[w].to, req[w].appt)
    BY <1>6 DEF Check, Unwritten, TypeOK
  <2>2. CallOK(w)'
    BY <1>0, <2>1
       DEF CallOK, LocksItsDay, HoldsItsDays, CheckStillGood, BookingsAreNew,
           PlanStillFits, UncheckedIsHarmless, StatusWasLookedUp, Checked,
           Planning, Booked, Request, Free, Holds
  <2>3. \A a \in Appts : Editing(w, a)' => Editing(w, a)
    BY <1>0, <2>1 DEF Editing, Request
  <2> QED BY <2>1, <2>2, <2>3, QuietStep DEF AgendaInv, OneEditor
<1> QED BY <1>2, <1>3, <1>4, <1>5, <1>6

(* A booking that is inserted was checked, and its day is still locked.    *)
LEMMA InsertKeeps ==
    ASSUME TypeOK, TypeOK', AgendaInv, NEW w \in Requests,
           InsertOnline(w) \/ InsertByStaff(w)
    PROVE  AgendaInv'
<1>0. CallOK(w) /\ req[w] \in Request
  BY DEF AgendaInv, TypeOK
<1>1. /\ req[w].pc = "write" /\ req[w].kind \in Bookings
      /\ Checked(w) /\ req[w].appt = NoAppt
  BY <1>0 DEF InsertOnline, InsertByStaff, CallOK, BookingsAreNew, Planning,
              Checked, Bookings
<1>2. PICK a \in Appts, st \in Statuses, from \in Bookings :
        /\ Insert(a, req[w].to, st, from)
        /\ InsertOnline(w) => req' = [req EXCEPT ![w] = [@ EXCEPT !.pc = "release",
                                                                  !.appt = a]]
  BY DEF InsertOnline, InsertByStaff, Statuses, Live, Bookings
<1>3. /\ place'[a] = req[w].to /\ status[a] = "absent" /\ status'[a] = st
      /\ \A b \in Appts \ {a} : place'[b] = place[b] /\ status'[b] = status[b]
  BY <1>2 DEF Insert, TypeOK
<1>4. /\ \A r \in Requests \ {w} : req'[r] = req[r]
      /\ \A r \in Requests \ {w}, d \in Days : lock[d] = r => lock'[d] = r
      /\ CallOK(w)' /\ ~Planning(w)'
  <2>1. CASE InsertByStaff(w)
    BY <2>1, CallEnds DEF InsertByStaff
  <2>2. CASE InsertOnline(w)
    <3>1. /\ req'[w] = [req[w] EXCEPT !.pc = "release", !.appt = a]
          /\ lock' = lock
          /\ \A r \in Requests \ {w} : req'[r] = req[r]
      BY <1>2, <2>2 DEF InsertOnline, TypeOK
    <3> QED
      BY <1>0, <1>1, <3>1
         DEF CallOK, LocksItsDay, HoldsItsDays, CheckStillGood, BookingsAreNew,
             PlanStillFits, UncheckedIsHarmless, StatusWasLookedUp, Checked,
             Planning, Request, Bookings, Updates, PanelEdits, StatusChanges
  <2> QED BY <2>1, <2>2
<1>5. status'[a] # "absent" /\ "cancelled" # "absent"
  BY <1>3 DEF Statuses, Live
<1> QED BY <1>1, <1>3, <1>4, <1>5, WritingStep

LEMMA MergeNothing ==
    ASSUME NEW p \in Place, NEW q PROVE Merge(p, q, {}) = p
  BY DEF Merge, Place

(* An update writes the place it checked, one that takes no new time, or   *)
(* none at all.                                                            *)
LEMMA UpdateKeeps ==
    ASSUME TypeOK, TypeOK', AgendaInv, NEW w \in Requests, Update(w)
    PROVE  AgendaInv'
<1>0. CallOK(w) /\ req[w] \in Request
  BY DEF AgendaInv, TypeOK
<1>a. PICK a \in Appts : a = req[w].appt
  BY <1>0 DEF Update, CallOK
<1> DEFINE p == Merge(place[a], req[w].to, req[w].fields)
<1>1. /\ req[w].pc = "write" /\ req[w].kind \in Updates
      /\ Booked(a) /\ place[a] \in Place
      /\ req[w].stTo # "keep" => CanTransition(status[a], req[w].stTo)
  BY <1>0, <1>a DEF Update, Lands, CallOK, StatusWasLookedUp, Planning, Booked, TypeOK,
              Statuses, Live
<1>2. /\ place'[a] = p
      /\ status'[a] = IF req[w].stTo = "keep" THEN status[a] ELSE req[w].stTo
      /\ \A b \in Appts \ {a} : place'[b] = place[b] /\ status'[b] = status[b]
      /\ \A r \in Requests \ {w} : req'[r] = req[r]
      /\ lock' = Without(w)
  <2>1. /\ place' = [place EXCEPT ![a] = p]
        /\ status' = [status EXCEPT ![a] = IF req[w].stTo = "keep" THEN @
                                          ELSE req[w].stTo]
        /\ lock' = Without(w)
    BY <1>a DEF Update
  <2>2. \A r \in Requests \ {w} : req'[r] = req[r]
    BY DEF Update, TypeOK
  <2>3. DOMAIN place = Appts /\ DOMAIN status = Appts
    BY DEF TypeOK
  <2> HIDE DEF p
  <2> QED BY <2>1, <2>2, <2>3
<1>3. \A r \in Requests \ {w}, d \in Days : lock[d] = r => lock'[d] = r
  BY <1>2 DEF Without
<1>4. CallOK(w)' /\ ~Planning(w)'
  <2>1. \/ req'[w] = Unborn
        \/ req'[w] = [Unborn EXCEPT !.pc = "after", !.kind = req[w].kind,
                                    !.appt = a]
    BY <1>a DEF Update, TypeOK
  <2>2. /\ req'[w].pc \in {"idle", "after"} /\ ~req'[w].checked
        /\ req'[w].kind \in Updates => req'[w].appt = a
        /\ req'[w].kind \in StatusChanges => req'[w].fields = {}
        /\ req'[w].kind \notin {"rowEdit", "remove"}
    <3>1. req[w].kind \notin {"rowEdit", "remove"}
      BY <1>0, <1>1 DEF CallOK, Updates, PanelEdits, StatusChanges
    <3>2. CASE req'[w] = Unborn
      BY <3>2 DEF Unborn, Updates, PanelEdits, StatusChanges
    <3>3. CASE req'[w] = [Unborn EXCEPT !.pc = "after", !.kind = req[w].kind,
                                        !.appt = a]
      BY <3>1, <3>3 DEF Unborn
    <3> QED BY <2>1, <3>2, <3>3
  <2> QED
    BY <2>2
       DEF CallOK, LocksItsDay, HoldsItsDays, CheckStillGood, BookingsAreNew,
           PlanStillFits, UncheckedIsHarmless, StatusWasLookedUp, Checked,
           Planning
<1>5. status[a] = "cancelled" => status'[a] = "cancelled"
  BY <1>1, <1>2 DEF CanTransition, Transitions
<1>6. status'[a] # "absent"
  BY <1>1, <1>2, <1>0 DEF Request, Booked, Statuses, Live
<1>7. Holds(a)' => \/ Holds(a) /\ Shrunk(place[a], place'[a])
                   \/ /\ Checked(w)
                      /\ place'[a] = req[w].to
                      /\ req[w].appt \in {a, NoAppt}
  <2>1. SUFFICES ASSUME Holds(a)', ~Checked(w) \/ req[w].kind \notin PanelEdits
                 PROVE  Holds(a) /\ Shrunk(place[a], place'[a])
    BY <1>0, <1>a, <1>1, <1>2 DEF CallOK, PlanStillFits, Planning
  <2>2. Holds(a)
    BY <1>1, <1>2, <1>5, <2>1 DEF Holds
  <2>3. CASE req[w].kind \in StatusChanges
    <3>1. p = place[a]
      BY <1>0, <1>1, <2>3, MergeNothing DEF CallOK, StatusWasLookedUp
    <3> QED BY <1>1, <1>2, <2>2, <3>1, BusyIsNat DEF Shrunk, Moves
  <2>4. CASE req[w].kind \in PanelEdits
    <3>1. ~req[w].checked /\ p = req[w].to
      BY <1>0, <1>a, <1>1, <2>1, <2>4
         DEF Checked, CallOK, PlanStillFits, Planning
    <3>2. ~Moves(place[a], p) /\ ~Lengthens(place[a], p)
      BY <1>0, <1>a, <1>1, <1>2, <2>1, <2>2, <2>4, <3>1
         DEF CallOK, UncheckedIsHarmless, Holds
    <3>3. p \in Place
      BY <1>1, <1>2, <1>6 DEF TypeOK
    <3> QED BY <1>1, <1>2, <2>2, <3>2, <3>3, UnlengthenedIsShrunk
  <2> QED BY <1>1, <2>3, <2>4 DEF Updates
<1>8. place'[a] # place[a] => Editing(w, a)
  <2>1. CASE req[w].kind \in StatusChanges
    BY <1>0, <1>1, <1>2, <2>1, MergeNothing DEF CallOK, StatusWasLookedUp
  <2>2. CASE req[w].kind \in PanelEdits
    BY <1>a, <1>1, <2>2 DEF Editing
  <2> QED BY <1>1, <2>1, <2>2 DEF Updates
<1>9. Booked(a)
  BY <1>1
<1> HIDE DEF p
<1> QED BY <1>a, <1>1, <1>2, <1>3, <1>4, <1>5, <1>6, <1>7, <1>8, <1>9, WritingStep

LEMMA DeleteKeeps ==
    ASSUME TypeOK, TypeOK', AgendaInv, NEW w \in Requests, Delete(w)
    PROVE  AgendaInv'
<1>1. CallOK(w) /\ Finish(w) /\ UNCHANGED place
  BY DEF AgendaInv, Delete
<1>2. PICK a \in Appts : a = req[w].appt
  BY <1>1 DEF CallOK, Delete
<1>3. CASE Booked(a)
  <2>1. status'[a] = "deleted" /\ \A b \in Appts \ {a} : status'[b] = status[b]
    BY <1>2, <1>3 DEF Delete, TypeOK
  <2>2. ~Booked(a)' /\ ~Holds(a)'
    BY <2>1 DEF Holds, Booked, Statuses, Live
  <2> QED BY <1>1, <1>2, <2>1, <2>2, CallEnds, WritingStep
<1>4. CASE ~Booked(a)
  BY <1>1, <1>2, <1>4, CallEnds, QuietStep DEF Delete
<1> QED BY <1>3, <1>4

(* AgendaInv is kept by every step, when edits are serialised and locked.  *)
LEMMA NextKeeps ==
    ASSUME TypeOK, TypeOK', AgendaInv, Disciplined, Next PROVE AgendaInv'
<1>1. PICK w \in Requests : Begin(w) \/ Proceed(w) \/ Fault(w)
  BY DEF Next
<1>2. ~TxTimeout(w)
  BY DEF TxTimeout, Disciplined
<1> QED
  BY <1>1, <1>2, BeginKeeps, QuietProceedKeeps, InsertKeeps, UpdateKeeps,
     DeleteKeeps DEF Proceed, Fault

(* "Never a double booking", for any salon: as long as an appointment has  *)
(* one edit in flight at a time, no service row is moved without the day's *)
(* lock and no booking outlives its transaction, two appointments that     *)
(* hold their time never overlap.  The run skew shows that the first is    *)
(* needed, and three steps of reading show it of the others.               *)
THEOREM NeverDoubleBooked ==
    ASSUME Disciplined PROVE Spec => []NoDoubleBooking
<1>1. Init => AgendaInv
  BY DEF Init, AgendaInv, NoDoubleBooking, OneEditor, Editing, CallOK, LocksItsDay,
         HoldsItsDays, CheckStillGood, BookingsAreNew, PlanStillFits,
         UncheckedIsHarmless, StatusWasLookedUp, Checked, Planning, Unborn,
         Updates, PanelEdits, StatusChanges, Holds, Booked, Statuses, Live
<1>2. TypeOK /\ TypeOK' /\ AgendaInv /\ [Next]_vars => AgendaInv'
  <2>1. ASSUME AgendaInv, UNCHANGED vars PROVE AgendaInv'
    BY <2>1 DEF vars, AgendaInv, NoDoubleBooking, OneEditor, Editing, CallOK,
                LocksItsDay, HoldsItsDays, CheckStillGood, BookingsAreNew,
                PlanStillFits, UncheckedIsHarmless, StatusWasLookedUp, Checked,
                Planning, Free, Holds, Booked
  <2> QED BY <2>1, NextKeeps
<1>3. AgendaInv => NoDoubleBooking
  BY DEF AgendaInv
<1> QED BY <1>1, <1>2, <1>3, TypeCorrect, PTL DEF Spec

-----------------------------------------------------------------------------
(* What needs no discipline: the locks, the table and the completions,     *)
(* whatever edits and faults meet.                                         *)

Known(r) ==
    LET q == req[r] IN
    /\ Planning(r) /\ q.stTo # "keep" => CanTransition(q.seenSt, q.stTo)
    /\ q.kind \in Updates \cup {"remove"} => q.appt \in Appts
    /\ q.pc = "after" => /\ q.appt \in Appts
                         /\ completions[q.appt] = 0
                         /\ status[q.appt] \in {"completed", "deleted"}

(* A completion is followed through by the call that wrote it.             *)
OneFollows == \A r, s \in Requests :
                  /\ req[r].pc = "after" /\ req[s].pc = "after"
                  /\ req[r].appt = req[s].appt
                  => r = s

Tracked == /\ LocksHaveOwners
           /\ CompletedOnce
           /\ OneFollows
           /\ \A r \in Requests : Known(r)

(* A step of w that follows no completion through.                         *)
LEMMA TrackedStep ==
    ASSUME TypeOK, TypeOK', Tracked, NEW w \in Requests,
           \A r \in Requests \ {w} : req'[r] = req[r],
           \A d \in Days : lock'[d] \in {lock[d], NoReq, w},
           \A d \in Days : lock'[d] = w
               => /\ req'[w].pc \in {"lock", "check", "write", "release"}
                  /\ d \in req'[w].days,
           completions' = completions,
           \A a \in Appts : status[a] \in {"completed", "deleted"}
                                => status'[a] \in {"completed", "deleted"},
           Known(w)',
           req'[w].pc = "after"
               => \A r \in Requests : req[r].pc = "after"
                                          => req[r].appt # req'[w].appt
    PROVE  Tracked'
<1>1. LocksHaveOwners'
  <2> SUFFICES ASSUME NEW d \in Days, lock'[d] # NoReq
               PROVE  /\ req'[lock'[d]].pc \in {"lock", "check", "write", "release"}
                      /\ d \in req'[lock'[d]].days
    BY DEF LocksHaveOwners
  <2>1. CASE lock'[d] = w
    BY <2>1
  <2>2. CASE lock'[d] # w
    <3>1. lock'[d] = lock[d] /\ lock[d] \in Requests \ {w}
      BY <2>2 DEF TypeOK
    <3> QED BY <3>1 DEF Tracked, LocksHaveOwners
  <2> QED BY <2>1, <2>2
<1>2. CompletedOnce'
  BY DEF Tracked, CompletedOnce
<1>3. OneFollows'
  BY DEF Tracked, OneFollows
<1>4. \A r \in Requests : Known(r)'
  <2> SUFFICES ASSUME NEW r \in Requests, r # w PROVE Known(r)'
    OBVIOUS
  <2>1. req'[r] = req[r] /\ Known(r)
    BY DEF Tracked
  <2> QED BY <2>1 DEF Known, Planning
<1> QED BY <1>1, <1>2, <1>3, <1>4 DEF Tracked

LEMMA StartTracked ==
    ASSUME TypeOK, TypeOK', Tracked, NEW w \in Requests, NEW q, Start(w, q),
           Known(w)', q.pc # "after"
    PROVE  Tracked'
<1>1. req'[w] = q /\ \A r \in Requests \ {w} : req'[r] = req[r]
  BY DEF Start, TypeOK
<1>2. lock' = lock /\ \A d \in Days : lock[d] # w
  BY ScopeAssumption DEF Start, Tracked, LocksHaveOwners, TypeOK
<1> QED BY <1>1, <1>2, TrackedStep DEF Start

LEMMA FinishTracked ==
    ASSUME TypeOK, TypeOK', Tracked, NEW w \in Requests, Finish(w),
           completions' = completions,
           \A a \in Appts : status[a] \in {"completed", "deleted"}
                                => status'[a] \in {"completed", "deleted"}
    PROVE  Tracked'
<1>1. req'[w] = Unborn /\ \A r \in Requests \ {w} : req'[r] = req[r]
  BY DEF Finish, TypeOK
<1>2. \A d \in Days : lock'[d] \in {lock[d], NoReq} /\ lock'[d] # w
  BY ScopeAssumption DEF Finish, Without
<1>3. Known(w)' /\ req'[w].pc # "after"
  BY <1>1 DEF Known, Planning, Unborn, Updates, PanelEdits, StatusChanges
<1> QED BY <1>1, <1>2, <1>3, TrackedStep

LEMMA BeginTracked ==
    ASSUME TypeOK, TypeOK', Tracked, NEW w \in Requests, Begin(w)
    PROVE  Tracked'
<1> DEFINE Sound(q) ==
             /\ Start(w, q) /\ q.pc # "after"
             /\ q.pc # "scan" /\ q.stTo # "keep" => CanTransition(q.seenSt, q.stTo)
             /\ q.kind \in Updates \cup {"remove"} => q.appt \in Appts
<1>1. ASSUME NEW q, Sound(q) PROVE Tracked'
  <2>1. req'[w] = q
    BY <1>1 DEF Start, TypeOK
  <2>2. Known(w)'
    BY <1>1, <2>1 DEF Known, Planning
  <2> QED BY <1>1, <2>2, StartTracked
<1> USE DEF Unborn, Updates, PanelEdits, StatusChanges, Bookings
<1>2. CASE StartBooking(w)
  <2>1. PICK kind \in Bookings, p \in Place :
          Start(w, [Unborn EXCEPT !.pc = "lock", !.kind = kind, !.to = p,
                                  !.days = {p.day}])
    BY <1>2 DEF StartBooking
  <2> DEFINE q == [Unborn EXCEPT !.pc = "lock", !.kind = kind, !.to = p,
                                 !.days = {p.day}]
  <2>2. Sound(q)
    BY <2>1
  <2> HIDE DEF q, Sound
  <2> QED BY <1>1, <2>2
<1>3. CASE StartEdit(w)
  <2>1. PICK a \in Appts, F \in Patches, p \in Place, st \in Targets \cup {"keep"} :
          /\ st # "keep" => CanTransition(status[a], st)
          /\ Start(w, [pc |-> IF NeedsCheck(a, p, st) THEN "lock" ELSE "write",
                       kind |-> "edit", appt |-> a, to |-> p,
                       seenSt |-> IF st = "keep" THEN "absent" ELSE status[a],
                       stTo |-> st, fields |-> F,
                       days |-> IF NeedsCheck(a, p, st)
                                THEN {p.day, place[a].day} ELSE {},
                       checked |-> FALSE])
    BY <1>3 DEF StartEdit
  <2> DEFINE q == [pc |-> IF NeedsCheck(a, p, st) THEN "lock" ELSE "write",
                   kind |-> "edit", appt |-> a, to |-> p,
                   seenSt |-> IF st = "keep" THEN "absent" ELSE status[a],
                   stTo |-> st, fields |-> F,
                   days |-> IF NeedsCheck(a, p, st)
                            THEN {p.day, place[a].day} ELSE {},
                   checked |-> FALSE]
  <2>2. Sound(q)
    BY <2>1
  <2> HIDE DEF q, Sound
  <2> QED BY <1>1, <2>2
<1>4. CASE StartDrag(w)
  <2>1. PICK a \in Appts, p \in Place :
          Start(w, [Unborn EXCEPT !.pc = "lock", !.kind = "drag", !.appt = a,
                                  !.to = p, !.fields = Slot,
                                  !.days = {p.day, place[a].day}])
    BY <1>4 DEF StartDrag
  <2> DEFINE q == [Unborn EXCEPT !.pc = "lock", !.kind = "drag", !.appt = a,
                                 !.to = p, !.fields = Slot,
                                 !.days = {p.day, place[a].day}]
  <2>2. Sound(q)
    BY <2>1
  <2> HIDE DEF q, Sound
  <2> QED BY <1>1, <2>2
<1>5. CASE StartRowEdit(w)
  <2>1. PICK a \in Appts, F \in Patches, p \in Place, pc \in {"check", "write"} :
          Start(w, [Unborn EXCEPT !.pc = pc, !.kind = "rowEdit", !.appt = a,
                                  !.to = p, !.fields = F])
    BY <1>5 DEF StartRowEdit
  <2> DEFINE q == [Unborn EXCEPT !.pc = pc, !.kind = "rowEdit", !.appt = a,
                                 !.to = p, !.fields = F]
  <2>2. Sound(q)
    BY <2>1
  <2> HIDE DEF q, Sound
  <2> QED BY <1>1, <2>2
<1>6. CASE StartStatus(w)
  <2>1. PICK a \in Appts, st \in Targets :
          /\ CanTransition(status[a], st)
          /\ Start(w, [Unborn EXCEPT !.pc = "write", !.kind = "status",
                                     !.appt = a, !.seenSt = status[a],
                                     !.stTo = st])
    BY <1>6 DEF StartStatus
  <2> DEFINE q == [Unborn EXCEPT !.pc = "write", !.kind = "status",
                                 !.appt = a, !.seenSt = status[a],
                                 !.stTo = st]
  <2>2. Sound(q)
    BY <2>1
  <2> HIDE DEF q, Sound
  <2> QED BY <1>1, <2>2
<1>7. CASE StartScan(w)
  <2>1. PICK kind \in {"expire", "link", "settle"}, a \in Appts,
             st \in {"completed", "cancelled"} :
          Start(w, [Unborn EXCEPT !.pc = "scan", !.kind = kind, !.appt = a,
                                  !.stTo = st])
    BY <1>7 DEF StartScan
  <2> DEFINE q == [Unborn EXCEPT !.pc = "scan", !.kind = kind, !.appt = a,
                                 !.stTo = st]
  <2>2. Sound(q)
    BY <2>1
  <2> HIDE DEF q, Sound
  <2> QED BY <1>1, <2>2
<1>8. CASE StartRemove(w)
  <2>1. PICK a \in Appts :
          Start(w, [Unborn EXCEPT !.pc = "write", !.kind = "remove",
                                  !.appt = a])
    BY <1>8 DEF StartRemove
  <2> DEFINE q == [Unborn EXCEPT !.pc = "write", !.kind = "remove",
                                 !.appt = a]
  <2>2. Sound(q)
    BY <2>1
  <2> HIDE DEF q, Sound
  <2> QED BY <1>1, <2>2
<1> QED BY <1>2, <1>3, <1>4, <1>5, <1>6, <1>7, <1>8 DEF Begin

(* What an update writes was looked up from the status the row has.        *)
LEMMA UpdateFollowsTable ==
    ASSUME TypeOK, Tracked, NEW w \in Requests, Update(w)
    PROVE  /\ req[w].appt \in Appts /\ Booked(req[w].appt)
           /\ \A a \in Appts \ {req[w].appt} : status'[a] = status[a]
           /\ req[w].stTo = "keep" => status' = status
           /\ req[w].stTo # "keep" =>
                 /\ status'[req[w].appt] = req[w].stTo
                 /\ CanTransition(status[req[w].appt], req[w].stTo)
<1>1. Known(w) /\ Planning(w)
  BY DEF Tracked, Update, Planning
<1>2. req[w].appt \in Appts
  BY <1>1 DEF Known, Update
<1> QED BY <1>1, <1>2 DEF Known, Update, Lands, TypeOK

LEMMA UpdateTracked ==
    ASSUME TypeOK, TypeOK', Tracked, NEW w \in Requests, Update(w)
    PROVE  Tracked'
<1> DEFINE a == req[w].appt
<1>0. /\ a \in Appts /\ Booked(a)
      /\ \A b \in Appts \ {a} : status'[b] = status[b]
      /\ req[w].stTo = "keep" => status' = status
      /\ req[w].stTo # "keep" => /\ status'[a] = req[w].stTo
                                 /\ CanTransition(status[a], req[w].stTo)
  BY UpdateFollowsTable
<1>1. \A st : ~CanTransition("completed", st) /\ ~CanTransition("deleted", st)
  BY DEF CanTransition, Transitions, Statuses, Live
<1>2. \A b \in Appts : status[b] \in {"completed", "deleted"} => status'[b] = status[b]
  BY <1>0, <1>1
<1>3. CASE req[w].stTo # "completed"
  <2>1. Finish(w) /\ completions' = completions
    BY <1>3 DEF Update, Finish
  <2> QED BY <1>2, <2>1, FinishTracked
<1>4. CASE req[w].stTo = "completed"
  <2>1. /\ req'[w].pc = "after" /\ req'[w].appt = a /\ req'[w].kind = req[w].kind
        /\ req'[w].stTo = "keep"
        /\ \A r \in Requests \ {w} : req'[r] = req[r]
    BY <1>4 DEF Update, TypeOK, Unborn
  <2>2. status[a] \notin {"completed", "deleted"} /\ status'[a] = "completed"
    BY <1>0, <1>1, <1>4
  <2>3. completions[a] = 0 /\ completions' = completions
    <3>1. completions[a] \in Nat /\ completions[a] <= 1 /\ completions[a] # 1
      BY <1>0, <2>2 DEF Tracked, CompletedOnce, TypeOK
    <3> QED BY <3>1 DEF Update
  <2>4. Known(w)'
    BY <1>0, <2>1, <2>2, <2>3 DEF Known, Planning
  <2>5. \A d \in Days : lock'[d] \in {lock[d], NoReq} /\ lock'[d] # w
    BY ScopeAssumption DEF Update, Without
  <2>6. \A r \in Requests : req[r].pc = "after" => req[r].appt # a
    BY <2>2 DEF Tracked, Known
  <2> HIDE DEF a
  <2> QED BY <1>2, <2>1, <2>3, <2>4, <2>5, <2>6, TrackedStep
<1> QED BY <1>3, <1>4

LEMMA FollowUpTracked ==
    ASSUME TypeOK, TypeOK', Tracked, NEW w \in Requests, FollowUp(w)
    PROVE  Tracked'
<1> DEFINE a == req[w].appt
<1>1. /\ a \in Appts /\ completions[a] = 0
      /\ status[a] \in {"completed", "deleted"} /\ status' = status
  BY DEF Tracked, Known, FollowUp
<1>2. /\ completions'[a] = 1
      /\ \A b \in Appts \ {a} : completions'[b] = completions[b]
  BY <1>1 DEF FollowUp, TypeOK
<1>3. /\ req'[w] = Unborn /\ lock' = lock
      /\ \A r \in Requests \ {w} : req'[r] = req[r]
  BY DEF FollowUp, TypeOK
<1>4. \A r \in Requests \ {w} : req[r].pc = "after" => req[r].appt # a
  BY DEF Tracked, OneFollows, FollowUp
<1>5. LocksHaveOwners'
  <2>1. \A d \in Days : lock[d] # w
    BY ScopeAssumption DEF FollowUp, Tracked, LocksHaveOwners, TypeOK
  <2> QED BY <1>3, <2>1 DEF Tracked, LocksHaveOwners, TypeOK
<1>6. CompletedOnce'
  BY <1>1, <1>2 DEF Tracked, CompletedOnce
<1>7. OneFollows'
  BY <1>3 DEF Tracked, OneFollows, Unborn
<1>8. ASSUME NEW r \in Requests PROVE Known(r)'
  <2>1. CASE r = w
    BY <1>3, <2>1 DEF Known, Planning, Unborn, Updates, PanelEdits, StatusChanges
  <2>2. CASE r # w
    <3>1. Known(r) /\ req'[r] = req[r] /\ (req[r].pc = "after" => req[r].appt # a)
      BY <1>3, <1>4, <2>2 DEF Tracked
    <3> QED BY <1>1, <1>2, <3>1 DEF Known, Planning
  <2> QED BY <2>1, <2>2
<1> QED BY <1>5, <1>6, <1>7, <1>8 DEF Tracked

LEMMA ProceedTracked ==
    ASSUME TypeOK, TypeOK', Tracked, NEW w \in Requests, Proceed(w) \/ Fault(w)
    PROVE  Tracked'
<1>0. /\ Known(w) /\ w # NoReq
      /\ \A d \in Days : lock[d] = w
             => /\ req[w].pc \in {"lock", "check", "write", "release"}
                /\ d \in req[w].days
  BY ScopeAssumption DEF Tracked, LocksHaveOwners
<1>1. CASE Reread(w)
  <2>1. CASE CanTransition(status[req[w].appt], req[w].stTo)
    <3>1. /\ req'[w] = [req[w] EXCEPT !.pc = "write", !.seenSt = status[req[w].appt]]
          /\ \A r \in Requests \ {w} : req'[r] = req[r]
          /\ lock' = lock /\ Unwritten /\ req[w].pc = "scan"
      BY <1>1, <2>1 DEF Reread, TypeOK
    <3>2. /\ req'[w].pc = "write" /\ req'[w].seenSt = status[req[w].appt]
          /\ req'[w].stTo = req[w].stTo /\ req'[w].appt = req[w].appt
          /\ req'[w].kind = req[w].kind
      BY <3>1 DEF TypeOK, Request
    <3>3. Known(w)'
      BY <1>0, <2>1, <3>2 DEF Known
    <3> QED BY <1>0, <3>1, <3>2, <3>3, TrackedStep DEF Unwritten
  <2>2. CASE ~CanTransition(status[req[w].appt], req[w].stTo)
    <3>1. Finish(w)
      <4>1. \A d \in Days : lock[d] # w
        BY <1>0, <1>1 DEF Reread
      <4>2. Without(w) = lock
        BY <4>1 DEF Without, TypeOK
      <4> QED BY <1>1, <2>2, <4>2 DEF Reread, Finish
    <3> QED BY <1>1, <3>1, FinishTracked DEF Reread, Unwritten
  <2> QED BY <2>1, <2>2
<1>2. CASE Acquire(w)
  <2>1. PICK d \in Days : /\ d \in req[w].days /\ lock' = [lock EXCEPT ![d] = w]
    BY <1>2 DEF Acquire, NextLock
  <2>2. /\ req'[w].pc \in {"lock", "check"} /\ req[w].pc = "lock"
        /\ req'[w].days = req[w].days /\ req'[w].stTo = req[w].stTo
        /\ req'[w].seenSt = req[w].seenSt /\ req'[w].appt = req[w].appt
        /\ req'[w].kind = req[w].kind
        /\ \A r \in Requests \ {w} : req'[r] = req[r]
    BY <1>2 DEF Acquire, TypeOK, Request
  <2>3. Known(w)'
    BY <1>0, <2>2 DEF Known, Planning
  <2>4. \A e \in Days : lock'[e] \in {lock[e], w} /\ (lock'[e] = w => e \in req[w].days)
    BY <1>0, <2>1 DEF TypeOK
  <2> QED BY <1>2, <2>2, <2>3, <2>4, TrackedStep DEF Acquire, Unwritten
<1>3. CASE Check(w)
  <2>1. /\ req'[w].pc = "write" /\ req[w].pc = "check"
        /\ req'[w].days = req[w].days /\ req'[w].stTo = req[w].stTo
        /\ req'[w].seenSt = req[w].seenSt /\ req'[w].appt = req[w].appt
        /\ req'[w].kind = req[w].kind
        /\ \A r \in Requests \ {w} : req'[r] = req[r]
    BY <1>3 DEF Check, TypeOK, Request
  <2>2. Known(w)'
    BY <1>0, <2>1 DEF Known, Planning
  <2> QED BY <1>0, <1>3, <2>1, <2>2, TrackedStep DEF Check, Unwritten
<1>4. CASE Refuse(w) \/ Release(w) \/ Stale(w) \/ Crash(w)
  BY <1>4, FinishTracked DEF Refuse, Release, Stale, Crash, Unwritten
<1>5. CASE InsertOnline(w)
  <2>1. PICK a \in Appts, st \in {"pending", "confirmed"} :
          /\ status[a] = "absent" /\ status' = [status EXCEPT ![a] = st]
          /\ req' = [req EXCEPT ![w] = [@ EXCEPT !.pc = "release", !.appt = a]]
    BY <1>5 DEF InsertOnline, Insert
  <2>2. /\ req'[w].pc = "release" /\ req'[w].appt = a
        /\ req'[w].days = req[w].days
        /\ \A r \in Requests \ {w} : req'[r] = req[r]
    BY <2>1 DEF TypeOK, Request
  <2>3. Known(w)'
    BY <2>2 DEF Known, Planning
  <2>4. \A b \in Appts : status[b] \in {"completed", "deleted"} => status'[b] = status[b]
    BY <2>1 DEF TypeOK
  <2> QED BY <1>0, <1>5, <2>2, <2>3, <2>4, TrackedStep DEF InsertOnline, Insert
<1>6. CASE InsertByStaff(w)
  <2>1. \A b \in Appts : status[b] \in {"completed", "deleted"} => status'[b] = status[b]
    BY <1>6 DEF InsertByStaff, Insert, TypeOK
  <2> QED BY <1>6, <2>1, FinishTracked DEF InsertByStaff, Insert
<1>7. CASE Update(w)
  BY <1>7, UpdateTracked
<1>8. CASE FollowUp(w)
  BY <1>8, FollowUpTracked
<1>9. CASE Delete(w)
  BY <1>9, FinishTracked DEF Delete, TypeOK
<1>10. CASE TxTimeout(w)
  <2>1. \A d \in Days : lock'[d] \in {lock[d], NoReq} /\ lock'[d] # w
    BY <1>0, <1>10 DEF TxTimeout, Without
  <2>2. Known(w)'
    BY <1>0, <1>10 DEF TxTimeout, Unwritten, Known, Planning
  <2> QED BY <1>0, <1>10, <2>1, <2>2, TrackedStep DEF TxTimeout, Unwritten
<1> QED
  BY <1>1, <1>2, <1>3, <1>4, <1>5, <1>6, <1>7, <1>8, <1>9, <1>10
     DEF Proceed, Fault

LEMMA AlwaysTracked == Spec => [](TypeOK /\ Tracked)
<1>1. Init => Tracked
  BY ScopeAssumption DEF Init, Tracked, LocksHaveOwners, CompletedOnce, OneFollows,
         Known, Planning, Unborn, Updates, PanelEdits, StatusChanges
<1>2. TypeOK /\ TypeOK' /\ Tracked /\ [Next]_vars => Tracked'
  <2>1. ASSUME Tracked, UNCHANGED vars PROVE Tracked'
    BY <2>1 DEF vars, Tracked, LocksHaveOwners, CompletedOnce, OneFollows, Known,
                Planning
  <2> QED BY <2>1, BeginTracked, ProceedTracked DEF Next
<1> QED BY <1>1, <1>2, TypeCorrect, PTL DEF Spec

(* No ending of a call, crash and timed-out transaction included, leaves a *)
(* day of the salon locked.                                                *)
THEOREM LocksAreOwned == Spec => []LocksHaveOwners
<1>1. TypeOK /\ Tracked => LocksHaveOwners
  BY DEF Tracked
<1> QED BY <1>1, AlwaysTracked, PTL

(* A visit is completed once: its invoice, notices and points follow the   *)
(* one update that found it not completed yet.                             *)
THEOREM CompletedOnceHolds == Spec => []CompletedOnce
<1>1. TypeOK /\ Tracked => CompletedOnce
  BY DEF Tracked
<1> QED BY <1>1, AlwaysTracked, PTL

(* Two calls that change one status never combine into a change the table  *)
(* does not allow: each writes only over the status it looked up.          *)
THEOREM TableIsFollowed == Spec => StatusFollowsTable
<1>1. TypeOK /\ Tracked /\ [Next]_vars =>
        [\A a \in Appts :
            Booked(a) /\ status'[a] # status[a] /\ status'[a] # "deleted"
                => CanTransition(status[a], status'[a])]_vars
  <2> SUFFICES ASSUME TypeOK, Tracked, Next, NEW a \in Appts, Booked(a),
                      status'[a] # status[a], status'[a] # "deleted"
               PROVE  CanTransition(status[a], status'[a])
    OBVIOUS
  <2>1. PICK w \in Requests : Begin(w) \/ Proceed(w) \/ Fault(w)
    BY DEF Next
  <2>2. CASE Update(w)
    BY <2>2, UpdateFollowsTable
  <2>3. CASE InsertOnline(w) \/ InsertByStaff(w)
    BY <2>3 DEF InsertOnline, InsertByStaff, Insert, TypeOK, Booked, Statuses, Live
  <2>4. CASE Delete(w)
    BY <2>4 DEF Delete, TypeOK
  <2>5. CASE ~Update(w) /\ ~InsertOnline(w) /\ ~InsertByStaff(w) /\ ~Delete(w)
    <3>1. CASE Begin(w)
      <4>1. CASE StartBooking(w) \/ StartStatus(w) \/ StartScan(w)
        BY <4>1 DEF StartBooking, StartStatus, StartScan, Start
      <4>2. CASE StartEdit(w)
        BY <4>2 DEF StartEdit, Start
      <4>3. CASE StartDrag(w) \/ StartRowEdit(w) \/ StartRemove(w)
        BY <4>3 DEF StartDrag, StartRowEdit, StartRemove, Start
      <4> QED BY <3>1, <4>1, <4>2, <4>3 DEF Begin
    <3>2. CASE Proceed(w) \/ Fault(w)
      BY <2>5, <3>2 DEF Proceed, Reread, Acquire, Check, Refuse, Release, Stale,
                        FollowUp, Fault, Crash, TxTimeout, Unwritten
    <3> QED BY <2>1, <3>1, <3>2
  <2> QED BY <2>2, <2>3, <2>4, <2>5
<1> QED BY <1>1, AlwaysTracked, PTL DEF Spec, StatusFollowsTable

=============================================================================
