--------------------------- MODULE RebookingProofs ---------------------------
(***************************************************************************)
(* Proofs about Rebooking, for every number of services, senders and       *)
(* computations, every history and every scene.                            *)
(***************************************************************************)
EXTENDS Rebooking, TLAPS, WellFoundedInduction

Stats == {"none", "regular", "irregular"}

Cadence == [due : {"none", "ahead", "due", "old"},
            service : Services \cup {NoService}, stats : [Services -> Stats],
            sentFor : [Services -> Nat], claimed : BOOLEAN,
            optedOut : BOOLEAN, version : Nat]

Computation == [pc : {"idle", "settings", "empty", "visits", "write"},
                run : BOOLEAN, min : Nat, version : Nat,
                visits : [Services -> Nat]]

Bound(s) == History[s] + MaxVisits

(* The client, the salon and the cadence row.                              *)
Around ==
    /\ scene \in Scenes
    /\ settings \in [enabled : BOOLEAN, min : MinChoices,
                     version : 0..scene.saves]
    /\ offered \subseteq Services
    /\ visits \in [Services -> Nat]
    /\ \A s \in Services : visits[s] <= Bound(s)
    /\ appt \in [at : {"upcoming", "begun"}, service : Services] \cup {NoAppt}
    /\ appt # NoAppt => visits[appt.service] < Bound(appt.service)
    /\ cadence \in Cadence
    /\ compute \in [Computes -> Computation]

Row == [service : Services, at : Nat, sentAt : Nat,
        status : {"scheduled", "sent", "cancelled"}, mailed : BOOLEAN]

(* A sender that knows the service; that has found nothing standing in the *)
(* way; whose failure is yet to count; whose row is the last.              *)
Chosen == {"offered", "cycle", "row", "upcoming", "allowed", "failures",
           "create", "deliver", "sent", "failed", "permanent", "remember",
           "advance"}
Cleared == {"upcoming", "allowed", "failures", "create"}
Unfailed == {"create", "deliver", "failed", "permanent"}
Sending == {"deliver", "sent", "failed", "permanent"}

SenderState == [pc : Early \cup {"claimed", "enabled"} \cup Chosen,
                service : Services \cup {NoService}, stats : Stats,
                sentFor : [Services -> Nat]]

(* She came since every email of s that went out, but those a booking      *)
(* cancelled.                                                              *)
Clear(s) ==
    \A n \in DOMAIN rows :
        rows[n].service = s /\ rows[n].mailed /\ rows[n].status # "cancelled"
        => rows[n].at <= visits[s]

(* What a sender's record x takes for granted.                             *)
Fits(x) ==
    /\ x.pc \notin Early => cadence.claimed
    /\ x.pc \in Chosen => x.service \in Services
    /\ x.pc \in Cleared => Clear(x.service)
    /\ x.pc \in Unfailed => failures[x.service] < MaxFailed
    /\ x.pc \in Sending => Len(rows) # 0 /\ rows[Len(rows)].service = x.service

Alone == \A v, w \in Senders :
             sender[v].pc \notin Early /\ sender[w].pc \notin Early => v = w

Shapes == /\ sender \in [Senders -> SenderState]
          /\ rows \in Seq(Row)
          /\ failures \in [Services -> 0..MaxFailed]

(* A row is of its time, and of no time before the row before it.          *)
RowsInTime ==
    /\ \A n \in DOMAIN rows :
          /\ rows[n].at <= Now(rows[n].service)
          /\ rows[n].sentAt # 0 => rows[n].at <= rows[n].sentAt
    /\ \A m, n \in DOMAIN rows :
          m < n /\ rows[m].service = rows[n].service
          => rows[m].at <= rows[n].at

(* OncePerCycle, whether or not the second email went out.                 *)
Once == \A m, n \in DOMAIN rows :
            /\ m < n /\ rows[m].mailed
            /\ rows[m].service = rows[n].service /\ rows[m].at = rows[n].at
            => rows[m].status = "cancelled"

SendInv == /\ Shapes
           /\ Alone
           /\ \A w \in Senders : Fits(sender[w])
           /\ RowsInTime
           /\ Once

-----------------------------------------------------------------------------
(* The client, the salon and the cadence keep their types.                 *)

LEMMA HappensIsKnown == ASSUME Around PROVE scene.saves \in Nat
  BY ScenesAssumption DEF Around

(* The client's own steps.                                                 *)
LEMMA ClientAround ==
    ASSUME Around, Client
    PROVE  Around'
<1>1. ASSUME NEW s \in Services, Book(s) PROVE Around'
  BY <1>1 DEF Book, Around, NoAppt, Bound, salon, sending, computing
<1>2. ASSUME NEW s \in Services, CancelPending(s) PROVE Around'
  BY <1>2 DEF CancelPending, Around, Bound, salon, computing
<1>3. ASSUME NEW s \in Services, SwitchService(s) PROVE Around'
  BY <1>3 DEF SwitchService, Around, Bound, client, sending, computing
<1>4. CASE Begins
  BY <1>4 DEF Begins, Around, NoAppt, Bound, salon, sending, computing
<1>5. CASE CancelAppt
  BY <1>5 DEF CancelAppt, Around, NoAppt, Bound, salon, sending, computing
<1>6. CASE Refuse
  BY <1>6 DEF Refuse, Around, Bound, salon, sending, computing
<1>7. CASE OptOut
  BY <1>7 DEF OptOut, Around, Cadence, Bound, salon, client, sending, computing
<1>8. ASSUME NEW c \in Computes, Complete(c) PROVE Around'
  <2>1. Still \in Computation
    BY DEF Still, Computation
  <2>2. compute' \in [Computes -> Computation]
    BY <1>8, <2>1 DEF Complete, Asked, Around, Computation
  <2>3. appt # NoAppt /\ appt.service \in Services
    BY <1>8, NoServiceAssumption DEF Complete, Around
  <2>4. visits[appt.service] + 1 <= Bound(appt.service)
    <3>1. visits[appt.service] < Bound(appt.service)
      BY <2>3 DEF Around
    <3>2. visits[appt.service] \in Nat /\ Bound(appt.service) \in Nat
      BY <2>3, BoundsAssumption DEF Around, Bound
    <3> QED BY <3>1, <3>2
  <2>5. \A s \in Services : visits[s] \in Nat /\ visits[s] <= Bound(s)
    BY DEF Around
  <2>6. /\ visits' \in [Services -> Nat]
        /\ \A s \in Services : visits'[s] <= Bound(s)
    BY <1>8, <2>3, <2>4, <2>5 DEF Complete, Around, Bound
  <2> QED BY <1>8, <2>2, <2>6 DEF Complete, Around, NoAppt, Bound, salon, sending
<1>9. ASSUME NEW c \in Computes, Predict(c) PROVE Around'
  <2>1. Still \in Computation
    BY DEF Still, Computation
  <2>2. compute' \in [Computes -> Computation]
    BY <1>9, <2>1 DEF Predict, Asked, Around, Computation
  <2> QED BY <1>9, <2>2 DEF Predict, Around, Bound, salon, client, sending
<1> QED BY <1>1, <1>2, <1>3, <1>4, <1>5, <1>6, <1>7, <1>8, <1>9 DEF Client

LEMMA AskedIsTyped ==
    ASSUME Around, NEW c \in Computes, NEW b \in BOOLEAN
    PROVE  Asked(c, b) \in [Computes -> Computation]
<1>1. [Still EXCEPT !.pc = "settings", !.run = b] \in Computation
  BY DEF Still, Computation
<1> QED BY <1>1 DEF Asked, Around

LEMMA SaveAround ==
    ASSUME Around, Save
    PROVE  Around'
<1>1. PICK enabled, lead \in BOOLEAN, min \in MinChoices :
         LET asks == \/ lead \/ min # settings.min
                     \/ enabled /\ ~settings.enabled
         IN  /\ settings' = [enabled |-> enabled, min |-> min,
                             version |-> settings.version
                                         + (IF asks THEN 1 ELSE 0)]
             /\ settings'.version <= scene.saves
             /\ \/ UNCHANGED compute
                \/ \E c \in Computes : compute' = Asked(c, TRUE)
  BY DEF Save
<1>2. compute' \in [Computes -> Computation]
  BY <1>1, AskedIsTyped DEF Around
<1>3. settings' \in [enabled : BOOLEAN, min : MinChoices, version : 0..scene.saves]
  <2>1. scene.saves \in Nat
    BY HappensIsKnown
  <2>2. settings'.version \in 0..scene.saves
    BY <1>1, <2>1 DEF Around
  <2> QED BY <1>1, <2>2
<1>4. scene' = scene /\ offered' = offered /\ UNCHANGED <<client, cadence>>
  BY DEF Save
<1> QED BY <1>2, <1>3, <1>4 DEF Around, client, Bound

LEMMA FinishIsTyped ==
    ASSUME Around, NEW c \in Computes, Finish(c)
    PROVE  compute' \in [Computes -> Computation]
<1>1. CASE GoesRound(c)
  BY <1>1, AskedIsTyped DEF Finish
<1>2. CASE ~GoesRound(c)
  <2>1. Still \in Computation
    BY DEF Still, Computation
  <2> QED BY <1>2, <2>1 DEF Finish, Around
<1> QED BY <1>1, <1>2

LEMMA WrittenAround ==
    ASSUME Around, NEW c \in Computes, NEW new \in Cadence, Written(c, new)
    PROVE  Around'
<1>1. cadence' \in Cadence
  BY DEF Written, Around, Cadence, Computation
<1>2. compute' \in [Computes -> Computation]
  BY FinishIsTyped DEF Written
<1> QED BY <1>1, <1>2 DEF Written, Around, salon, client, sending, Bound

LEMMA ComputingAround ==
    ASSUME Around, NEW c \in Computes, Computing(c)
    PROVE  Around'
<1>1. CASE ReadSettings(c)
  <2>1. settings.min \in Nat /\ settings.version \in Nat
    BY BoundsAssumption, HappensIsKnown DEF Around
  <2> DEFINE read == [compute[c] EXCEPT
                        !.pc = IF settings.enabled THEN "visits" ELSE "empty",
                        !.min = settings.min, !.version = settings.version]
  <2>2. compute[c] \in Computation
    BY DEF Around
  <2>3. read \in Computation
    BY <2>1, <2>2 DEF Computation
  <2>4. compute' = [compute EXCEPT ![c] = read]
    BY <1>1 DEF ReadSettings
  <2>5. compute' \in [Computes -> Computation]
    <3> HIDE DEF read
    <3> QED BY <2>3, <2>4 DEF Around
  <2> QED BY <1>1, <2>5 DEF ReadSettings, Around, salon, client, sending, Bound
<1>2. CASE WriteEmpty(c)
  <2>1. [cadence EXCEPT !.stats = NoStats] \in Cadence
    BY DEF Around, Cadence, NoStats, Stats
  <2> QED BY <1>2, <2>1, WrittenAround DEF WriteEmpty
<1>3. CASE ReadVisits(c)
  <2>1. compute' \in [Computes -> Computation]
    BY <1>3 DEF ReadVisits, Around, Computation
  <2> QED BY <1>3, <2>1 DEF ReadVisits, Around, salon, client, sending, Bound
<1>4. CASE WriteCadence(c)
  <2>1. PICK varied \in SUBSET Known(c) :
           LET stats == [s \in Services |->
                           IF s \notin Known(c) THEN "none"
                           ELSE IF s \in varied THEN "irregular" ELSE "regular"]
           IN  \/ Written(c, [cadence EXCEPT !.stats = stats, !.due = "none",
                                             !.service = NoService])
               \/ \E s \in Known(c), due \in {"ahead", "due"} :
                     Written(c, [cadence EXCEPT !.stats = stats, !.due = due,
                                                !.service = s])
    BY <1>4 DEF WriteCadence
  <2> DEFINE stats == [s \in Services |->
                         IF s \notin Known(c) THEN "none"
                         ELSE IF s \in varied THEN "irregular" ELSE "regular"]
  <2>2. stats \in [Services -> Stats]
    BY DEF Stats
  <2>3. [cadence EXCEPT !.stats = stats, !.due = "none", !.service = NoService]
           \in Cadence
    BY <2>2 DEF Around, Cadence
  <2>4. ASSUME NEW s \in Known(c), NEW due \in {"ahead", "due"}
        PROVE  [cadence EXCEPT !.stats = stats, !.due = due, !.service = s]
                  \in Cadence
    BY <2>2 DEF Around, Cadence, Known
  <2> QED BY <2>1, <2>3, <2>4, WrittenAround
<1>5. CASE ComputeThrows(c)
  <2>1. compute' \in [Computes -> Computation]
    BY <1>5, FinishIsTyped DEF ComputeThrows
  <2> QED BY <1>5, <2>1 DEF ComputeThrows, Around, salon, client, sending, Bound
<1> QED BY <1>1, <1>2, <1>3, <1>4, <1>5 DEF Computing

-----------------------------------------------------------------------------
(* What the senders rely on.                                               *)

LEMMA Pcs ==
    /\ Early \cap Chosen = {}
    /\ Cleared \subseteq Chosen
    /\ Unfailed \subseteq Chosen
    /\ Sending \subseteq Chosen
  BY DEF Early, Chosen, Cleared, Unfailed, Sending

(* Nobody else's step: she may come, nothing else changes.                 *)
LEMMA Undisturbed ==
    ASSUME Around, Around', SendInv, UNCHANGED <<sender, rows, failures>>,
           cadence'.claimed = cadence.claimed,
           \A s \in Services : visits[s] <= visits'[s]
    PROVE  SendInv'
<1>1. Shapes'
  BY DEF SendInv, Shapes
<1>2. Alone'
  BY DEF SendInv, Alone
<1>3. \A s \in Services : visits[s] \in Nat /\ visits'[s] \in Nat
  BY DEF Around
<1>4. \A n \in DOMAIN rows : rows[n] \in Row
  BY DEF SendInv, Shapes
<1>5. \A s \in Services : Clear(s) => Clear(s)'
  BY <1>3, <1>4 DEF Clear, Row
<1>6. \A w \in Senders : Fits(sender[w])'
  BY <1>5, Pcs DEF SendInv, Fits
<1>7. RowsInTime'
  BY <1>3, <1>4 DEF SendInv, RowsInTime, Now, Row
<1>8. Once'
  BY DEF SendInv, Once
<1> QED BY <1>1, <1>2, <1>6, <1>7, <1>8 DEF SendInv

(* A step that changes where one sender is, and nothing of the rows.       *)
LEMMA Moves ==
    ASSUME Around, SendInv, NEW w \in Senders, NEW new \in SenderState,
           sender' = [sender EXCEPT ![w] = new], Fits(new),
           new.pc \in Early \/ sender[w].pc \notin Early,
           UNCHANGED <<rows, failures, visits>>,
           cadence'.claimed = cadence.claimed
    PROVE  SendInv'
<1>1. Shapes'
  BY DEF SendInv, Shapes
<1>2. sender'[w] = new /\ \A v \in Senders : v # w => sender'[v] = sender[v]
  BY DEF SendInv, Shapes
<1>3. Alone'
  BY <1>2 DEF SendInv, Alone
<1>4. \A v \in Senders : Fits(sender[v])'
  <2>1. \A v \in Senders : Fits(sender'[v])
    BY <1>2 DEF SendInv
  <2>2. \A v \in Senders : Fits(sender'[v]) => Fits(sender[v])'
    BY DEF Fits, Clear
  <2> QED BY <2>1, <2>2
<1>5. RowsInTime'
  BY DEF SendInv, RowsInTime, Now
<1>6. Once'
  BY DEF SendInv, Once
<1> QED BY <1>1, <1>3, <1>4, <1>5, <1>6 DEF SendInv

LEMMA Stops ==
    ASSUME Around, SendInv, NEW w \in Senders, Ends(w),
           UNCHANGED <<rows, failures, visits>>,
           cadence'.claimed = cadence.claimed
    PROVE  SendInv'
<1>1. Resting \in SenderState /\ Resting.pc \in Early
  BY DEF Resting, SenderState, Stats, Early
<1>2. Fits(Resting)
  BY <1>1, Pcs DEF Fits
<1> QED BY <1>1, <1>2, Moves DEF Ends

LEMMA Continues ==
    ASSUME Around, SendInv, NEW w \in Senders, NEW pc \in Chosen, Goes(w, pc),
           sender[w].pc \notin Early, sender[w].service \in Services,
           pc \in Cleared => Clear(sender[w].service),
           pc \in Unfailed => failures[sender[w].service] < MaxFailed,
           pc \in Sending => /\ Len(rows) # 0
                             /\ rows[Len(rows)].service = sender[w].service,
           UNCHANGED <<rows, failures, visits>>,
           cadence'.claimed = cadence.claimed
    PROVE  SendInv'
<1> DEFINE new == [sender[w] EXCEPT !.pc = pc]
<1>1. sender' = [sender EXCEPT ![w] = new]
  BY DEF Goes
<1>2. /\ new \in SenderState
      /\ new.pc = pc /\ new.service = sender[w].service
  BY DEF SendInv, Shapes, SenderState
<1>3. Fits(new)
  BY <1>2 DEF SendInv, Fits
<1> HIDE DEF new
<1> QED BY <1>1, <1>2, <1>3, Moves

(* Before the claim nothing is taken for granted.                          *)
LEMMA Waits ==
    ASSUME Around, SendInv, NEW w \in Senders, NEW pc \in Early, Goes(w, pc),
           UNCHANGED <<rows, failures, visits>>,
           cadence'.claimed = cadence.claimed
    PROVE  SendInv'
<1> DEFINE new == [sender[w] EXCEPT !.pc = pc]
<1>1. sender' = [sender EXCEPT ![w] = new]
  BY DEF Goes
<1>2. new \in SenderState /\ new.pc = pc
  BY DEF SendInv, Shapes, SenderState
<1>3. Fits(new)
  BY <1>2, Pcs DEF Fits
<1> HIDE DEF new
<1> QED BY <1>1, <1>2, <1>3, Moves

(* The claim: nobody else is past it while the row is free.                *)
LEMMA ClaimKeeps ==
    ASSUME Around, SendInv, NEW w \in Senders, Claim(w)
    PROVE  SendInv'
<1>1. CASE cadence.claimed
  BY <1>1, Stops DEF Claim, client
<1>2. CASE ~cadence.claimed
  <2>1. /\ cadence' = [cadence EXCEPT !.claimed = TRUE]
        /\ Goes(w, "claimed")
        /\ UNCHANGED <<rows, failures, visits>>
    BY <1>2 DEF Claim, client
  <2>2. cadence'.claimed
    BY <2>1 DEF Around, Cadence
  <2>3. \A v \in Senders : sender[v].pc \in Early
    BY <1>2 DEF SendInv, Fits
  <2>4. /\ sender' \in [Senders -> SenderState]
        /\ sender'[w].pc = "claimed"
        /\ \A v \in Senders : v # w => sender'[v] = sender[v]
    BY <2>1 DEF Goes, SendInv, Shapes, SenderState
  <2>5. Shapes'
    BY <2>1, <2>4 DEF SendInv, Shapes
  <2>6. Alone'
    BY <2>3, <2>4 DEF Alone
  <2>7. "claimed" \notin Chosen
    BY DEF Chosen
  <2>8. \A v \in Senders : sender'[v].pc \notin Chosen
    BY <2>3, <2>4, <2>7, Pcs
  <2>9. \A v \in Senders : Fits(sender[v])'
    BY <2>2, <2>8, Pcs DEF Fits
  <2>10. RowsInTime' /\ Once'
    BY <2>1 DEF SendInv, RowsInTime, Now, Once
  <2> QED BY <2>5, <2>6, <2>9, <2>10 DEF SendInv
<1> QED BY <1>1, <1>2

(* Where a row is found, the newest is: < is well founded from the end.    *)
LEMMA HasNewest ==
    ASSUME NEW n \in Nat, NEW S \in SUBSET (1..n), S # {}
    PROVE  Max(S) \in S /\ \A k \in S : k <= Max(S)
<1> DEFINE T == {k \in Nat : n - k \in S}
           Less == {p \in Nat \X Nat : p[1] < p[2]}
<1>1. T \subseteq Nat /\ T # {}
  <2>1. PICK k \in S : TRUE
    OBVIOUS
  <2>2. n - k \in Nat /\ n - (n - k) = k
    BY <2>1
  <2> QED BY <2>2
<1>2. IsWellFoundedOn(Less, Nat)
  BY NatLessThanWellFounded DEF OpToRel
<1>3. PICK x \in T : \A y \in T : <<y, x>> \notin Less
  <2> HIDE DEF T, Less
  <2> QED BY <1>1, <1>2, WFMin
<1>4. n - x \in S /\ \A k \in S : n - k \in T
  BY <1>3
<1>5. ASSUME NEW k \in S PROVE n - x >= k
  <2>1. x \in Nat /\ k \in Nat /\ n - k \in Nat
    BY <1>1, <1>4
  <2>2. ~(n - k < x)
    BY <1>3, <1>4, <2>1
  <2> QED BY <2>1, <2>2
<1>6. \E m \in S : \A k \in S : m >= k
  BY <1>4, <1>5
<1>7. Max(S) \in S /\ \A k \in S : Max(S) >= k
  BY <1>6, Zenon DEF Max
<1> QED BY <1>7

(* She came since the newest reminder that stands, so since every one.     *)
LEMMA RowChecked ==
    ASSUME Around, SendInv, NEW s \in Services,
           LET row == rows[Max(Standing(s))]
               since == IF row.sentAt # 0 THEN row.sentAt ELSE row.at
           IN  Standing(s) = {} \/ CompletedSince(s, since)
    PROVE  Clear(s)
<1>1. /\ \A n \in DOMAIN rows : rows[n] \in Row
      /\ Len(rows) \in Nat /\ DOMAIN rows = 1..Len(rows)
      /\ visits[s] \in Nat
  BY DEF SendInv, Shapes, Around
<1>2. Standing(s) \in SUBSET (1..Len(rows))
  BY <1>1 DEF Standing
<1>3. CASE Standing(s) = {}
  BY <1>1, <1>3 DEF Clear, Standing, StandingStatus, Row
<1>4. CASE Standing(s) # {}
  <2> DEFINE last == Max(Standing(s))
  <2>1. last \in Standing(s) /\ \A k \in Standing(s) : k <= last
    BY <1>1, <1>2, <1>4, HasNewest
  <2> HIDE DEF last
  <2>2. last \in DOMAIN rows /\ rows[last].service = s
    BY <2>1 DEF Standing
  <2>3. rows[last].at <= visits[s]
    <3>1. /\ rows[last].at \in Nat /\ rows[last].sentAt \in Nat
          /\ rows[last].sentAt # 0 => rows[last].at <= rows[last].sentAt
      BY <1>1, <2>2 DEF SendInv, RowsInTime, Row
    <3>2. visits[s] >= IF rows[last].sentAt # 0 THEN rows[last].sentAt
                                               ELSE rows[last].at
      BY <1>4 DEF CompletedSince, last
    <3> QED BY <1>1, <3>1, <3>2
  <2>4. ASSUME NEW n \in DOMAIN rows, rows[n].service = s,
               rows[n].status # "cancelled"
        PROVE  rows[n].at <= visits[s]
    <3>1. n \in Standing(s) /\ n <= last
      BY <1>1, <2>1, <2>4 DEF Standing, StandingStatus, Row
    <3>2. rows[n].at <= rows[last].at
      BY <1>1, <2>2, <2>4, <3>1 DEF SendInv, RowsInTime, Row
    <3> QED BY <1>1, <2>2, <2>3, <3>2 DEF Row
  <2> QED BY <2>4 DEF Clear
<1> QED BY <1>3, <1>4

(* Where a sender is, past the claim.                                      *)
LEMMA PastClaim ==
    ASSUME SendInv, NEW w \in Senders
    PROVE  /\ sender[w] \in SenderState
           /\ sender[w].pc \in Chosen => /\ sender[w].pc \notin Early
                                         /\ sender[w].service \in Services
           /\ sender[w].pc \in Cleared => Clear(sender[w].service)
           /\ sender[w].pc \in Unfailed => failures[sender[w].service] < MaxFailed
           /\ sender[w].pc \in Sending => /\ Len(rows) # 0
                                          /\ rows[Len(rows)].service = sender[w].service
  BY Pcs DEF SendInv, Shapes, Fits

LEMMA SkipsKeeps ==
    ASSUME Around, SendInv, NEW w \in Senders, sender[w].pc \in Chosen, Skips(w),
           UNCHANGED <<rows, failures, visits>>, cadence'.claimed = cadence.claimed
    PROVE  SendInv'
<1>1. CASE Ends(w)
  BY <1>1, Stops
<1>2. CASE Goes(w, "advance")
  <2>1. "advance" \in Chosen \ (Cleared \cup Unfailed \cup Sending)
    BY DEF Chosen, Cleared, Unfailed, Sending
  <2> QED BY <1>2, <2>1, PastClaim, Continues
<1> QED BY <1>1, <1>2 DEF Skips

(* Until the row is created each step is the sender's own.                 *)
LEMMA LookKeeps ==
    ASSUME Around, SendInv, NEW w \in Senders, List(w) \/ Look(w)
    PROVE  SendInv'
<1>1. /\ {"offered", "cycle", "row", "upcoming", "allowed", "failures",
          "create", "advance"} \subseteq Chosen
      /\ {"offered", "cycle", "row", "advance"} \cap Cleared = {}
      /\ {"upcoming", "allowed", "failures", "create"} \subseteq Cleared
      /\ {"offered", "cycle", "row", "upcoming", "allowed", "failures",
          "advance"} \cap Unfailed = {}
      /\ {"offered", "cycle", "row", "upcoming", "allowed", "failures",
          "create", "advance"} \cap Sending = {}
      /\ {"listed", "batch"} \subseteq Early
      /\ {"claimed", "enabled"} \cap (Chosen \cup Early) = {}
  BY DEF Chosen, Cleared, Unfailed, Sending, Early
<1>2. CASE Claim(w)
  BY <1>2, ClaimKeeps
<1>3. ASSUME OnlySender
      PROVE  UNCHANGED <<rows, failures, visits>> /\ cadence' = cadence
  BY <1>3 DEF OnlySender, client
<1>4. CASE List(w)
  BY <1>1, <1>3, <1>4, Waits DEF List
<1>5. CASE CheckSalon(w)
  <2>1. CASE Goes(w, "batch")
    BY <1>1, <1>3, <1>5, <2>1, Waits DEF CheckSalon
  <2>2. CASE Ends(w)
    BY <1>3, <1>5, <2>2, Stops DEF CheckSalon
  <2> QED BY <1>5, <2>1, <2>2 DEF CheckSalon
<1>6. CASE Read(w)
  <2>1. CASE cadence.optedOut
    BY <1>3, <1>6, <2>1, Stops DEF Read
  <2>2. CASE ~cadence.optedOut
    <3> DEFINE new == [pc |-> "enabled", service |-> cadence.service,
                       stats |-> IF cadence.service = NoService THEN "none"
                                 ELSE cadence.stats[cadence.service],
                       sentFor |-> cadence.sentFor]
    <3>1. sender' = [sender EXCEPT ![w] = new]
      BY <1>6, <2>2 DEF Read
    <3>2. new \in SenderState
      BY DEF SenderState, Around, Cadence, Stats
    <3>3. sender[w].pc \notin Early /\ cadence.claimed
      BY <1>1, <1>6 DEF Read, At, SendInv, Fits
    <3>4. new.pc = "enabled"
      OBVIOUS
    <3> HIDE DEF new
    <3>5. Fits(new)
      BY <1>1, <3>3, <3>4, Pcs DEF Fits
    <3> QED BY <1>3, <1>6, <3>1, <3>2, <3>3, <3>5, Moves DEF Read
  <2> QED BY <2>1, <2>2
<1>7. CASE CheckEnabled(w)
  <2>1. CASE Goes(w, "offered") /\ sender[w].service # NoService
    <3>1. sender[w].pc \notin Early
      BY <1>1, <1>7 DEF CheckEnabled, At
    <3>2. sender[w].service \in Services
      BY <2>1, PastClaim DEF SenderState
    <3> QED BY <1>1, <1>3, <1>7, <2>1, <3>1, <3>2, Continues DEF CheckEnabled
  <2>2. CASE Ends(w)
    BY <1>3, <1>7, <2>2, Stops DEF CheckEnabled
  <2> QED BY <1>7, <2>1, <2>2 DEF CheckEnabled
<1>8. CASE CheckOffered(w)
  <2>1. CASE Goes(w, "cycle")
    BY <1>1, <1>3, <1>8, <2>1, PastClaim, Continues DEF CheckOffered, At
  <2>2. CASE Ends(w)
    BY <1>3, <1>8, <2>2, Stops DEF CheckOffered
  <2> QED BY <1>8, <2>1, <2>2 DEF CheckOffered
<1>9. CASE CheckCycle(w)
  <2>1. CASE Goes(w, "row")
    BY <1>1, <1>3, <1>9, <2>1, PastClaim, Continues DEF CheckCycle, At
  <2>2. CASE Ends(w)
    BY <1>3, <1>9, <2>2, Stops DEF CheckCycle
  <2> QED BY <1>9, <2>1, <2>2 DEF CheckCycle
<1>10. CASE CheckRow(w)
  <2> DEFINE s == sender[w].service
             row == rows[Max(Standing(s))]
             since == IF row.sentAt # 0 THEN row.sentAt ELSE row.at
  <2>1. CASE Standing(s) # {} /\ ~CompletedSince(s, since)
    <3>1. Ends(w)
      BY <1>10, <2>1 DEF CheckRow
    <3> QED BY <1>3, <1>10, <3>1, Stops DEF CheckRow
  <2>2. CASE Standing(s) = {} \/ CompletedSince(s, since)
    <3>1. Goes(w, "upcoming")
      BY <1>10, <2>2 DEF CheckRow
    <3>2. s \in Services /\ sender[w].pc \notin Early
      BY <1>1, <1>10, PastClaim DEF CheckRow, At
    <3>3. Clear(s)
      BY <2>2, <3>2, RowChecked
    <3> QED BY <1>1, <1>3, <1>10, <3>1, <3>2, <3>3, Continues DEF CheckRow
  <2> QED BY <2>1, <2>2
<1>11. CASE CheckUpcoming(w)
  <2>1. CASE Ends(w)
    BY <1>3, <1>11, <2>1, Stops DEF CheckUpcoming
  <2>2. CASE Goes(w, "advance")
    BY <1>1, <1>3, <1>11, <2>2, PastClaim, Continues DEF CheckUpcoming, At
  <2>3. CASE Goes(w, "allowed")
    BY <1>1, <1>3, <1>11, <2>3, PastClaim, Continues DEF CheckUpcoming, At
  <2> QED BY <1>11, <2>1, <2>2, <2>3 DEF CheckUpcoming
<1>12. CASE CheckAllowed(w)
  <2>1. CASE Skips(w)
    BY <1>1, <1>3, <1>12, <2>1, SkipsKeeps DEF CheckAllowed, At
  <2>2. CASE Goes(w, "failures")
    BY <1>1, <1>3, <1>12, <2>2, PastClaim, Continues DEF CheckAllowed, At
  <2> QED BY <1>12, <2>1, <2>2 DEF CheckAllowed
<1>13. CASE CheckFailures(w)
  <2>1. CASE Skips(w)
    BY <1>1, <1>3, <1>13, <2>1, SkipsKeeps DEF CheckFailures, At
  <2>2. CASE Goes(w, "create") /\ ~TooMany(sender[w].service)
    <3>1. sender[w].service \in Services
      BY <1>1, <1>13, PastClaim DEF CheckFailures, At
    <3>2. failures[sender[w].service] \in Nat /\ MaxFailed \in Nat
      BY <3>1, BoundsAssumption DEF SendInv, Shapes
    <3>3. failures[sender[w].service] < MaxFailed
      BY <2>2, <3>2 DEF TooMany
    <3> QED BY <1>1, <1>3, <1>13, <2>2, <3>3, PastClaim, Continues
            DEF CheckFailures, At
  <2> QED BY <1>13, <2>1, <2>2 DEF CheckFailures
<1> QED BY <1>2, <1>4, <1>5, <1>6, <1>7, <1>8, <1>9, <1>10, <1>11, <1>12, <1>13
        DEF Look

(* What changes under a sender past the claim changes under nobody else.   *)
LEMMA WorksAlone ==
    ASSUME SendInv, NEW w \in Senders, sender[w].pc \notin Early,
           sender' \in [Senders -> SenderState],
           \A v \in Senders : v # w => sender'[v] = sender[v],
           Fits(sender[w])', rows' \in Seq(Row),
           failures' \in [Services -> 0..MaxFailed], RowsInTime', Once'
    PROVE  SendInv'
<1>1. \A v \in Senders : v # w => sender'[v].pc \in Early
  BY DEF SendInv, Alone
<1>2. Alone'
  BY <1>1 DEF Alone
<1>3. \A v \in Senders : Fits(sender[v])'
  BY <1>1, Pcs DEF Fits
<1> QED BY <1>2, <1>3 DEF SendInv, Shapes

LEMMA GoesTo ==
    ASSUME SendInv, NEW w \in Senders, NEW pc \in Chosen, Goes(w, pc)
    PROVE  /\ sender' \in [Senders -> SenderState]
           /\ \A v \in Senders : v # w => sender'[v] = sender[v]
           /\ sender'[w].pc = pc /\ sender'[w].service = sender[w].service
  BY DEF Goes, SendInv, Shapes, SenderState

LEMMA EndsTo ==
    ASSUME SendInv, NEW w \in Senders, Ends(w)
    PROVE  /\ sender' \in [Senders -> SenderState]
           /\ \A v \in Senders : v # w => sender'[v] = sender[v]
           /\ sender'[w].pc \in Early
<1>1. Resting \in SenderState /\ Resting.pc \in Early
  BY DEF Resting, SenderState, Stats, Early
<1> QED BY <1>1 DEF Ends, SendInv, Shapes

(* A row that follows them all, in a cycle with no email before it.        *)
LEMMA CreateKeeps ==
    ASSUME Around, SendInv, NEW w \in Senders, Create(w)
    PROVE  SendInv'
<1> DEFINE s == sender[w].service
           row == [service |-> s, at |-> Now(s), sentAt |-> 0,
                   status |-> "scheduled", mailed |-> FALSE]
           last == Len(rows) + 1
<1>1. /\ sender[w].pc = "create"
      /\ "create" \in Chosen \cap Cleared \cap Unfailed
      /\ "deliver" \in (Chosen \cap Unfailed \cap Sending) \ Cleared
  BY DEF Create, At, Chosen, Cleared, Unfailed, Sending
<1>2. /\ s \in Services /\ Clear(s) /\ failures[s] < MaxFailed
      /\ sender[w].pc \notin Early
  BY <1>1, PastClaim
<1>3. visits[s] \in Nat /\ Now(s) = visits[s] + 1
  BY <1>2 DEF Around, Now
<1>4. row \in Row
  BY <1>2, <1>3 DEF Row
<1>5. rows \in Seq(Row) /\ rows' = Append(rows, row) /\ visits' = visits
  BY DEF Create, SendInv, Shapes, client
<1>6. row.service = s /\ row.at = Now(s) /\ row.sentAt = 0
  OBVIOUS
<1> HIDE DEF row
<1>7. /\ rows' \in Seq(Row) /\ Len(rows') = last
      /\ DOMAIN rows' = 1..last /\ last \in Nat /\ DOMAIN rows = 1..Len(rows)
      /\ \A n \in DOMAIN rows' : n # last => n \in DOMAIN rows /\ rows'[n] = rows[n]
      /\ rows'[last] = row
      /\ \A n \in DOMAIN rows' : ~(last < n) /\ n \in Nat
      /\ \A n \in DOMAIN rows : rows[n] \in Row
  BY <1>4, <1>5
<1> HIDE DEF last
<1>8. RowsInTime'
  <2>1. ASSUME NEW n \in DOMAIN rows'
        PROVE  /\ rows'[n].at <= Now(rows[n].service)'
               /\ rows'[n].sentAt # 0 => rows'[n].at <= rows'[n].sentAt
    <3>1. CASE n = last
      BY <1>3, <1>5, <1>6, <1>7, <3>1 DEF Now
    <3>2. CASE n # last
      BY <1>5, <1>7, <3>2 DEF SendInv, RowsInTime, Now
    <3> QED BY <3>1, <3>2
  <2>2. ASSUME NEW m \in DOMAIN rows', NEW n \in DOMAIN rows',
               m < n, rows'[m].service = rows'[n].service
        PROVE  rows'[m].at <= rows'[n].at
    <3>1. m # last
      BY <1>7, <2>2
    <3>2. CASE n = last
      BY <1>6, <1>7, <2>2, <3>1, <3>2 DEF SendInv, RowsInTime
    <3>3. CASE n # last
      BY <1>7, <2>2, <3>1, <3>3 DEF SendInv, RowsInTime
    <3> QED BY <3>2, <3>3
  <2> QED BY <2>1, <2>2 DEF RowsInTime
<1>9. Once'
  <2> SUFFICES ASSUME NEW m \in DOMAIN rows', NEW n \in DOMAIN rows',
                      m < n, rows'[m].mailed,
                      rows'[m].service = rows'[n].service,
                      rows'[m].at = rows'[n].at
               PROVE  rows'[m].status = "cancelled"
    BY DEF Once
  <2>1. m # last
    BY <1>7
  <2>2. CASE n = last
    BY <1>2, <1>3, <1>6, <1>7, <2>1, <2>2 DEF Clear, Row
  <2>3. CASE n # last
    BY <1>7, <2>1, <2>3 DEF SendInv, Once
  <2> QED BY <2>2, <2>3
<1>10. /\ sender' \in [Senders -> SenderState]
       /\ \A v \in Senders : v # w => sender'[v] = sender[v]
       /\ sender'[w].pc = "deliver" /\ sender'[w].service = s
  BY <1>1, GoesTo DEF Create
<1>11. Fits(sender[w])'
  BY <1>1, <1>2, <1>6, <1>7, <1>10 DEF Fits, Create, SendInv, last
<1>12. failures' \in [Services -> 0..MaxFailed]
  BY DEF Create, SendInv, Shapes
<1> QED BY <1>2, <1>7, <1>8, <1>9, <1>10, <1>11, <1>12, WorksAlone

(* Nothing follows the last row, so what it becomes matters to no other.   *)
LEMMA LastChanges ==
    ASSUME Around, SendInv, Len(rows) # 0, NEW r \in Row,
           r.service = rows[Len(rows)].service, r.at = rows[Len(rows)].at,
           r.sentAt # 0 => r.at <= r.sentAt,
           rows' = [rows EXCEPT ![Len(rows)] = r], visits' = visits
    PROVE  /\ rows' \in Seq(Row) /\ Len(rows') = Len(rows)
           /\ rows'[Len(rows')].service = rows[Len(rows)].service
           /\ RowsInTime' /\ Once'
<1> DEFINE last == Len(rows)
<1>1. /\ rows \in Seq(Row) /\ last \in Nat
      /\ rows' \in Seq(Row) /\ Len(rows') = last
      /\ DOMAIN rows' = DOMAIN rows /\ last \in DOMAIN rows
      /\ rows'[last] = r /\ \A n \in DOMAIN rows : ~(last < n) /\ n \in Nat
      /\ \A n \in DOMAIN rows : n # last => rows'[n] = rows[n]
  BY DEF SendInv, Shapes
<1> HIDE DEF last
<1>2. \A n \in DOMAIN rows : rows'[n].service = rows[n].service
                             /\ rows'[n].at = rows[n].at
  BY <1>1 DEF last
<1>3. RowsInTime'
  BY <1>1, <1>2 DEF SendInv, RowsInTime, Now
<1>4. Once'
  BY <1>1, <1>2 DEF SendInv, Once
<1> QED BY <1>1, <1>3, <1>4 DEF last

LEMMA DeliveredKeeps ==
    ASSUME Around, SendInv, NEW w \in Senders, Delivered(w)
    PROVE  SendInv'
<1> DEFINE r == [rows[Len(rows)] EXCEPT !.mailed = TRUE]
<1>1. /\ sender[w].pc = "deliver" /\ "deliver" \in Chosen \cap Sending
      /\ "sent" \in (Chosen \cap Sending) \ (Cleared \cup Unfailed)
  BY DEF Delivered, At, Chosen, Sending, Cleared, Unfailed
<1>2. /\ Len(rows) # 0 /\ rows[Len(rows)].service = sender[w].service
      /\ sender[w].service \in Services /\ sender[w].pc \notin Early
  BY <1>1, PastClaim
<1>3. rows[Len(rows)] \in Row /\ Len(rows) \in DOMAIN rows
  BY <1>2 DEF SendInv, Shapes
<1>4. /\ r \in Row /\ r.service = rows[Len(rows)].service
      /\ r.at = rows[Len(rows)].at /\ r.sentAt = rows[Len(rows)].sentAt
  BY <1>3 DEF Row
<1>5. r.sentAt # 0 => r.at <= r.sentAt
  BY <1>3, <1>4 DEF SendInv, RowsInTime
<1>6. rows' = [rows EXCEPT ![Len(rows)] = r] /\ visits' = visits
  BY DEF Delivered, Mine, client
<1> HIDE DEF r
<1>7. /\ rows' \in Seq(Row) /\ Len(rows') = Len(rows)
      /\ rows'[Len(rows')].service = rows[Len(rows)].service
      /\ RowsInTime' /\ Once'
  BY <1>2, <1>4, <1>5, <1>6, LastChanges
<1>8. /\ sender' \in [Senders -> SenderState]
      /\ \A v \in Senders : v # w => sender'[v] = sender[v]
      /\ sender'[w].pc = "sent" /\ sender'[w].service = sender[w].service
  BY <1>1, GoesTo DEF Delivered
<1>9. Fits(sender[w])' /\ failures' \in [Services -> 0..MaxFailed]
  BY <1>1, <1>2, <1>7, <1>8 DEF Fits, Delivered, SendInv, Shapes
<1> QED BY <1>2, <1>7, <1>8, <1>9, WorksAlone

LEMMA RecordSentKeeps ==
    ASSUME Around, SendInv, NEW w \in Senders, RecordSent(w)
    PROVE  SendInv'
<1> DEFINE s == sender[w].service
           r == [rows[Len(rows)] EXCEPT !.status = "sent", !.sentAt = Now(s)]
<1>1. /\ sender[w].pc = "sent" /\ "sent" \in Chosen \cap Sending
      /\ "remember" \in Chosen \ (Cleared \cup Unfailed \cup Sending)
  BY DEF RecordSent, At, Chosen, Sending, Cleared, Unfailed
<1>2. /\ Len(rows) # 0 /\ rows[Len(rows)].service = s
      /\ s \in Services /\ sender[w].pc \notin Early
  BY <1>1, PastClaim
<1>3. /\ rows[Len(rows)] \in Row /\ Len(rows) \in DOMAIN rows
      /\ Now(s) \in Nat /\ rows[Len(rows)].at <= Now(s)
  BY <1>2 DEF SendInv, Shapes, RowsInTime, Around, Now
<1>4. /\ r \in Row /\ r.service = rows[Len(rows)].service
      /\ r.at = rows[Len(rows)].at /\ r.sentAt = Now(s)
  BY <1>3 DEF Row
<1>5. rows' = [rows EXCEPT ![Len(rows)] = r] /\ visits' = visits
  BY DEF RecordSent, Mine, client
<1> HIDE DEF r
<1>6. rows' \in Seq(Row) /\ RowsInTime' /\ Once'
  BY <1>2, <1>3, <1>4, <1>5, LastChanges
<1>7. failures' \in [Services -> 0..MaxFailed] /\ cadence' = cadence
  BY DEF RecordSent, SendInv, Shapes
<1>8. CASE Ends(w)
  <2>1. Fits(sender[w])'
    BY <1>8, EndsTo, Pcs DEF Fits
  <2> QED BY <1>2, <1>6, <1>7, <1>8, <2>1, EndsTo, WorksAlone
<1>9. CASE Goes(w, "remember")
  <2>1. /\ sender' \in [Senders -> SenderState]
        /\ \A v \in Senders : v # w => sender'[v] = sender[v]
        /\ sender'[w].pc = "remember" /\ sender'[w].service = s
    BY <1>1, <1>9, GoesTo
  <2>2. Fits(sender[w])'
    BY <1>1, <1>2, <1>7, <2>1 DEF Fits, SendInv
  <2> QED BY <1>2, <1>6, <1>7, <2>1, <2>2, WorksAlone
<1> QED BY <1>8, <1>9 DEF RecordSent

(* The failed row goes; the failure was still within the limit.            *)
LEMMA RecordFailedKeeps ==
    ASSUME Around, SendInv, NEW w \in Senders, RecordFailed(w)
    PROVE  SendInv'
<1> DEFINE s == sender[w].service
<1>1. /\ sender[w].pc \in {"failed", "permanent"}
      /\ {"failed", "permanent"} \subseteq Chosen \cap Sending \cap Unfailed
      /\ "advance" \in Chosen \ (Cleared \cup Unfailed \cup Sending)
  BY DEF RecordFailed, Chosen, Sending, Cleared, Unfailed
<1>2. /\ Len(rows) # 0 /\ failures[s] < MaxFailed
      /\ s \in Services /\ sender[w].pc \notin Early
  BY <1>1, PastClaim
<1>3. failures' \in [Services -> 0..MaxFailed]
  <2>1. failures[s] \in 0..MaxFailed /\ MaxFailed \in Nat
    BY <1>2, BoundsAssumption DEF SendInv, Shapes
  <2>2. failures[s] + 1 \in 0..MaxFailed
    BY <1>2, <2>1
  <2> QED BY <2>2 DEF RecordFailed, SendInv, Shapes
<1>4. /\ rows \in Seq(Row) /\ rows' = SubSeq(rows, 1, Len(rows) - 1)
      /\ visits' = visits /\ cadence' = cadence
  BY DEF RecordFailed, Front, SendInv, Shapes, client
<1>5. /\ rows' \in Seq(Row) /\ DOMAIN rows' \subseteq DOMAIN rows
      /\ \A n \in DOMAIN rows' : rows'[n] = rows[n]
  BY <1>2, <1>4
<1>6. RowsInTime' /\ Once'
  BY <1>4, <1>5 DEF SendInv, RowsInTime, Once, Now
<1>7. CASE Ends(w)
  <2>1. Fits(sender[w])'
    BY <1>7, EndsTo, Pcs DEF Fits
  <2> QED BY <1>2, <1>3, <1>5, <1>6, <1>7, <2>1, EndsTo, WorksAlone
<1>8. CASE Goes(w, "advance")
  <2>1. /\ sender' \in [Senders -> SenderState]
        /\ \A v \in Senders : v # w => sender'[v] = sender[v]
        /\ sender'[w].pc = "advance" /\ sender'[w].service = s
    BY <1>1, <1>8, GoesTo
  <2>2. Fits(sender[w])'
    BY <1>1, <1>2, <1>4, <2>1 DEF Fits, SendInv
  <2> QED BY <1>2, <1>3, <1>5, <1>6, <2>1, <2>2, WorksAlone
<1> QED BY <1>7, <1>8 DEF RecordFailed, Skips

(* The rest of a sender's steps leave the rows alone.                      *)
LEMMA NotDeliveredKeeps ==
    ASSUME Around, SendInv, NEW w \in Senders, NotDelivered(w)
    PROVE  SendInv'
<1>1. PICK pc \in {"failed", "permanent"} : Goes(w, pc)
  BY DEF NotDelivered
<1>2. /\ sender[w].pc = "deliver" /\ "deliver" \in Chosen \cap Sending \cap Unfailed
      /\ pc \in Chosen \ Cleared
  BY DEF NotDelivered, At, Chosen, Sending, Cleared, Unfailed
<1> QED BY <1>1, <1>2, PastClaim, Continues DEF NotDelivered, OnlySender, client

LEMMA RememberKeeps ==
    ASSUME Around, SendInv, NEW w \in Senders, Remember(w)
    PROVE  SendInv' /\ cadence' \in Cadence
<1>1. /\ sender[w].pc = "remember" /\ "remember" \in Chosen
      /\ "advance" \in Chosen \ (Cleared \cup Unfailed \cup Sending)
  BY DEF Remember, At, Chosen, Sending, Cleared, Unfailed
<1>2. sender[w].service \in Services /\ sender[w].sentFor \in [Services -> Nat]
  BY <1>1, PastClaim DEF SenderState
<1>3. Now(sender[w].service) \in Nat
  BY <1>2 DEF Around, Now
<1>4. cadence' \in Cadence /\ cadence'.claimed = cadence.claimed
  BY <1>2, <1>3 DEF Remember, Around, Cadence
<1> QED BY <1>1, <1>4, PastClaim, Continues DEF Remember, client

LEMMA AdvanceKeeps ==
    ASSUME Around, SendInv, NEW w \in Senders, Advance(w)
    PROVE  SendInv' /\ cadence' \in Cadence
<1>1. sender[w].service \in Services
  BY PastClaim DEF Advance, At, Chosen
<1>2. cadence' \in Cadence /\ cadence'.claimed = cadence.claimed
  BY <1>1 DEF Advance, Around, Cadence
<1> QED BY <1>2, Stops DEF Advance, client

LEMMA DiesKeeps ==
    ASSUME Around, SendInv, NEW w \in Senders, Dies(w)
    PROVE  SendInv'
  BY Stops DEF Dies, client

(* Cancelled rows stand in nobody's way.                                   *)
LEMMA CancelPendingKeeps ==
    ASSUME Around, SendInv, NEW s \in Services, CancelPending(s)
    PROVE  SendInv'
<1>1. /\ rows' = [n \in DOMAIN rows |->
                    IF rows[n].service = s /\ rows[n].status = "scheduled"
                    THEN [rows[n] EXCEPT !.status = "cancelled"] ELSE rows[n]]
      /\ UNCHANGED <<visits, cadence, failures, sender>>
  BY DEF CancelPending
<1>2. /\ rows \in Seq(Row) /\ DOMAIN rows = 1..Len(rows) /\ Len(rows) \in Nat
      /\ \A n \in DOMAIN rows : rows[n] \in Row
  BY DEF SendInv, Shapes
<1>3. \A n \in DOMAIN rows :
         /\ rows'[n] \in Row /\ rows'[n].service = rows[n].service
         /\ rows'[n].at = rows[n].at /\ rows'[n].sentAt = rows[n].sentAt
         /\ rows'[n].mailed = rows[n].mailed
         /\ rows'[n].status \in {rows[n].status, "cancelled"}
  BY <1>1, <1>2 DEF Row
<1>4. DOMAIN rows' = DOMAIN rows
  BY <1>1
<1>5. rows' \in Seq(Row) /\ Len(rows') = Len(rows)
  <2>1. rows' \in [1..Len(rows) -> Row]
    BY <1>1, <1>2, <1>3
  <2> QED BY <1>2, <2>1
<1>6. Shapes' /\ Alone'
  BY <1>1, <1>5 DEF SendInv, Shapes, Alone
<1>7. \A w \in Senders : Fits(sender[w])'
  <2> SUFFICES ASSUME NEW w \in Senders PROVE Fits(sender[w])'
    OBVIOUS
  <2>1. sender[w].pc \in Cleared => Clear(sender[w].service)'
    <3>1. ASSUME sender[w].pc \in Cleared, Clear(sender[w].service)
          PROVE  Clear(sender[w].service)'
      BY <1>1, <1>3, <1>4, <3>1 DEF Clear
    <3> QED BY <3>1, PastClaim
  <2>2. Len(rows) # 0 => Len(rows) \in DOMAIN rows
    BY <1>2
  <2> QED BY <1>1, <1>3, <1>5, <2>1, <2>2 DEF SendInv, Fits
<1>8. RowsInTime'
  BY <1>1, <1>3, <1>4 DEF SendInv, RowsInTime, Now
<1>9. Once'
  BY <1>3, <1>4 DEF SendInv, Once
<1> QED BY <1>6, <1>7, <1>8, <1>9 DEF SendInv

(* The lease and the day run out when nobody is sending.                   *)
LEMMA TimeKeeps ==
    ASSUME Around, SendInv, LeaseLapses \/ DayPasses
    PROVE  SendInv'
<1>1. /\ UNCHANGED <<rows, sender, visits>>
      /\ \A w \in Senders : sender[w].pc \in Early
  BY DEF LeaseLapses, DayPasses, NobodySends, client, sending
<1>2. failures' \in [Services -> 0..MaxFailed]
  BY BoundsAssumption DEF LeaseLapses, DayPasses, sending, SendInv, Shapes
<1>3. Shapes' /\ Alone'
  BY <1>1, <1>2 DEF SendInv, Shapes, Alone
<1>4. \A w \in Senders : Fits(sender[w])'
  BY <1>1, Pcs DEF Fits
<1>5. RowsInTime' /\ Once'
  BY <1>1 DEF SendInv, RowsInTime, Once, Now
<1> QED BY <1>3, <1>4, <1>5 DEF SendInv

LEMMA TimeAround ==
    ASSUME Around, FallsDue \/ GrowsOld \/ LeaseLapses \/ DayPasses
    PROVE  Around'
<1>1. cadence' \in Cadence
  BY DEF Around, Cadence, FallsDue, GrowsOld, LeaseLapses, DayPasses
<1> QED BY <1>1 DEF Around, Bound, FallsDue, GrowsOld, LeaseLapses, DayPasses,
                    salon, client, computing

LEMMA SenderAround ==
    ASSUME Around, SendInv, NEW w \in Senders, Work(w) \/ Dies(w)
    PROVE  Around'
<1>1. UNCHANGED <<scene, settings, offered, visits, appt, compute>>
  BY DEF Work, Look, Send, List, CheckSalon, Claim, Read, CheckEnabled,
         CheckOffered, CheckCycle, CheckRow, CheckUpcoming, CheckAllowed,
         CheckFailures, Create, Delivered, NotDelivered, RecordSent,
         RecordFailed, Remember, Advance, Dies, OnlySender, salon, client,
         computing
<1>2. cadence' \in Cadence
  <2>1. CASE Remember(w) \/ Advance(w)
    BY <2>1, RememberKeeps, AdvanceKeeps
  <2>2. CASE Claim(w)
    BY <2>2 DEF Claim, Around, Cadence
  <2>3. CASE ~(Remember(w) \/ Advance(w) \/ Claim(w))
    <3>1. cadence' = cadence
      BY <2>3 DEF Work, Look, Send, List, CheckSalon, Read, CheckEnabled,
         CheckOffered, CheckCycle, CheckRow, CheckUpcoming, CheckAllowed,
         CheckFailures, Create, Delivered, NotDelivered, RecordSent,
         RecordFailed, Dies, OnlySender
    <3> QED BY <3>1 DEF Around
  <2> QED BY <2>1, <2>2, <2>3
<1> QED BY <1>1, <1>2 DEF Around, Bound

(* Steps of the client, the salon and the computations touch no sender.    *)
LEMMA ElsewhereKeeps ==
    ASSUME Around, Around', SendInv,
           \/ Client /\ ~ \E s \in Services : CancelPending(s)
           \/ Save \/ FallsDue \/ GrowsOld
           \/ \E c \in Computes : Computing(c)
           \/ UNCHANGED vars
    PROVE  SendInv'
<1>1. UNCHANGED <<rows, failures, sender>>
  BY DEF Client, Book, SwitchService, Begins, CancelAppt, Refuse, OptOut,
         Complete, Predict, Save, FallsDue, GrowsOld, Computing, ReadSettings,
         WriteEmpty, ReadVisits, WriteCadence, ComputeThrows, Written, vars,
         sending
<1>2. cadence'.claimed = cadence.claimed
  <2>1. CASE Client /\ ~ \E s \in Services : CancelPending(s)
    BY <2>1 DEF Client, Book, SwitchService, Begins, CancelAppt, Refuse,
                OptOut, Complete, Predict, Around, Cadence
  <2>2. CASE Save \/ FallsDue \/ GrowsOld \/ UNCHANGED vars
    BY <2>2 DEF Save, FallsDue, GrowsOld, vars, Around, Cadence
  <2>3. ASSUME NEW c \in Computes, Computing(c)
        PROVE  cadence'.claimed = cadence.claimed
    <3>1. CASE WriteEmpty(c)
      BY <3>1 DEF WriteEmpty, Written, Around, Cadence
    <3>2. CASE WriteCadence(c)
      <4>1. PICK stats, due, service :
               Written(c, [cadence EXCEPT !.stats = stats, !.due = due,
                                          !.service = service])
        BY <3>2 DEF WriteCadence
      <4> QED BY <4>1 DEF Written, Around, Cadence
    <3>3. CASE ReadSettings(c) \/ ReadVisits(c) \/ ComputeThrows(c)
      BY <3>3 DEF ReadSettings, ReadVisits, ComputeThrows
    <3> QED BY <2>3, <3>1, <3>2, <3>3 DEF Computing
  <2> QED BY <2>1, <2>2, <2>3
<1>3. \A s \in Services : visits[s] <= visits'[s]
  <2>1. ASSUME NEW c \in Computes, Complete(c)
        PROVE  \A s \in Services : visits[s] <= visits'[s]
    BY <2>1 DEF Complete, Around
  <2>2. CASE visits' = visits
    BY <2>2 DEF Around
  <2>3. visits' = visits \/ \E c \in Computes : Complete(c)
    BY DEF Client, Book, SwitchService, Begins, CancelAppt, Refuse, OptOut,
           Predict, Save, FallsDue, GrowsOld, Computing, ReadSettings,
           WriteEmpty, ReadVisits, WriteCadence, ComputeThrows, Written, vars,
           client
  <2> QED BY <2>1, <2>2, <2>3
<1> QED BY <1>1, <1>2, <1>3, Undisturbed

-----------------------------------------------------------------------------
(* The theorems.                                                           *)

LEMMA StepKeeps ==
    ASSUME Around, SendInv, [Next]_vars
    PROVE  Around' /\ SendInv'
<1>1. CASE Client
  <2>1. Around'
    BY <1>1, ClientAround
  <2>2. CASE \E s \in Services : CancelPending(s)
    BY <2>1, <2>2, CancelPendingKeeps
  <2>3. CASE ~ \E s \in Services : CancelPending(s)
    BY <1>1, <2>1, <2>3, ElsewhereKeeps
  <2> QED BY <2>1, <2>2, <2>3
<1>2. CASE Save
  BY <1>2, SaveAround, ElsewhereKeeps
<1>3. CASE FallsDue \/ GrowsOld
  BY <1>3, TimeAround, ElsewhereKeeps
<1>4. CASE LeaseLapses \/ DayPasses
  BY <1>4, TimeAround, TimeKeeps
<1>5. ASSUME NEW c \in Computes, Computing(c) PROVE Around' /\ SendInv'
  BY <1>5, ComputingAround, ElsewhereKeeps
<1>6. ASSUME NEW w \in Senders, Work(w) \/ Dies(w) PROVE Around' /\ SendInv'
  <2>1. SendInv'
    BY <1>6, LookKeeps, CreateKeeps, DeliveredKeeps, NotDeliveredKeeps,
       RecordSentKeeps, RecordFailedKeeps, RememberKeeps, AdvanceKeeps,
       DiesKeeps DEF Work, Send
  <2> QED BY <1>6, <2>1, SenderAround
<1>7. CASE UNCHANGED vars
  <2>1. Around'
    BY <1>7 DEF vars, salon, client, computing, Around, Bound
  <2> QED BY <1>7, <2>1, ElsewhereKeeps
<1> QED BY <1>1, <1>2, <1>3, <1>4, <1>5, <1>6, <1>7 DEF Next

LEMMA InitKeeps == Init => Around /\ SendInv
<1> SUFFICES ASSUME Init PROVE Around /\ SendInv
  OBVIOUS
<1>1. /\ scene.saves \in Nat /\ scene.services \subseteq Services
      /\ scene \in Scenes
  BY ScenesAssumption DEF Init
<1>2. Fresh \in Cadence
  BY DEF Fresh, Cadence, NoStats, Stats
<1>3. \A s \in Services : Computed(s) \in Cadence
  BY <1>2 DEF Computed, Cadence, Stats, Fresh, NoStats
<1>4. cadence \in Cadence
  BY <1>1, <1>2, <1>3 DEF Init, Regulars
<1>5. Still \in Computation
  BY DEF Still, Computation
<1>6. /\ visits \in [Services -> Nat]
      /\ \A s \in Services : visits[s] <= Bound(s)
  <2>1. /\ \A s \in Services : History[s] \in Nat
        /\ MaxVisits \in Nat
    BY BoundsAssumption
  <2>2. visits = [s \in Services |-> IF s \in offered THEN History[s] ELSE 0]
    BY DEF Init
  <2> QED BY <2>1, <2>2 DEF Bound
<1>7. Around
  BY <1>1, <1>4, <1>5, <1>6 DEF Init, Around
<1>8. /\ Resting \in SenderState /\ Resting.pc \in Early
      /\ rows = <<>> /\ DOMAIN rows = {}
  BY DEF Resting, SenderState, Stats, Early, Init
<1>9. Shapes /\ Alone
  BY <1>8, BoundsAssumption DEF Init, Shapes, Alone
<1>10. \A w \in Senders : Fits(sender[w])
  BY <1>8, Pcs DEF Init, Fits
<1>11. RowsInTime /\ Once
  BY <1>8 DEF RowsInTime, Once
<1> QED BY <1>7, <1>9, <1>10, <1>11 DEF SendInv

(* One notice per visit cycle, however many ticks overlap, wherever they   *)
(* die and whatever is recomputed, booked or refused meanwhile: only one   *)
(* sender is past the claim, and the row it finds before it creates its    *)
(* own was not older than her last visit.                                  *)
THEOREM OncePerCycleHolds == Spec => []OncePerCycle
<1>1. Init => Around /\ SendInv
  BY InitKeeps
<1>2. Around /\ SendInv /\ [Next]_vars => (Around /\ SendInv)'
  BY StepKeeps
<1>3. Around /\ SendInv => OncePerCycle
  BY DEF SendInv, Once, OncePerCycle
<1> QED BY <1>1, <1>2, <1>3, PTL DEF Spec

(* Her cadence row and the counters keep what their columns may hold; no   *)
(* more sends fail in a day than the limit lets through.                   *)
THEOREM TypesHold == Spec => []TypeOK
<1>1. Init => Around /\ SendInv
  BY InitKeeps
<1>2. Around /\ SendInv /\ [Next]_vars => (Around /\ SendInv)'
  BY StepKeeps
<1>3. Around /\ SendInv => TypeOK
  <2> SUFFICES ASSUME Around, SendInv PROVE TypeOK
    OBVIOUS
  <2>1. \A s \in Services : visits[s] \in 0..(History[s] + MaxVisits)
    BY BoundsAssumption DEF Around, Bound
  <2> QED BY <2>1 DEF Around, Cadence, Stats, SendInv, Shapes, TypeOK
<1> QED BY <1>1, <1>2, <1>3, PTL DEF Spec
=============================================================================
