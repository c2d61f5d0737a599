-------------------------- MODULE CampaignsProofs --------------------------
(***************************************************************************)
(* Proofs about Campaigns, for every list of recipients, number of         *)
(* processes, allowance, number of tries and months.                       *)
(***************************************************************************)
EXTENDS Campaigns, SumProofs

(* The batch's first recipient is one of it.                               *)
LEMMA MinIsIn ==
    ASSUME NEW S, S \subseteq Nat, S # {}
    PROVE  Min(S) \in S /\ \A y \in S : Min(S) <= y
<1> DEFINE R == {ss \in Nat \X Nat : ss[1] < ss[2]}
<1>1. IsWellFoundedOn(R, Nat)
  <2>1. OpToRel(<, Nat) = R
    BY DEF OpToRel
  <2> HIDE DEF R
  <2> QED BY <2>1, NatLessThanWellFounded
<1>2. PICK x \in S : \A y \in S : ~(<<y, x>> \in R)
  <2> HIDE DEF R
  <2> QED BY <1>1, WFMin
<1>3. \A y \in S : x <= y
  <2> SUFFICES ASSUME NEW y \in S, ~(x <= y) PROVE FALSE
    OBVIOUS
  <2>1. y \in Nat /\ x \in Nat /\ y < x
    OBVIOUS
  <2>2. <<y, x>> \in R
    BY <2>1
  <2> QED BY <1>2, <2>2
<1> QED BY <1>3 DEF Min

-----------------------------------------------------------------------------

RowType == [status : {"absent", "pending", "sending", "sent", "failed", "suppressed"},
            tries : 0..MaxTries, due : BOOLEAN, sentAt : BOOLEAN]

PCs == {"idle", "pick", "count", "finish", "next", "pack", "pause", "claim", "send",
        "giveBack", "write"}

SenderType ==
    [pc : PCs, batch : UNION {[D -> 0..MaxTries] : D \in SUBSET Recipients},
     skip : SUBSET Recipients, month : 0..MaxMonths,
     slot : [from : {"none", "plan", "pack"}, month : 0..MaxMonths],
     outcome : {"none", "notMine", "sent", "refused", "later", "tooMany"}]

\* A sender that works through a batch has one.
Listed(x) == x.pc \in {"next", "pack", "claim", "send", "giveBack", "write"}
                => DOMAIN x.batch # {}

\* The first of its batch, and whether she is its to email: from the claim of
\* her row to what became of it.
First(x) == Min(DOMAIN x.batch)
Emails(x) == \/ x.pc \in {"send", "write"}
             \/ x.pc = "giveBack" /\ x.outcome # "notMine"

\* A row claimed: nobody else finds it pending, nor its lease over.
Held(w) == \/ w.status = "suppressed"
           \/ w.status = "sending" /\ ~w.due

Types ==
    /\ TypeOK
    /\ salon \in Salons
    /\ row = [r \in Recipients |-> row[r]]
    /\ panel \in [kind : {"none", "schedule", "unschedule", "send", "add", "retry"},
                  pc : {"none", "add", "claim", "reset", "undo"}]
    /\ sender \in [Senders -> SenderType]
    /\ \A s \in Senders : Listed(sender[s])

Claimed == \A s \in Senders : Emails(sender[s]) => Held(row[First(sender[s])])

Apart == \A s, t \in Senders :
             (s # t /\ Emails(sender[s]) /\ Emails(sender[t]))
                 => First(sender[s]) # First(sender[t])

SendInv == Types /\ Claimed /\ Apart

-----------------------------------------------------------------------------
(* A step of a sender, and one of anybody else.                            *)

LEMMA FirstIsRecipient ==
    ASSUME NEW x \in SenderType, DOMAIN x.batch # {}
    PROVE  First(x) \in DOMAIN x.batch /\ First(x) \in Recipients
<1>1. DOMAIN x.batch \subseteq Recipients
  BY DEF SenderType
<1> QED BY <1>1, SalonsAssumption, MinIsIn DEF First

LEMMA OthersStep ==
    ASSUME SendInv, Types', UNCHANGED sender,
           \A s \in Senders : Emails(sender[s]) => Held(row'[First(sender[s])])
    PROVE  SendInv'
<1>1. Claimed'
  BY DEF Claimed
<1>2. Apart'
  BY DEF SendInv, Apart
<1> QED BY <1>1, <1>2 DEF SendInv

LEMMA SenderStep ==
    ASSUME SendInv, Types', NEW s \in Senders, NEW x \in SenderType,
           sender' = [sender EXCEPT ![s] = x],
           Emails(x) => /\ Held(row'[First(x)])
                        /\ \A t \in Senders \ {s} :
                              Emails(sender[t]) => First(sender[t]) # First(x),
           \A t \in Senders \ {s} :
               Emails(sender[t]) => Held(row'[First(sender[t])])
    PROVE  SendInv'
<1>1. \A t \in Senders : sender'[t] = IF t = s THEN x ELSE sender[t]
  BY DEF SendInv, Types
<1>2. Claimed'
  BY <1>1 DEF Claimed
<1>3. Apart'
  BY <1>1 DEF SendInv, Apart
<1> QED BY <1>2, <1>3 DEF SendInv

\* The types, when only one sender's record is another.
LEMMA SenderTypes ==
    ASSUME Types, NEW s \in Senders, NEW x \in SenderType, Listed(x),
           sender' = [sender EXCEPT ![s] = x]
    PROVE  sender' \in [Senders -> SenderType] /\ \A t \in Senders : Listed(sender'[t])
  BY DEF Types

LEMMA RestingIsSender == Resting \in SenderType /\ Listed(Resting) /\ ~Emails(Resting)
<1>1. Nobody \in [{} -> 0..MaxTries]
  BY DEF Nobody
<1>2. 0 \in 0..MaxMonths
  BY BoundsAssumption
<1> QED BY <1>1, <1>2 DEF Resting, SenderType, Listed, Emails, NoSlot, PCs

\* A sender's place in its run.
LEMMA Gone ==
    ASSUME NEW x \in SenderType, NEW pc \in PCs
    PROVE  /\ [x EXCEPT !.pc = pc] \in SenderType
           /\ [x EXCEPT !.pc = pc].pc = pc
           /\ [x EXCEPT !.pc = pc].batch = x.batch
           /\ [x EXCEPT !.pc = pc].outcome = x.outcome
  BY DEF SenderType

LEMMA RestIsSender ==
    ASSUME Types, NEW s \in Senders, DOMAIN sender[s].batch # {}
    PROVE  Rest(s) \in SenderType /\ Listed(Rest(s)) /\ ~Emails(Rest(s))
<1> DEFINE left == DOMAIN sender[s].batch \ {Cur(s)}
           b == [r \in left |-> sender[s].batch[r]]
<1>1. CASE left = {}
  BY <1>1, RestingIsSender DEF Rest
<1>2. CASE left # {}
  <2>1. sender[s] \in SenderType
    BY DEF Types
  <2>2. PICK D \in SUBSET Recipients : sender[s].batch \in [D -> 0..MaxTries]
    BY <2>1 DEF SenderType
  <2>3. left \in SUBSET Recipients /\ b \in [left -> 0..MaxTries] /\ DOMAIN b = left
    BY <2>2
  <2>4. NoSlot \in [from : {"none", "plan", "pack"}, month : 0..MaxMonths]
    BY BoundsAssumption DEF NoSlot
  <2> DEFINE x == [sender[s] EXCEPT !.pc = "next", !.slot = NoSlot, !.outcome = "none",
                                    !.skip = sender[s].skip \cap left, !.batch = b]
  <2>5. Rest(s) = x
    BY <1>2 DEF Rest
  <2> HIDE DEF left, b
  <2>6. x \in SenderType
    BY <2>1, <2>3, <2>4 DEF SenderType, PCs
  <2>7. x.pc = "next" /\ x.batch = b
    BY <2>1 DEF SenderType
  <2> HIDE DEF x
  <2> QED BY <1>2, <2>3, <2>5, <2>6, <2>7 DEF Listed, Emails
<1> QED BY <1>1, <1>2

-----------------------------------------------------------------------------
(* The panel, the clients and the clock.                                   *)

LEMMA PanelKeeps ==
    ASSUME SendInv, Ask \/ ClaimCampaign \/ Undo PROVE SendInv'
<1>1. UNCHANGED <<salon, row, blocked, quota, sender>>
  BY DEF Ask, ClaimCampaign, Undo, campaign
<1>2. /\ status' \in {"draft", "scheduled", "sending", "sent"} /\ paused' \in BOOLEAN
      /\ panel' \in [kind : {"none", "schedule", "unschedule", "send", "add", "retry"},
                     pc : {"none", "add", "claim", "reset", "undo"}]
  <2>1. CASE Ask
    <3>1. PICK kind \in Kinds :
             /\ status \in From(kind)
             /\ panel' = [kind |-> kind, pc |-> IF kind = "add" THEN "add" ELSE "claim"]
      BY <2>1 DEF Ask
    <3>2. kind \in {"schedule", "unschedule", "send", "add", "retry"}
      BY KindsAssumption
    <3> QED BY <2>1, <3>1, <3>2 DEF Ask, campaign, SendInv, Types, TypeOK
  <2>2. CASE ClaimCampaign
    BY <2>2 DEF ClaimCampaign, To, NoCall, SendInv, Types, TypeOK
  <2>3. CASE Undo
    BY <2>3 DEF Undo, NoCall, SendInv, Types, TypeOK
  <2> QED BY <2>1, <2>2, <2>3
<1>3. Types'
  BY <1>1, <1>2 DEF SendInv, Types, TypeOK, quota
<1> QED BY <1>1, <1>3, OthersStep DEF SendInv, Claimed

\* Rows that are not a sender's to email.
LEMMA RowsKeep ==
    ASSUME SendInv, Reset \/ AddRecipients \/ \E r \in Recipients : WaitOver(r)
    PROVE  SendInv'
<1>1. UNCHANGED <<salon, blocked, status, paused, quota, sender>>
  BY DEF Reset, AddRecipients, WaitOver
<1>2. /\ row' \in [Recipients -> RowType]
      /\ \A r \in Recipients :
            Held(row[r]) => \/ Held(row'[r])
                            \/ \A s \in Senders : ~(sender[s].pc \in {"send", "write", "giveBack"}
                                                     /\ Min(DOMAIN sender[s].batch) = r)
      /\ panel' \in [kind : {"none", "schedule", "unschedule", "send", "add", "retry"},
                     pc : {"none", "add", "claim", "reset", "undo"}]
  <2>0. row \in [Recipients -> RowType] /\ 0 \in 0..MaxTries
    BY BoundsAssumption DEF SendInv, Types, TypeOK, RowType
  <2>1. CASE Reset
    <3>1. row' = [r \in Recipients |->
                    IF row[r].status = "failed"
                    THEN [row[r] EXCEPT !.status = "pending", !.tries = 0, !.due = TRUE]
                    ELSE row[r]]
      BY <2>1 DEF Reset, With
    <3>2. ASSUME NEW r \in Recipients
          PROVE  [row[r] EXCEPT !.status = "pending", !.tries = 0, !.due = TRUE] \in RowType
      BY <2>0 DEF RowType
    <3>3. panel' \in [kind : {"none", "schedule", "unschedule", "send", "add", "retry"},
                      pc : {"none", "add", "claim", "reset", "undo"}]
      BY <2>1 DEF Reset, NoCall, SendInv, Types
    <3> QED BY <2>0, <3>1, <3>2, <3>3 DEF Held
  <2>2. CASE AddRecipients
    <3>1. PICK new \in SUBSET {r \in Recipients : row[r].status = "absent"} :
             row' = [r \in Recipients |->
                       IF r \in new THEN [row[r] EXCEPT !.status = "pending"] ELSE row[r]]
      <4>1. salon.clients \subseteq Recipients
        BY SalonsAssumption DEF SendInv, Types
      <4> QED BY <2>2, <4>1 DEF AddRecipients
    <3>2. ASSUME NEW r \in Recipients
          PROVE  [row[r] EXCEPT !.status = "pending"] \in RowType
      BY <2>0 DEF RowType
    <3>3. panel' = NoCall
      BY <2>2 DEF AddRecipients
    <3> QED BY <2>0, <3>1, <3>2, <3>3 DEF Held, NoCall
  <2>3. CASE \E r \in Recipients : WaitOver(r)
    <3>1. PICK r \in Recipients : WaitOver(r)
      BY <2>3
    <3>2. [row[r] EXCEPT !.due = TRUE] \in RowType
      BY <2>0 DEF RowType
    <3>3. row' = [row EXCEPT ![r] = [row[r] EXCEPT !.due = TRUE]]
      BY <3>1 DEF WaitOver
    <3>4. row' \in [Recipients -> RowType]
      BY <2>0, <3>2, <3>3
    <3>5. \A q \in Recipients \ {r} : row'[q] = row[q]
      BY <2>0, <3>3
    <3>6. /\ panel' = panel
          /\ \A s \in Senders : ~(sender[s].pc \in {"send", "write", "giveBack"}
                                   /\ Min(DOMAIN sender[s].batch) = r)
      BY <3>1 DEF WaitOver
    <3> QED BY <3>4, <3>5, <3>6 DEF SendInv, Types
  <2> QED BY <2>1, <2>2, <2>3
<1>3. Types'
  BY <1>1, <1>2 DEF SendInv, Types, TypeOK, quota, RowType
<1>4. ASSUME NEW s \in Senders, Emails(sender[s]) PROVE Held(row'[First(sender[s])])
  <2>1. DOMAIN sender[s].batch # {} /\ sender[s] \in SenderType
    BY <1>4 DEF Emails, SendInv, Types, Listed
  <2>2. First(sender[s]) \in Recipients /\ Held(row[First(sender[s])])
    BY <1>4, <2>1, FirstIsRecipient DEF SendInv, Claimed
  <2> QED BY <1>2, <1>4, <2>2 DEF Emails, First
<1> QED BY <1>1, <1>3, <1>4, OthersStep

LEMMA ClockKeeps ==
    ASSUME SendInv, \/ NewMonth
                    \/ \E r \in Recipients : Refuse(r)
                    \/ \E s \in Senders : StartDue(s) \/ Resume(s)
                    \/ UNCHANGED vars
    PROVE  SendInv'
<1>1. UNCHANGED <<salon, row, panel, sender, planSent, credits>>
  BY DEF NewMonth, Refuse, StartDue, Resume, vars, campaign, quota
<1>2. /\ status' \in {"draft", "scheduled", "sending", "sent"} /\ paused' \in BOOLEAN
      /\ blocked' \subseteq Recipients /\ month' \in Months
  <2> USE DEF SendInv, Types, TypeOK
  <2>1. CASE NewMonth
    BY <2>1, BoundsAssumption DEF NewMonth, Months, campaign
  <2>2. CASE \E r \in Recipients : Refuse(r)
    BY <2>2 DEF Refuse, quota
  <2>3. CASE \E s \in Senders : StartDue(s) \/ Resume(s)
    BY <2>3 DEF StartDue, Resume, quota
  <2>4. CASE UNCHANGED vars
    BY <2>4 DEF vars, campaign, quota
  <2> QED BY <2>1, <2>2, <2>3, <2>4
<1>3. Types'
  BY <1>1, <1>2 DEF SendInv, Types, TypeOK
<1> QED BY <1>1, <1>3, OthersStep DEF SendInv, Claimed

-----------------------------------------------------------------------------
(* The steps of a run.                                                     *)

LEMMA AtSender ==
    ASSUME SendInv, NEW s \in Senders
    PROVE  /\ sender[s] \in SenderType /\ Listed(sender[s])
           /\ row \in [Recipients -> RowType]
           /\ First(sender[s]) = Cur(s)
           /\ sender[s].pc \in {"next", "pack", "claim", "send", "giveBack", "write"}
                 => DOMAIN sender[s].batch # {} /\ Cur(s) \in Recipients
<1>1. sender[s] \in SenderType /\ Listed(sender[s]) /\ row \in [Recipients -> RowType]
  BY DEF SendInv, Types, TypeOK, RowType
<1>2. First(sender[s]) = Cur(s)
  BY DEF First, Cur
<1> QED BY <1>1, <1>2, FirstIsRecipient DEF Listed

\* One that goes on without claiming anything, or rests.
LEMMA MovesOn ==
    ASSUME SendInv, NEW s \in Senders, NEW x \in SenderType, Listed(x), ~Emails(x),
           sender' = [sender EXCEPT ![s] = x],
           UNCHANGED <<salon, row, panel>>,
           status' \in {"draft", "scheduled", "sending", "sent"}, paused' \in BOOLEAN,
           blocked' = blocked, month' = month,
           planSent' \in [Months -> Nat], credits' \in Nat
    PROVE  SendInv'
<1>1. sender' \in [Senders -> SenderType] /\ \A t \in Senders : Listed(sender'[t])
  BY SenderTypes DEF SendInv
<1>2. Types'
  BY <1>1 DEF SendInv, Types, TypeOK
<1>3. \A t \in Senders \ {s} : Emails(sender[t]) => Held(row'[First(sender[t])])
  BY DEF SendInv, Claimed
<1> QED BY <1>2, <1>3, SenderStep

\* Resting, or elsewhere in the run with the batch it has.
LEMMA GoesTo ==
    ASSUME SendInv, NEW s \in Senders, NEW pc \in PCs \ {"send", "write", "giveBack"},
           pc \in {"next", "pack", "claim"} => DOMAIN sender[s].batch # {},
           \/ sender' = [sender EXCEPT ![s].pc = pc]
           \/ sender' = [sender EXCEPT ![s] = Resting],
           UNCHANGED <<salon, row, panel, blocked, quota>>,
           status' \in {"draft", "scheduled", "sending", "sent"}, paused' \in BOOLEAN
    PROVE  SendInv'
<1>1. /\ month' = month /\ planSent' \in [Months -> Nat] /\ credits' \in Nat
      /\ blocked' = blocked
  BY DEF SendInv, Types, TypeOK, quota
<1>2. CASE sender' = [sender EXCEPT ![s] = Resting]
  BY <1>1, <1>2, RestingIsSender, MovesOn
<1>3. CASE sender' = [sender EXCEPT ![s].pc = pc]
  <2> DEFINE x == [sender[s] EXCEPT !.pc = pc]
  <2>1. x \in SenderType /\ x.pc = pc /\ x.batch = sender[s].batch
    BY AtSender, Gone
  <2>2. sender' = [sender EXCEPT ![s] = x]
    BY <1>3
  <2> HIDE DEF x
  <2>3. Listed(x) /\ ~Emails(x)
    BY <2>1 DEF Listed, Emails
  <2> QED BY <1>1, <2>1, <2>2, <2>3, MovesOn
<1> QED BY <1>2, <1>3

LEMMA RunKeeps ==
    ASSUME SendInv, NEW s \in Senders,
           Load(s) \/ Count(s) \/ Finish(s) \/ Pause(s) \/ Die(s)
    PROVE  SendInv'
<1> USE DEF SendInv, Types, TypeOK
<1>1. CASE Load(s)
  BY <1>1, GoesTo DEF Load, Goto, campaign, PCs
<1>2. CASE Count(s)
  BY <1>2, GoesTo DEF Count, Goto, campaign, PCs
<1>3. CASE Finish(s)
  BY <1>3, GoesTo DEF Finish, Goto, PCs
<1>4. CASE Pause(s)
  <2>1. "idle" \in PCs \ {"send", "write", "giveBack"} /\ paused' \in BOOLEAN
    BY <1>4 DEF Pause, PCs
  <2> QED BY <1>4, <2>1, GoesTo DEF Pause
<1>5. CASE Die(s)
  <2>1. "idle" \in PCs \ {"send", "write", "giveBack"}
    BY DEF PCs
  <2> QED BY <1>5, <2>1, GoesTo DEF Die, campaign
<1> QED BY <1>1, <1>2, <1>3, <1>4, <1>5

\* The sweep takes no row that is being emailed.
LEMMA PickKeeps ==
    ASSUME SendInv, NEW s \in Senders, Pick(s) PROVE SendInv'
<1> DEFINE due == {r \in Recipients : row'[r].status = "pending" /\ row'[r].due}
           b == [r \in due |-> row[r].tries]
           pc == IF due = {} THEN "count" ELSE "next"
           m == IF due = {} THEN 0 ELSE month
           x == [sender[s] EXCEPT !.pc = pc, !.batch = b, !.skip = blocked \cap due,
                                  !.month = m]
<1>1. sender[s] \in SenderType /\ row \in [Recipients -> RowType]
  BY AtSender
<1>2. sender' = [sender EXCEPT ![s] = x] /\ UNCHANGED <<salon, blocked, status, paused, quota, panel>>
  BY DEF Pick
<1>3. row' = [r \in Recipients |-> IF r \in Lapsed THEN [row[r] EXCEPT !.status = "pending"]
                                                   ELSE row[r]]
  BY DEF Pick
<1>4. row' \in [Recipients -> RowType] /\ \A r \in Recipients : Held(row[r]) => row'[r] = row[r]
  <2>1. ASSUME NEW r \in Recipients PROVE [row[r] EXCEPT !.status = "pending"] \in RowType
    BY <1>1 DEF RowType
  <2>2. \A r \in Recipients : Held(row[r]) => r \notin Lapsed
    BY DEF Held, Lapsed, With
  <2> QED BY <1>1, <1>3, <2>1, <2>2
<1>5. due \in SUBSET Recipients /\ b \in [due -> 0..MaxTries] /\ DOMAIN b = due
  BY <1>1 DEF RowType
<1>6. pc \in PCs /\ m \in 0..MaxMonths
  BY BoundsAssumption DEF PCs, SendInv, Types, TypeOK, Months
<1>7. (pc = "next" => due # {}) /\ pc \in {"count", "next"}
  OBVIOUS
<1> HIDE DEF due, b, pc, m
<1>8. x \in SenderType /\ x.pc = pc /\ x.batch = b
  <2> DEFINE B == UNION {[D -> 0..MaxTries] : D \in SUBSET Recipients}
             k == blocked \cap due
  <2>1. b \in B
    BY <1>5
  <2>2. k \in SUBSET Recipients
    BY <1>5
  <2>3. SenderType = [pc : PCs, batch : B, skip : SUBSET Recipients, month : 0..MaxMonths,
           slot : [from : {"none", "plan", "pack"}, month : 0..MaxMonths],
           outcome : {"none", "notMine", "sent", "refused", "later", "tooMany"}]
    BY DEF SenderType
  <2>4. x = [sender[s] EXCEPT !.pc = pc, !.batch = b, !.skip = k, !.month = m]
    OBVIOUS
  <2> HIDE DEF B, k, x
  <2> QED BY <1>1, <1>6, <2>1, <2>2, <2>3, <2>4
<1> HIDE DEF x
<1>9. Listed(x) /\ ~Emails(x)
  BY <1>5, <1>7, <1>8 DEF Listed, Emails
<1>10. Types'
  BY <1>2, <1>4, <1>8, <1>9, SenderTypes DEF SendInv, Types, TypeOK, RowType, quota
<1>11. ASSUME NEW t \in Senders, Emails(sender[t]) PROVE Held(row'[First(sender[t])])
  <2>1. First(sender[t]) \in Recipients
    BY <1>11, AtSender DEF Emails
  <2> QED BY <1>4, <1>11, <2>1 DEF SendInv, Claimed
<1> QED BY <1>2, <1>8, <1>9, <1>10, <1>11, SenderStep

LEMMA SkipKeeps ==
    ASSUME SendInv, NEW s \in Senders, Skip(s) PROVE SendInv'
<1>1. sender[s].pc = "next" /\ Cur(s) \in Recipients /\ DOMAIN sender[s].batch # {}
  BY AtSender DEF Skip, At
<1>2. row \in [Recipients -> RowType]
  BY AtSender
<1> DEFINE w == [row[Cur(s)] EXCEPT !.status = "suppressed", !.due = TRUE]
<1>3. w \in RowType /\ w.status = "suppressed"
  BY <1>1, <1>2 DEF RowType
<1>4. row' = [row EXCEPT ![Cur(s)] = w] /\ sender' = [sender EXCEPT ![s] = Rest(s)]
      /\ UNCHANGED <<salon, blocked, status, paused, quota, panel>>
  BY DEF Skip
<1> HIDE DEF w
<1>5. Rest(s) \in SenderType /\ Listed(Rest(s)) /\ ~Emails(Rest(s))
  BY <1>1, RestIsSender DEF SendInv
<1>6. Types'
  BY <1>2, <1>3, <1>4, <1>5, SenderTypes DEF SendInv, Types, TypeOK, RowType, quota
<1>7. ASSUME NEW t \in Senders, Emails(sender[t]) PROVE Held(row'[First(sender[t])])
  <2>1. First(sender[t]) \in Recipients /\ Held(row[First(sender[t])])
    BY <1>7, AtSender DEF Emails, SendInv, Claimed
  <2> QED BY <1>1, <1>2, <1>3, <1>4, <2>1 DEF Held
<1> QED BY <1>4, <1>5, <1>6, <1>7, SenderStep

LEMMA ReserveKeeps ==
    ASSUME SendInv, NEW s \in Senders, ReservePlan(s) \/ ReservePack(s) PROVE SendInv'
<1>1. sender[s] \in SenderType /\ DOMAIN sender[s].batch # {}
  BY AtSender DEF ReservePlan, ReservePack, At
<1>2. /\ UNCHANGED <<salon, row, panel, blocked, status, paused, month>>
      /\ planSent' \in [Months -> Nat] /\ credits' \in Nat
  <2>1. CASE ReservePlan(s)
    BY <2>1 DEF ReservePlan, campaign, SendInv, Types, TypeOK
  <2>2. CASE ReservePack(s)
    BY <2>2 DEF ReservePack, campaign, SendInv, Types, TypeOK
  <2> QED BY <2>1, <2>2
<1>3. PICK x \in SenderType : /\ sender' = [sender EXCEPT ![s] = x]
                              /\ x.pc \in {"pack", "pause", "claim"}
                              /\ x.batch = sender[s].batch
  <2>1. ASSUME NEW pc \in {"pack", "pause"}, sender' = [sender EXCEPT ![s].pc = pc]
        PROVE  \E x \in SenderType : /\ sender' = [sender EXCEPT ![s] = x]
                                     /\ x.pc \in {"pack", "pause", "claim"}
                                     /\ x.batch = sender[s].batch
    <3> DEFINE x == [sender[s] EXCEPT !.pc = pc]
    <3>1. pc \in PCs
      BY DEF PCs
    <3>2. sender' = [sender EXCEPT ![s] = x]
      BY <2>1
    <3>3. x \in SenderType /\ x.pc = pc /\ x.batch = sender[s].batch
      BY <1>1, <3>1, Gone
    <3> HIDE DEF x
    <3> QED BY <3>2, <3>3
  <2>3. ASSUME NEW from \in {"plan", "pack"}, NEW m \in 0..MaxMonths,
               sender' = [sender EXCEPT ![s] = [sender[s] EXCEPT !.pc = "claim",
                             !.slot = [from |-> from, month |-> m]]]
        PROVE  \E x \in SenderType : /\ sender' = [sender EXCEPT ![s] = x]
                                     /\ x.pc \in {"pack", "pause", "claim"}
                                     /\ x.batch = sender[s].batch
    <3> DEFINE x == [sender[s] EXCEPT !.pc = "claim",
                                      !.slot = [from |-> from, month |-> m]]
    <3>1. x \in SenderType /\ x.pc = "claim" /\ x.batch = sender[s].batch
      BY <1>1 DEF SenderType, PCs
    <3>2. sender' = [sender EXCEPT ![s] = x]
      BY <2>3
    <3> HIDE DEF x
    <3> QED BY <3>1, <3>2
  <2>4. sender[s].month \in 0..MaxMonths /\ 0 \in 0..MaxMonths
    BY <1>1, BoundsAssumption DEF SenderType
  <2>5. CASE ReservePlan(s)
    BY <2>1, <2>3, <2>4, <2>5 DEF ReservePlan, Goto
  <2>6. CASE ReservePack(s)
    BY <2>1, <2>3, <2>4, <2>6 DEF ReservePack, Goto
  <2> QED BY <2>5, <2>6
<1>4. Listed(x) /\ ~Emails(x)
  BY <1>1, <1>3 DEF Listed, Emails
<1>5. status' \in {"draft", "scheduled", "sending", "sent"} /\ paused' \in BOOLEAN
  BY <1>2 DEF SendInv, Types, TypeOK
<1> QED BY <1>2, <1>3, <1>4, <1>5, MovesOn

\* A row is claimed while it is pending, so nobody else emails it.
LEMMA ClaimKeeps ==
    ASSUME SendInv, NEW s \in Senders, Claim(s) PROVE SendInv'
<1>1. sender[s] \in SenderType /\ Cur(s) \in Recipients /\ DOMAIN sender[s].batch # {}
      /\ row \in [Recipients -> RowType]
  BY AtSender DEF Claim, At
<1>2. UNCHANGED <<salon, blocked, status, paused, quota, panel>>
  BY DEF Claim
<1>3. CASE StillPending(Cur(s))
  <2> DEFINE n == Min({row[Cur(s)].tries + 1, MaxTries})
             w == [row[Cur(s)] EXCEPT !.status = "sending", !.due = FALSE, !.tries = n]
             x == [sender[s] EXCEPT !.pc = "send"]
  <2>1. n \in 0..MaxTries
    <3>1. row[Cur(s)].tries \in Nat /\ MaxTries \in Nat
      BY <1>1, BoundsAssumption DEF RowType
    <3>2. n \in {row[Cur(s)].tries + 1, MaxTries} /\ n <= MaxTries
      <4> DEFINE S == {row[Cur(s)].tries + 1, MaxTries}
      <4>1. S \subseteq Nat /\ S # {} /\ MaxTries \in S
        BY <3>1
      <4> HIDE DEF S
      <4>2. Min(S) \in S /\ \A y \in S : Min(S) <= y
        BY <4>1, MinIsIn
      <4> QED BY <4>1, <4>2 DEF S
    <3> QED BY <3>1, <3>2
  <2>2. row' = [row EXCEPT ![Cur(s)] = w] /\ sender' = [sender EXCEPT ![s] = x]
    BY <1>3 DEF Claim, Goto
  <2> HIDE DEF n
  <2>3. w \in RowType /\ Held(w)
    BY <1>1, <2>1 DEF RowType, Held
  <2>4. x \in SenderType /\ x.pc = "send" /\ x.batch = sender[s].batch
    BY <1>1, Gone DEF PCs
  <2> HIDE DEF w, x
  <2>5. Listed(x) /\ First(x) = Cur(s)
    BY <1>1, <2>4 DEF Listed, First, Cur
  <2>6. Types'
    BY <1>1, <1>2, <2>2, <2>3, <2>4, <2>5, SenderTypes
       DEF SendInv, Types, TypeOK, RowType, quota
  <2>7. ASSUME NEW t \in Senders, Emails(sender[t])
        PROVE  First(sender[t]) # Cur(s) /\ Held(row'[First(sender[t])])
    <3>1. First(sender[t]) \in Recipients /\ Held(row[First(sender[t])])
      BY <2>7, AtSender DEF Emails, SendInv, Claimed
    <3>2. ~Held(row[Cur(s)])
      BY <1>3 DEF StillPending, Held
    <3> QED BY <1>1, <2>2, <3>1, <3>2
  <2>8. Held(row'[First(x)])
    BY <1>1, <2>2, <2>3, <2>5
  <2> QED BY <2>2, <2>4, <2>5, <2>6, <2>7, <2>8, SenderStep
<1>4. CASE ~StillPending(Cur(s))
  <2> DEFINE x == [sender[s] EXCEPT !.pc = "giveBack", !.outcome = "notMine"]
  <2>1. sender' = [sender EXCEPT ![s] = x] /\ UNCHANGED row
    BY <1>4 DEF Claim
  <2>2. x \in SenderType /\ x.pc = "giveBack" /\ x.outcome = "notMine"
        /\ x.batch = sender[s].batch
    BY <1>1 DEF SenderType, PCs
  <2> HIDE DEF x
  <2>3. Listed(x) /\ ~Emails(x)
    BY <1>1, <2>2 DEF Listed, Emails
  <2>4. /\ status' \in {"draft", "scheduled", "sending", "sent"} /\ paused' \in BOOLEAN
        /\ month' = month /\ planSent' \in [Months -> Nat] /\ credits' \in Nat
    BY <1>2 DEF SendInv, Types, TypeOK, quota
  <2> QED BY <1>2, <2>1, <2>2, <2>3, <2>4, MovesOn
<1> QED BY <1>3, <1>4

\* One that emails a recipient goes on emailing her.
LEMMA EmailsOn ==
    ASSUME SendInv, NEW s \in Senders, Emails(sender[s]), NEW x \in SenderType,
           x.pc \in {"send", "write", "giveBack"}, x.batch = sender[s].batch,
           sender' = [sender EXCEPT ![s] = x],
           UNCHANGED <<campaign, month, panel>>,
           planSent' \in [Months -> Nat], credits' \in Nat
    PROVE  SendInv'
<1>1. DOMAIN sender[s].batch # {}
  BY AtSender DEF Emails
<1>2. Listed(x) /\ First(x) = First(sender[s])
  BY <1>1 DEF Listed, First
<1>3. Types'
  BY <1>2, SenderTypes DEF SendInv, Types, TypeOK, campaign
<1>4. \A t \in Senders : Emails(sender[t]) => Held(row'[First(sender[t])])
  BY DEF SendInv, Claimed, campaign
<1>5. \A t \in Senders \ {s} : Emails(sender[t]) => First(sender[t]) # First(x)
  BY <1>2 DEF SendInv, Apart
<1> QED BY <1>2, <1>3, <1>4, <1>5, SenderStep

LEMMA SendKeeps ==
    ASSUME SendInv, NEW s \in Senders, Send(s) PROVE SendInv'
<1>1. sender[s] \in SenderType /\ Emails(sender[s])
  BY AtSender DEF Send, At, Emails
<1>2. PICK o \in {"sent", "refused", "later", "tooMany"} :
         sender' = [sender EXCEPT ![s] = [sender[s] EXCEPT !.outcome = o,
                        !.pc = IF o = "sent" THEN "write" ELSE "giveBack"]]
  BY DEF Send
<1> DEFINE pc == IF o = "sent" THEN "write" ELSE "giveBack"
           x == [sender[s] EXCEPT !.outcome = o, !.pc = pc]
<1>3. pc \in PCs /\ pc \in {"send", "write", "giveBack"}
  BY DEF PCs
<1>4. sender' = [sender EXCEPT ![s] = x]
  BY <1>2
<1> HIDE DEF pc
<1>5. x \in SenderType /\ x.pc = pc /\ x.batch = sender[s].batch
  BY <1>1, <1>3 DEF SenderType
<1> HIDE DEF x
<1>6. UNCHANGED <<campaign, month, panel, planSent, credits>>
  BY DEF Send, quota
<1> QED BY <1>1, <1>3, <1>4, <1>5, <1>6, EmailsOn DEF SendInv, Types, TypeOK

LEMMA GiveBackKeeps ==
    ASSUME SendInv, NEW s \in Senders, GiveBack(s) PROVE SendInv'
<1>1. sender[s] \in SenderType /\ DOMAIN sender[s].batch # {} /\ sender[s].pc = "giveBack"
  BY AtSender DEF GiveBack, At
<1>2. /\ UNCHANGED <<campaign, month, panel>>
      /\ planSent' \in [Months -> Nat] /\ credits' \in Nat
  BY DEF GiveBack, SendInv, Types, TypeOK
<1>3. CASE sender[s].outcome = "notMine"
  <2>1. sender' = [sender EXCEPT ![s] = Rest(s)]
    BY <1>3 DEF GiveBack
  <2>2. Rest(s) \in SenderType /\ Listed(Rest(s)) /\ ~Emails(Rest(s))
    BY <1>1, RestIsSender DEF SendInv
  <2>3. /\ UNCHANGED <<salon, row, panel, blocked>>
        /\ status' \in {"draft", "scheduled", "sending", "sent"} /\ paused' \in BOOLEAN
    BY <1>2 DEF campaign, SendInv, Types, TypeOK
  <2> QED BY <1>2, <2>1, <2>2, <2>3, MovesOn
<1>4. CASE sender[s].outcome # "notMine"
  <2> DEFINE x == [sender[s] EXCEPT !.pc = "write", !.slot = NoSlot]
  <2>1. sender' = [sender EXCEPT ![s] = x]
    BY <1>4 DEF GiveBack
  <2>2. NoSlot \in [from : {"none", "plan", "pack"}, month : 0..MaxMonths]
    BY BoundsAssumption DEF NoSlot
  <2>3. x \in SenderType /\ x.pc = "write" /\ x.batch = sender[s].batch
    BY <1>1, <2>2 DEF SenderType, PCs
  <2> HIDE DEF x
  <2>4. Emails(sender[s])
    BY <1>1, <1>4 DEF Emails
  <2> QED BY <1>2, <2>1, <2>3, <2>4, EmailsOn
<1> QED BY <1>3, <1>4

\* The row written is nobody else's to email.
LEMMA WriteKeeps ==
    ASSUME SendInv, NEW s \in Senders, Write(s) PROVE SendInv'
<1>1. /\ sender[s] \in SenderType /\ Cur(s) \in Recipients /\ DOMAIN sender[s].batch # {}
      /\ row \in [Recipients -> RowType] /\ First(sender[s]) = Cur(s)
      /\ Emails(sender[s])
  BY AtSender DEF Write, At, Emails
<1>2. PICK w \in RowType : row' = [row EXCEPT ![Cur(s)] = w]
  <2> DEFINE a == [row[Cur(s)] EXCEPT !.status = "sent", !.due = TRUE, !.sentAt = TRUE]
             b == [row[Cur(s)] EXCEPT !.status = "failed", !.due = TRUE]
             c == [row[Cur(s)] EXCEPT !.status = "pending", !.due = FALSE]
  <2>1. a \in RowType /\ b \in RowType /\ c \in RowType
    BY <1>1 DEF RowType
  <2>2. \/ row' = [row EXCEPT ![Cur(s)] = a]
        \/ row' = [row EXCEPT ![Cur(s)] = b]
        \/ row' = [row EXCEPT ![Cur(s)] = c]
    BY DEF Write
  <2> HIDE DEF a, b, c
  <2> QED BY <2>1, <2>2
<1>3. PICK x \in SenderType : /\ sender' = [sender EXCEPT ![s] = x]
                              /\ Listed(x) /\ ~Emails(x)
  <2>1. Rest(s) \in SenderType /\ Listed(Rest(s)) /\ ~Emails(Rest(s))
    BY <1>1, RestIsSender DEF SendInv
  <2>2. \/ sender' = [sender EXCEPT ![s] = Resting]
        \/ sender' = [sender EXCEPT ![s] = Rest(s)]
    BY DEF Write
  <2> QED BY <2>1, <2>2, RestingIsSender
<1>4. Types'
  <2>1. sender' \in [Senders -> SenderType] /\ \A t \in Senders : Listed(sender'[t])
    BY <1>3, SenderTypes DEF SendInv
  <2>2. row' \in [Recipients -> RowType]
    BY <1>1, <1>2
  <2>3. UNCHANGED <<salon, blocked, status, paused, quota, panel>>
    BY DEF Write
  <2> QED BY <2>1, <2>2, <2>3 DEF SendInv, Types, TypeOK, RowType, quota
<1>5. ASSUME NEW t \in Senders \ {s}, Emails(sender[t]) PROVE Held(row'[First(sender[t])])
  <2>1. First(sender[t]) \in Recipients /\ Held(row[First(sender[t])])
    BY <1>5, AtSender DEF Emails, SendInv, Claimed
  <2>2. First(sender[t]) # Cur(s)
    BY <1>1, <1>5 DEF SendInv, Apart
  <2> QED BY <1>1, <1>2, <2>1, <2>2
<1> QED BY <1>3, <1>4, <1>5, SenderStep

-----------------------------------------------------------------------------

LEMMA SendInit == Init => SendInv
<1> SUFFICES ASSUME Init PROVE SendInv
  OBVIOUS
<1>1. sender \in [Senders -> SenderType] /\ \A s \in Senders : Listed(sender[s]) /\ ~Emails(sender[s])
  BY RestingIsSender DEF Init
<1>2. TypeOK
  <2> DEFINE w == [status |-> "absent", tries |-> 0, due |-> TRUE, sentAt |-> FALSE]
  <2>1. w \in RowType
    BY BoundsAssumption DEF RowType
  <2>2. row = [r \in Recipients |-> w]
    BY DEF Init
  <2> HIDE DEF w
  <2>3. row \in [Recipients -> RowType]
    BY <2>1, <2>2
  <2>4. month \in Months /\ planSent \in [Months -> Nat] /\ credits \in Nat
    BY BoundsAssumption DEF Init, Months
  <2> QED BY <2>3, <2>4 DEF Init, TypeOK, RowType
<1>3. row = [r \in Recipients |-> row[r]]
  BY DEF Init
<1>4. Types
  BY <1>1, <1>2, <1>3 DEF Init, Types, NoCall
<1> QED BY <1>1, <1>4 DEF SendInv, Claimed, Apart

LEMMA SendStep == SendInv /\ [Next]_vars => SendInv'
<1> SUFFICES ASSUME SendInv, [Next]_vars PROVE SendInv'
  OBVIOUS
<1>1. salon.clients \subseteq Recipients /\ salon.senders \subseteq Senders
  BY SalonsAssumption DEF SendInv, Types
<1>2. CASE Ask \/ Manage \/ NewMonth \/ UNCHANGED vars
  BY <1>2, PanelKeeps, RowsKeep, ClockKeeps DEF Manage
<1>3. ASSUME NEW r \in salon.clients, Refuse(r) \/ WaitOver(r) PROVE SendInv'
  BY <1>1, <1>3, RowsKeep, ClockKeeps
<1>4. ASSUME NEW s \in salon.senders, StartDue(s) \/ Run(s) \/ Die(s) PROVE SendInv'
  <2>1. s \in Senders
    BY <1>1
  <2>2. CASE StartDue(s) \/ Resume(s)
    BY <2>1, <2>2, ClockKeeps
  <2>3. CASE Load(s) \/ Count(s) \/ Finish(s) \/ Pause(s) \/ Die(s)
    BY <2>1, <2>3, RunKeeps
  <2>4. CASE Pick(s) \/ Skip(s)
    BY <2>1, <2>4, PickKeeps, SkipKeeps
  <2>5. CASE ReservePlan(s) \/ ReservePack(s)
    BY <2>1, <2>5, ReserveKeeps
  <2>6. CASE Claim(s)
    BY <2>1, <2>6, ClaimKeeps
  <2>7. CASE Send(s) \/ GiveBack(s)
    BY <2>1, <2>7, SendKeeps, GiveBackKeeps
  <2>8. CASE Write(s)
    BY <2>1, <2>8, WriteKeeps
  <2> QED BY <1>4, <2>2, <2>3, <2>4, <2>5, <2>6, <2>7, <2>8 DEF Run
<1> QED BY <1>2, <1>3, <1>4 DEF Next

(* Whoever a sender is emailing holds her row, and no other sender does:   *)
(* what the claim of email-campaign-sender.service.ts is for.              *)
THEOREM SendHolds == Spec => []SendInv
  BY SendInit, SendStep, PTL DEF Spec

(* Every variable of a campaign, its quota and its rows keeps its shape.   *)
THEOREM TypesHold == Spec => []TypeOK
<1>1. SendInv => TypeOK
  BY DEF SendInv, Types
<1> QED BY <1>1, SendHolds, PTL

(* No two senders send to one recipient at once, however many run and      *)
(* whichever of them dies.                                                 *)
THEOREM OneSenderHolds == Spec => []OneSenderEach
<1>1. SendInv => OneSenderEach
  BY DEF SendInv, Apart, OneSenderEach, Emails, First, Cur
<1> QED BY <1>1, SendHolds, PTL

-----------------------------------------------------------------------------

\* A call that claims the campaign is one that was asked.
Asked ==
    /\ panel \in [kind : {"none", "schedule", "unschedule", "send", "add", "retry"},
                  pc : {"none", "add", "claim", "reset", "undo"}]
    /\ panel.pc = "claim" => panel.kind \in {"schedule", "unschedule", "send", "retry"}

LEMMA AskedKeeps == Asked /\ [Next]_vars => Asked'
<1> SUFFICES ASSUME Asked, [Next]_vars PROVE Asked'
  OBVIOUS
<1>1. CASE Ask
  <2>1. PICK kind \in Kinds :
           panel' = [kind |-> kind, pc |-> IF kind = "add" THEN "add" ELSE "claim"]
    BY <1>1 DEF Ask
  <2>2. kind \in {"schedule", "unschedule", "send", "add", "retry"}
    BY KindsAssumption
  <2> QED BY <2>1, <2>2 DEF Asked
<1>2. CASE Manage
  <2>1. panel' \in {NoCall, [panel EXCEPT !.pc = "reset"], [panel EXCEPT !.pc = "undo"]}
    BY <1>2 DEF Manage, ClaimCampaign, Reset, Undo, AddRecipients
  <2> QED BY <2>1 DEF NoCall, Asked
<1>3. CASE UNCHANGED panel
  BY <1>3 DEF Asked
<1> QED
  BY <1>1, <1>2, <1>3
     DEF Next, Run, vars, campaign, quota, NewMonth, Refuse, WaitOver, StartDue, Resume, Load,
         Pick, Count, Finish, Skip, ReservePlan, ReservePack, Pause, Claim, Send, GiveBack,
         Write, Die

(* A campaign that began to send is never a draft or scheduled again.      *)
THEOREM NeverUnsentHolds == Spec => NeverUnsent
<1>1. Init => Asked
  BY DEF Init, NoCall, Asked
<1>2. Asked /\ [Next]_vars =>
          [(status \in {"sending", "sent"}) => (status' \in {"sending", "sent"})]_vars
  <2> SUFFICES ASSUME Asked, Next, status \in {"sending", "sent"}
               PROVE  status' \in {"sending", "sent"}
    OBVIOUS
  <2>1. CASE ClaimCampaign
    BY <2>1 DEF ClaimCampaign, StillFrom, From, To, Asked
  <2>2. CASE Undo \/ \E s \in salon.senders : StartDue(s) \/ Finish(s)
    BY <2>2 DEF Undo, StartDue, Finish
  <2>3. CASE UNCHANGED status
    BY <2>3
  <2> QED
    BY <2>1, <2>2, <2>3
       DEF Next, Manage, Run, campaign, Ask, Reset, AddRecipients, NewMonth, Refuse, WaitOver,
           Resume, Load, Pick, Count, Skip, ReservePlan, ReservePack, Pause, Claim, Send,
           GiveBack, Write, Die
<1> QED BY <1>1, <1>2, AskedKeeps, PTL DEF Spec, NeverUnsent

-----------------------------------------------------------------------------
(* The month's emails.  A slot is in the hands of the sender that took it  *)
(* until it gives it back, its email is written down, or it dies.          *)

PlanSlot(m) == [from |-> "plan", month |-> m]
PackSlot == [from |-> "pack", month |-> 0]
Holders(k) == {s \in Senders : sender[s].slot = k}
Emailed == {r \in Recipients : row[r].sentAt}

HasSlot(x) == \/ x.pc \in {"claim", "send", "giveBack"}
              \/ x.pc = "write" /\ x.outcome = "sent"

\* The slot a sender has, by where its run is; its month, while it has a batch.
SlotFits(x) ==
    /\ x.slot \in {NoSlot, PackSlot} \cup {PlanSlot(m) : m \in Months}
    /\ x.slot # NoSlot <=> HasSlot(x)
    /\ x.pc = "giveBack" => x.outcome # "sent"
    /\ DOMAIN x.batch # {} => x.month \in Months

\* Who was emailed is done with, and is not emailed again.
SentOnce ==
    /\ \A r \in Recipients : row[r].sentAt => row[r].status \in {"sent", "suppressed"}
    /\ \A s \in Senders : Emails(sender[s]) => ~row[First(sender[s])].sentAt

Balance ==
    /\ wasted \in Nat
    /\ SumIn(planSent, Months) + (Bono - credits)
         = Cardinality(Holding) + wasted + Cardinality(Emailed)
    /\ \A m \in Months : Cardinality(Holders(PlanSlot(m))) <= planSent[m] /\ planSent[m] <= Cap

BooksInv == (\A s \in Senders : SlotFits(sender[s])) /\ SentOnce /\ Balance

Given(x) == IF x.slot # NoSlot THEN 1 ELSE 0
HasPlan(x, m) == IF x.slot = PlanSlot(m) THEN 1 ELSE 0

LEMMA SlotsMove ==
    ASSUME SendInv, NEW s \in Senders, NEW x \in SenderType,
           sender' = [sender EXCEPT ![s] = x]
    PROVE  /\ Cardinality(Holding) \in Nat
           /\ Cardinality(Holding') = Cardinality(Holding) + Given(x) - Given(sender[s])
           /\ \A m \in Months :
                 /\ Cardinality(Holders(PlanSlot(m))) \in Nat
                 /\ Cardinality(Holders(PlanSlot(m))') =
                       Cardinality(Holders(PlanSlot(m))) + HasPlan(x, m)
                                                         - HasPlan(sender[s], m)
<1>0. IsFiniteSet(Senders)
  BY SalonsAssumption
<1>1. \A t \in Senders : sender'[t] = IF t = s THEN x ELSE sender[t]
  BY DEF SendInv, Types
<1>2. /\ Holding \in SUBSET Senders /\ Holding' \in SUBSET Senders
      /\ \A t \in Senders \ {s} : t \in Holding' <=> t \in Holding
      /\ s \in Holding' <=> x.slot # NoSlot
      /\ s \in Holding <=> sender[s].slot # NoSlot
  BY <1>1 DEF Holding
<1>3. /\ Cardinality(Holding) \in Nat
      /\ Cardinality(Holding') = Cardinality(Holding) + Given(x) - Given(sender[s])
  BY <1>0, <1>2, CountMoves DEF Given
<1>4. ASSUME NEW m \in Months
      PROVE  /\ Cardinality(Holders(PlanSlot(m))) \in Nat
             /\ Cardinality(Holders(PlanSlot(m))') =
                   Cardinality(Holders(PlanSlot(m))) + HasPlan(x, m) - HasPlan(sender[s], m)
  <2> DEFINE k == PlanSlot(m)
             A == Holders(k)
             B == Holders(k)'
  <2>1. /\ A \in SUBSET Senders /\ B \in SUBSET Senders
        /\ \A t \in Senders \ {s} : t \in B <=> t \in A
        /\ s \in B <=> x.slot = k
        /\ s \in A <=> sender[s].slot = k
    BY <1>1 DEF Holders
  <2> HIDE DEF A, B
  <2>2. /\ Cardinality(A) \in Nat
        /\ Cardinality(B) = Cardinality(A) + (IF s \in B THEN 1 ELSE 0)
                                           - (IF s \in A THEN 1 ELSE 0)
    BY <1>0, <2>1, CountMoves
  <2> QED BY <2>1, <2>2 DEF A, B, HasPlan
<1> QED BY <1>3, <1>4

\* The books, when one sender's record is another: what it takes or gives back,
\* from the plan (p) or the bono, and what it sends (e).
LEMMA BooksMove ==
    ASSUME SendInv, SendInv', BooksInv, NEW s \in Senders, NEW x \in SenderType,
           sender' = [sender EXCEPT ![s] = x], SlotFits(x), SentOnce',
           NEW p \in Int, SumIn(planSent', Months) = SumIn(planSent, Months) + p,
           NEW e \in Int, Cardinality(Emailed') = Cardinality(Emailed) + e,
           wasted' \in Nat,
           p + credits - credits' = Given(x) - Given(sender[s]) + wasted' - wasted + e,
           \A m \in Months :
              /\ HasPlan(x, m) - HasPlan(sender[s], m) <= planSent'[m] - planSent[m]
              /\ planSent'[m] <= Cap
    PROVE  BooksInv'
<1>1. /\ planSent \in [Months -> Nat] /\ planSent' \in [Months -> Nat]
      /\ credits \in Nat /\ credits' \in Nat /\ Bono \in Nat /\ Cap \in Nat
      /\ IsFiniteSet(Months)
  <2>1. /\ planSent \in [Months -> Nat] /\ planSent' \in [Months -> Nat]
        /\ credits \in Nat /\ credits' \in Nat
    BY DEF SendInv, Types, TypeOK
  <2>2. IsFiniteSet(Months)
    BY BoundsAssumption, FS_Interval DEF Months
  <2> QED BY <2>1, <2>2, BoundsAssumption
<1>2. \A t \in Senders : SlotFits(sender'[t])
  <2>1. \A t \in Senders : sender'[t] = IF t = s THEN x ELSE sender[t]
    BY DEF SendInv, Types
  <2> QED BY <2>1 DEF BooksInv
<1>3. SumIn(planSent, Months) \in Nat
  BY <1>1, SumBounds
<1>4. Cardinality(Emailed) \in Nat
  BY SalonsAssumption, FS_Subset, FS_CardinalityType DEF Emailed
<1>5. Given(x) \in Int /\ Given(sender[s]) \in Int
      /\ \A m \in Months : HasPlan(x, m) \in Int /\ HasPlan(sender[s], m) \in Int
  BY DEF Given, HasPlan
<1>6. /\ Cardinality(Holding) \in Nat
      /\ Cardinality(Holding') = Cardinality(Holding) + Given(x) - Given(sender[s])
  BY SlotsMove
<1>7. SumIn(planSent', Months) + (Bono - credits')
         = Cardinality(Holding') + wasted' + Cardinality(Emailed')
  BY <1>1, <1>3, <1>4, <1>5, <1>6 DEF BooksInv, Balance
<1>8. ASSUME NEW m \in Months
      PROVE  Cardinality(Holders(PlanSlot(m))') <= planSent'[m] /\ planSent'[m] <= Cap
  <2>1. /\ Cardinality(Holders(PlanSlot(m))) \in Nat
        /\ Cardinality(Holders(PlanSlot(m))') =
              Cardinality(Holders(PlanSlot(m))) + HasPlan(x, m) - HasPlan(sender[s], m)
    BY SlotsMove
  <2>2. Cardinality(Holders(PlanSlot(m))) <= planSent[m]
    BY DEF BooksInv, Balance
  <2>3. planSent[m] \in Nat /\ planSent'[m] \in Nat
    BY <1>1
  <2> QED BY <1>5, <2>1, <2>2, <2>3
<1>9. Balance'
  BY <1>7, <1>8 DEF Balance
<1> QED BY <1>2, <1>9 DEF BooksInv

\* Nobody is emailed twice: what is asked of one sender's step, and of others'.
LEMMA SentMoves ==
    ASSUME SendInv, BooksInv, NEW s \in Senders, NEW x \in SenderType,
           sender' = [sender EXCEPT ![s] = x],
           \A r \in Recipients : row'[r].sentAt => row'[r].status \in {"sent", "suppressed"},
           Emails(x) => ~row'[First(x)].sentAt,
           \A t \in Senders \ {s} :
               Emails(sender[t]) => row'[First(sender[t])].sentAt = row[First(sender[t])].sentAt
    PROVE  SentOnce'
<1>1. \A t \in Senders : sender'[t] = IF t = s THEN x ELSE sender[t]
  BY DEF SendInv, Types
<1>2. ASSUME NEW t \in Senders, Emails(sender'[t]) PROVE ~row'[First(sender'[t])].sentAt
  <2>1. CASE t = s
    BY <1>1, <1>2, <2>1
  <2>2. CASE t # s
    <3>1. sender'[t] = sender[t]
      BY <1>1, <2>2
    <3>2. row'[First(sender[t])].sentAt = row[First(sender[t])].sentAt
      BY <1>2, <2>2, <3>1
    <3>3. ~row[First(sender[t])].sentAt
      BY <1>2, <3>1 DEF BooksInv, SentOnce
    <3> QED BY <3>1, <3>2, <3>3
  <2> QED BY <2>1, <2>2
<1> QED BY <1>2 DEF SentOnce

\* Rows nobody was emailed by.
SentAsBefore ==
    \A r \in Recipients :
        /\ row'[r].sentAt = row[r].sentAt
        /\ row'[r].sentAt => row'[r].status \in {"sent", "suppressed"}

LEMMA OthersBooks ==
    ASSUME SendInv, BooksInv, SentAsBefore, UNCHANGED <<sender, planSent, credits, wasted>>
    PROVE  BooksInv'
<1>1. Emailed' = Emailed
  BY DEF SentAsBefore, Emailed
<1>2. Holding' = Holding /\ \A m \in Months : Holders(PlanSlot(m))' = Holders(PlanSlot(m))
  BY DEF Holding, Holders
<1>3. Balance'
  BY <1>1, <1>2 DEF BooksInv, Balance
<1>4. ASSUME NEW s \in Senders, Emails(sender[s]) PROVE ~row'[First(sender[s])].sentAt
  <2>1. First(sender[s]) \in Recipients
    BY <1>4, AtSender DEF Emails
  <2>2. ~row[First(sender[s])].sentAt
    BY <1>4 DEF BooksInv, SentOnce
  <2> QED BY <2>1, <2>2 DEF SentAsBefore
<1>5. SentOnce'
  BY <1>4 DEF SentOnce, SentAsBefore
<1> QED BY <1>3, <1>5 DEF BooksInv

\* A sender that neither takes a slot nor gives one back.
LEMMA SlotStays ==
    ASSUME SendInv, SendInv', BooksInv, NEW s \in Senders, NEW x \in SenderType,
           sender' = [sender EXCEPT ![s] = x], SlotFits(x), x.slot = sender[s].slot,
           Emails(x) => First(x) \in Recipients /\ ~row[First(x)].sentAt,
           SentAsBefore, UNCHANGED <<planSent, credits, wasted>>
    PROVE  BooksInv'
<1>1. ASSUME NEW t \in Senders, Emails(sender[t]) PROVE First(sender[t]) \in Recipients
  BY <1>1, AtSender DEF Emails
<1>2. SentOnce'
  BY <1>1, SentMoves DEF SentAsBefore
<1>3. Emailed' = Emailed
  BY DEF SentAsBefore, Emailed
<1>4. Given(x) = Given(sender[s]) /\ Given(x) \in Int
      /\ \A m \in Months : HasPlan(x, m) = HasPlan(sender[s], m) /\ HasPlan(x, m) \in Int
  BY DEF Given, HasPlan
<1>5. /\ planSent' = planSent /\ planSent \in [Months -> Nat] /\ credits \in Nat
      /\ wasted \in Nat /\ \A m \in Months : planSent[m] <= Cap
  BY DEF SendInv, Types, TypeOK, BooksInv, Balance
<1>6. /\ SumIn(planSent', Months) = SumIn(planSent, Months) + 0
      /\ Cardinality(Emailed') = Cardinality(Emailed) + 0
  <2>1. SumIn(planSent, Months) \in Nat
    <3>1. IsFiniteSet(Months)
      BY BoundsAssumption, FS_Interval DEF Months
    <3> QED BY <1>5, <3>1, SumBounds
  <2>2. Cardinality(Emailed) \in Nat
    BY SalonsAssumption, FS_Subset, FS_CardinalityType DEF Emailed
  <2> QED BY <1>3, <1>5, <2>1, <2>2
<1>7. 0 + credits - credits' = Given(x) - Given(sender[s]) + wasted' - wasted + 0
  BY <1>4, <1>5
<1>8. \A m \in Months :
         /\ HasPlan(x, m) - HasPlan(sender[s], m) <= planSent'[m] - planSent[m]
         /\ planSent'[m] <= Cap
  BY <1>4, <1>5
<1>9. 0 \in Int /\ wasted' \in Nat
  BY <1>5
<1> QED BY <1>2, <1>6, <1>7, <1>8, <1>9, BooksMove

\* The panel, the clients and the clock send nobody an email.
LEMMA PanelBooks ==
    ASSUME SendInv, BooksInv,
           \/ Ask \/ Manage \/ NewMonth \/ UNCHANGED vars
           \/ \E r \in Recipients : Refuse(r) \/ WaitOver(r)
           \/ \E s \in Senders : StartDue(s) \/ Resume(s)
    PROVE  BooksInv'
<1>1. UNCHANGED <<sender, planSent, credits, wasted>>
  BY DEF Ask, Manage, ClaimCampaign, Reset, Undo, AddRecipients, NewMonth, Refuse, WaitOver,
         StartDue, Resume, vars, quota, fate
<1>2. row \in [Recipients -> RowType]
      /\ \A r \in Recipients : row[r].sentAt => row[r].status \in {"sent", "suppressed"}
  BY DEF SendInv, Types, TypeOK, RowType, BooksInv, SentOnce
<1>3. SentAsBefore
  <2>1. CASE Reset
    <3>1. row' = [r \in Recipients |->
                    IF row[r].status = "failed"
                    THEN [row[r] EXCEPT !.status = "pending", !.tries = 0, !.due = TRUE]
                    ELSE row[r]]
      BY <2>1 DEF Reset, With
    <3> QED BY <1>2, <3>1 DEF SentAsBefore, RowType
  <2>2. CASE AddRecipients
    <3>1. PICK new \in SUBSET {r \in salon.clients \ blocked : row[r].status = "absent"} :
             row' = [r \in Recipients |->
                       IF r \in new THEN [row[r] EXCEPT !.status = "pending"] ELSE row[r]]
      BY <2>2 DEF AddRecipients
    <3> QED BY <1>2, <3>1 DEF SentAsBefore, RowType
  <2>3. ASSUME NEW r \in Recipients, WaitOver(r) PROVE SentAsBefore
    <3>1. row' = [row EXCEPT ![r] = [row[r] EXCEPT !.due = TRUE]]
      BY <2>3 DEF WaitOver
    <3> QED BY <1>2, <3>1 DEF SentAsBefore, RowType
  <2>4. CASE UNCHANGED row
    BY <1>2, <2>4 DEF SentAsBefore
  <2> QED
    BY <2>1, <2>2, <2>3, <2>4
       DEF Manage, Ask, ClaimCampaign, Undo, NewMonth, Refuse, StartDue, Resume, vars, campaign
<1> QED BY <1>1, <1>3, OthersBooks

LEMMA RestingFits == SlotFits(Resting) /\ Resting.slot = NoSlot
  BY DEF Resting, SlotFits, HasSlot, NoSlot, Nobody

\* On to the next of the batch: nothing in hand.
LEMMA RestFits ==
    ASSUME SendInv, NEW s \in Senders, SlotFits(sender[s]), DOMAIN sender[s].batch # {}
    PROVE  SlotFits(Rest(s)) /\ Rest(s).slot = NoSlot
<1> DEFINE left == DOMAIN sender[s].batch \ {Cur(s)}
           b == [r \in left |-> sender[s].batch[r]]
           k == sender[s].skip \cap left
           x == [sender[s] EXCEPT !.pc = "next", !.slot = NoSlot, !.outcome = "none",
                                  !.skip = k, !.batch = b]
<1>1. CASE left = {}
  BY <1>1, RestingFits DEF Rest
<1>2. CASE left # {}
  <2>1. Rest(s) = x
    BY <1>2 DEF Rest
  <2>2. sender[s] \in SenderType
    BY AtSender
  <2> HIDE DEF left, b, k
  <2>3. x.pc = "next" /\ x.slot = NoSlot /\ x.month = sender[s].month
    BY <2>2 DEF SenderType
  <2> HIDE DEF x
  <2> QED BY <2>1, <2>3 DEF SlotFits, HasSlot
<1> QED BY <1>1, <1>2

\* A sender with nothing in hand that goes on with nothing in hand.
LEMMA EmptyHanded ==
    ASSUME SendInv, SendInv', BooksInv, NEW s \in Senders, ~HasSlot(sender[s]),
           NEW x \in SenderType, sender' = [sender EXCEPT ![s] = x],
           x.slot = sender[s].slot \/ x.slot = NoSlot,
           x.pc \notin {"claim", "send", "giveBack", "write"},
           DOMAIN x.batch # {} => x.month \in Months,
           SentAsBefore, UNCHANGED <<planSent, credits, wasted>>
    PROVE  BooksInv'
<1>1. sender[s].slot = NoSlot
  BY DEF BooksInv, SlotFits
<1>2. SlotFits(x) /\ ~Emails(x)
  BY <1>1 DEF SlotFits, HasSlot, Emails
<1> QED BY <1>1, <1>2, SlotStays

LEMMA SentIsDone ==
    ASSUME SendInv, BooksInv, UNCHANGED row PROVE SentAsBefore
  BY DEF BooksInv, SentOnce, SentAsBefore

LEMMA RunBooks ==
    ASSUME SendInv, SendInv', BooksInv, NEW s \in Senders,
           Load(s) \/ Count(s) \/ Finish(s) \/ Pause(s)
    PROVE  BooksInv'
<1>1. /\ UNCHANGED <<planSent, credits, wasted, row>> /\ ~HasSlot(sender[s])
      /\ sender[s] \in SenderType /\ SlotFits(sender[s])
  <2>1. sender[s].pc \in {"idle", "count", "finish", "pause"}
    BY DEF Load, Count, Finish, Pause, At
  <2> QED BY <2>1, AtSender DEF Load, Count, Finish, Pause, quota, campaign, fate, HasSlot, BooksInv
<1>2. SentAsBefore
  BY <1>1, SentIsDone
<1>3. CASE Pause(s)
  <2>1. sender' = [sender EXCEPT ![s] = Resting]
    BY <1>3 DEF Pause
  <2>2. Resting.pc = "idle" /\ DOMAIN Resting.batch = {}
    BY DEF Resting, Nobody
  <2> QED BY <1>1, <1>2, <2>1, <2>2, RestingFits, RestingIsSender, EmptyHanded
<1>4. CASE Load(s) \/ Count(s) \/ Finish(s)
  <2>1. PICK pc \in {"pick", "finish", "idle"} : sender' = [sender EXCEPT ![s].pc = pc]
    BY <1>4 DEF Load, Count, Finish, Goto
  <2> DEFINE x == [sender[s] EXCEPT !.pc = pc]
  <2>2. x \in SenderType /\ x.pc = pc /\ x.batch = sender[s].batch
        /\ x.slot = sender[s].slot /\ x.month = sender[s].month
    BY <1>1 DEF SenderType, PCs
  <2>3. sender' = [sender EXCEPT ![s] = x]
    BY <2>1
  <2> HIDE DEF x
  <2>4. DOMAIN x.batch # {} => x.month \in Months
    BY <1>1, <2>2 DEF SlotFits
  <2> QED BY <1>1, <1>2, <2>2, <2>3, <2>4, EmptyHanded
<1> QED BY <1>3, <1>4

LEMMA PickBooks ==
    ASSUME SendInv, SendInv', BooksInv, NEW s \in Senders, Pick(s) PROVE BooksInv'
<1> DEFINE due == {r \in Recipients : row'[r].status = "pending" /\ row'[r].due}
           b == [r \in due |-> row[r].tries]
           pc == IF due = {} THEN "count" ELSE "next"
           m == IF due = {} THEN 0 ELSE month
           k == blocked \cap due
           x == [sender[s] EXCEPT !.pc = pc, !.batch = b, !.skip = k, !.month = m]
<1>1. sender[s] \in SenderType /\ row \in [Recipients -> RowType] /\ month \in Months
  BY AtSender DEF SendInv, Types, TypeOK
<1>2. /\ sender' = [sender EXCEPT ![s] = x] /\ UNCHANGED <<planSent, credits, wasted>>
      /\ sender[s].pc = "pick"
  BY DEF Pick, quota, fate, At
<1>3. row' = [r \in Recipients |-> IF r \in Lapsed THEN [row[r] EXCEPT !.status = "pending"]
                                                   ELSE row[r]]
  BY DEF Pick
<1>4. SentAsBefore
  <2>1. ASSUME NEW r \in Recipients
        PROVE  /\ row'[r].sentAt = row[r].sentAt
               /\ row'[r].sentAt => row'[r].status \in {"sent", "suppressed"}
    <3>1. row[r] \in RowType /\ (row[r].sentAt => row[r].status \in {"sent", "suppressed"})
      BY <1>1 DEF BooksInv, SentOnce
    <3>2. CASE r \in Lapsed
      <4>1. row'[r] = [row[r] EXCEPT !.status = "pending"] /\ row[r].status = "sending"
        BY <1>3, <3>2 DEF Lapsed, With
      <4> QED BY <3>1, <4>1 DEF RowType
    <3>3. CASE r \notin Lapsed
      BY <1>3, <3>1, <3>3
    <3> QED BY <3>2, <3>3
  <2> QED BY <2>1 DEF SentAsBefore
<1>5. DOMAIN b = due /\ (due # {} => m = month) /\ pc \in {"count", "next"}
  OBVIOUS
<1>6. sender'[s] = x /\ sender'[s] \in SenderType
  BY <1>2 DEF SendInv, Types
<1> HIDE DEF due, b, pc, m, k
<1>7. x.pc = pc /\ x.batch = b /\ x.month = m /\ x.slot = sender[s].slot
  BY <1>1 DEF SenderType
<1> HIDE DEF x
<1>8. ~HasSlot(sender[s]) /\ (DOMAIN x.batch # {} => x.month \in Months)
  BY <1>1, <1>2, <1>5, <1>7 DEF HasSlot
<1>9. x \in SenderType /\ x.pc \notin {"claim", "send", "giveBack", "write"}
  BY <1>5, <1>6, <1>7
<1> QED BY <1>2, <1>4, <1>7, <1>8, <1>9, EmptyHanded

LEMMA SkipBooks ==
    ASSUME SendInv, SendInv', BooksInv, NEW s \in Senders, Skip(s) PROVE BooksInv'
<1>1. /\ sender[s].pc = "next" /\ Cur(s) \in Recipients /\ DOMAIN sender[s].batch # {}
      /\ row \in [Recipients -> RowType] /\ SlotFits(sender[s])
  BY AtSender DEF Skip, At, BooksInv
<1>2. /\ sender' = [sender EXCEPT ![s] = Rest(s)]
      /\ UNCHANGED <<planSent, credits, wasted>>
      /\ row' = [row EXCEPT ![Cur(s)] =
                   [row[Cur(s)] EXCEPT !.status = "suppressed", !.due = TRUE]]
  BY DEF Skip, quota, fate
<1>3. SentAsBefore
  BY <1>1, <1>2 DEF SentAsBefore, RowType, BooksInv, SentOnce
<1>4. Rest(s) \in SenderType /\ ~Emails(Rest(s))
  BY <1>1, RestIsSender DEF SendInv
<1>5. SlotFits(Rest(s)) /\ Rest(s).slot = NoSlot
  BY <1>1, RestFits
<1>6. sender[s].slot = NoSlot
  BY <1>1 DEF SlotFits, HasSlot
<1> QED BY <1>2, <1>3, <1>4, <1>5, <1>6, SlotStays

LEMMA MonthsAreFew ==
    ASSUME SendInv, BooksInv
    PROVE  /\ IsFiniteSet(Months) /\ SumIn(planSent, Months) \in Nat
           /\ planSent \in [Months -> Nat] /\ credits \in Nat /\ wasted \in Nat
           /\ Cardinality(Emailed) \in Nat
           /\ \A m \in Months : planSent[m] <= Cap
<1>1. IsFiniteSet(Months)
  BY BoundsAssumption, FS_Interval DEF Months
<1>2. planSent \in [Months -> Nat] /\ credits \in Nat
  BY DEF SendInv, Types, TypeOK
<1>3. SumIn(planSent, Months) \in Nat
  BY <1>1, <1>2, SumBounds
<1>4. Cardinality(Emailed) \in Nat
  BY SalonsAssumption, FS_Subset, FS_CardinalityType DEF Emailed
<1> QED BY <1>1, <1>2, <1>3, <1>4 DEF BooksInv, Balance

\* The plan's count of one month goes up or down by one.
LEMMA PlanMoves ==
    ASSUME SendInv, BooksInv, NEW m \in Months, NEW d \in Int,
           planSent' \in [Months -> Nat],
           planSent' = [planSent EXCEPT ![m] = planSent[m] + d]
    PROVE  SumIn(planSent', Months) = SumIn(planSent, Months) + d
<1>1. /\ IsFiniteSet(Months) /\ SumIn(planSent, Months) \in Nat
      /\ planSent \in [Months -> Nat]
  BY MonthsAreFew
<1>2. planSent \in [Months -> Int] /\ planSent' \in [Months -> Int]
  BY <1>1
<1>3. \A j \in Months \ {m} : planSent'[j] = planSent[j]
  BY <1>1
<1>4. SumIn(planSent', Months) = SumIn(planSent, Months) + planSent'[m] - planSent[m]
  <2>1. PICK F, G : F = planSent /\ G = planSent'
    OBVIOUS
  <2>2. F \in [Months -> Int] /\ G \in [Months -> Int] /\ \A j \in Months \ {m} : G[j] = F[j]
    BY <1>2, <1>3, <2>1
  <2>3. SumIn(G, Months) = SumIn(F, Months) + G[m] - F[m]
    BY <1>1, <2>2, SumChanges
  <2> QED BY <2>1, <2>3
<1>5. planSent'[m] = planSent[m] + d /\ planSent[m] \in Nat
  BY <1>1
<1> QED BY <1>1, <1>4, <1>5

LEMMA SlotsDiffer ==
    ASSUME NEW m
    PROVE  PlanSlot(m) # NoSlot /\ PackSlot # NoSlot /\ PlanSlot(m) # PackSlot
           /\ \A n : PlanSlot(m) = PlanSlot(n) => m = n
  BY DEF PlanSlot, PackSlot, NoSlot

\* One of the month's emails is taken, or one of the bono.
LEMMA ReserveBooks ==
    ASSUME SendInv, SendInv', BooksInv, NEW s \in Senders,
           ReservePlan(s) \/ ReservePack(s)
    PROVE  BooksInv'
<1>1. /\ sender[s] \in SenderType /\ SlotFits(sender[s]) /\ sender[s].pc \in {"next", "pack"}
      /\ DOMAIN sender[s].batch # {}
  BY AtSender DEF BooksInv, ReservePlan, ReservePack, At
<1>2. sender[s].slot = NoSlot /\ ~HasSlot(sender[s]) /\ sender[s].month \in Months
  BY <1>1 DEF SlotFits, HasSlot
<1>3. UNCHANGED row /\ wasted' = wasted /\ SentAsBefore
  BY SentIsDone DEF ReservePlan, ReservePack, campaign, fate
<1>4. ASSUME NEW pc \in {"pack", "pause"}, sender' = [sender EXCEPT ![s].pc = pc],
             UNCHANGED <<planSent, credits>>
      PROVE  BooksInv'
  <2> DEFINE x == [sender[s] EXCEPT !.pc = pc]
  <2>1. x \in SenderType /\ x.pc = pc /\ x.slot = NoSlot /\ x.month \in Months
    BY <1>1, <1>2 DEF SenderType, PCs
  <2>2. sender' = [sender EXCEPT ![s] = x]
    BY <1>4
  <2> HIDE DEF x
  <2> QED BY <1>2, <1>3, <1>4, <2>1, <2>2, EmptyHanded
<1>5. ASSUME NEW slot \in {PackSlot} \cup {PlanSlot(m) : m \in Months},
             sender' = [sender EXCEPT ![s] = [sender[s] EXCEPT !.pc = "claim", !.slot = slot]],
             NEW p \in Int, SumIn(planSent', Months) = SumIn(planSent, Months) + p,
             p + credits - credits' = 1,
             \A m \in Months :
                /\ (IF slot = PlanSlot(m) THEN 1 ELSE 0) <= planSent'[m] - planSent[m]
                /\ planSent'[m] <= Cap
      PROVE  BooksInv'
  <2> DEFINE x == [sender[s] EXCEPT !.pc = "claim", !.slot = slot]
  <2>1. sender' = [sender EXCEPT ![s] = x]
    BY <1>5
  <2>2. x \in SenderType
    <3>1. sender'[s] = x /\ sender'[s] \in SenderType
      BY <2>1 DEF SendInv, Types
    <3> QED BY <3>1
  <2>3. x.pc = "claim" /\ x.slot = slot /\ x.month = sender[s].month
    BY <1>1 DEF SenderType
  <2> HIDE DEF x
  <2>4. slot # NoSlot
    BY SlotsDiffer
  <2>5. SlotFits(x) /\ ~Emails(x)
    BY <1>2, <2>3, <2>4 DEF SlotFits, HasSlot, Emails
  <2>6. SentOnce'
    <3>1. \A t \in Senders : Emails(sender[t]) => First(sender[t]) \in Recipients
      BY AtSender DEF Emails
    <3> QED BY <1>3, <2>1, <2>2, <2>5, <3>1, SentMoves DEF SentAsBefore
  <2>7. Given(x) = 1 /\ Given(sender[s]) = 0
    BY <1>2, <2>3, <2>4 DEF Given
  <2>8. ASSUME NEW m \in Months
        PROVE  /\ HasPlan(x, m) - HasPlan(sender[s], m) <= planSent'[m] - planSent[m]
               /\ planSent'[m] <= Cap
    <3>1. HasPlan(sender[s], m) = 0 /\ HasPlan(x, m) = IF slot = PlanSlot(m) THEN 1 ELSE 0
      BY <1>2, <2>3, SlotsDiffer DEF HasPlan
    <3>2. HasPlan(x, m) \in Int
      BY DEF HasPlan
    <3> QED BY <1>5, <3>1, <3>2
  <2>9. PICK e \in Int : /\ e = 0 /\ wasted \in Nat
                        /\ Cardinality(Emailed') = Cardinality(Emailed) + e
    <3>1. Emailed' = Emailed
      BY <1>3 DEF Emailed
    <3> QED BY <3>1, MonthsAreFew
  <2>10. p + credits - credits' = Given(x) - Given(sender[s]) + wasted' - wasted + e
    BY <1>3, <1>5, <2>7, <2>9
  <2>11. wasted' \in Nat
    BY <1>3, <2>9
  <2>12. SumIn(planSent', Months) = SumIn(planSent, Months) + p
    BY <1>5
  <2> QED BY <2>1, <2>2, <2>5, <2>6, <2>8, <2>9, <2>10, <2>11, <2>12, BooksMove
<1>6. CASE ReservePlan(s)
  <2> DEFINE m == sender[s].month
  <2>1. m \in Months
    BY <1>2
  <2>2. CASE PlanHasRoom(m)
    <3>1. /\ planSent' = [planSent EXCEPT ![m] = planSent[m] + 1] /\ credits' = credits
          /\ sender' = [sender EXCEPT ![s] = [sender[s] EXCEPT !.pc = "claim",
                                                               !.slot = PlanSlot(m)]]
      BY <1>6, <2>2 DEF ReservePlan, PlanSlot
    <3>2. planSent' \in [Months -> Nat] /\ planSent \in [Months -> Nat] /\ credits \in Nat
          /\ planSent[m] < Cap /\ Cap \in Nat /\ \A n \in Months : planSent[n] <= Cap
      BY <2>2, MonthsAreFew, BoundsAssumption DEF SendInv, Types, TypeOK, PlanHasRoom
    <3> HIDE DEF m
    <3>3. SumIn(planSent', Months) = SumIn(planSent, Months) + 1
      <4>1. 1 \in Int
        OBVIOUS
      <4> QED BY <2>1, <3>1, <3>2, <4>1, PlanMoves
    <3>4. ASSUME NEW n \in Months
          PROVE  /\ (IF PlanSlot(m) = PlanSlot(n) THEN 1 ELSE 0) <= planSent'[n] - planSent[n]
                 /\ planSent'[n] <= Cap
      <4>1. PlanSlot(m) = PlanSlot(n) => m = n
        BY DEF PlanSlot
      <4>2. planSent'[n] = IF n = m THEN planSent[m] + 1 ELSE planSent[n]
        BY <2>1, <3>1, <3>2
      <4>3. planSent[n] \in Nat /\ planSent[m] \in Nat
        BY <2>1, <3>2
      <4> QED BY <3>2, <4>1, <4>2, <4>3
    <3>5. 1 + credits - credits' = 1 /\ 1 \in Int
      BY <3>1, <3>2
    <3> QED BY <1>5, <2>1, <3>1, <3>3, <3>4, <3>5
  <2>3. CASE ~PlanHasRoom(m)
    BY <1>4, <1>6, <2>3 DEF ReservePlan, Goto
  <2> QED BY <2>2, <2>3
<1>7. CASE ReservePack(s)
  <2>1. CASE credits > 0
    <3>1. /\ planSent' = planSent /\ credits' = credits - 1
          /\ sender' = [sender EXCEPT ![s] = [sender[s] EXCEPT !.pc = "claim",
                                                               !.slot = PackSlot]]
      BY <1>7, <2>1 DEF ReservePack, PackSlot
    <3>2. /\ planSent \in [Months -> Nat] /\ credits \in Nat /\ SumIn(planSent, Months) \in Nat
          /\ \A n \in Months : planSent[n] <= Cap
      BY MonthsAreFew
    <3>3. 0 + credits - credits' = 1 /\ 0 \in Int
          /\ SumIn(planSent', Months) = SumIn(planSent, Months) + 0
      BY <3>1, <3>2
    <3>4. \A n \in Months :
             /\ (IF PackSlot = PlanSlot(n) THEN 1 ELSE 0) <= planSent'[n] - planSent[n]
             /\ planSent'[n] <= Cap
      BY <3>1, <3>2, SlotsDiffer
    <3> QED BY <1>5, <3>1, <3>3, <3>4
  <2>2. CASE ~(credits > 0)
    BY <1>4, <1>7, <2>2 DEF ReservePack, Goto
  <2> QED BY <2>1, <2>2
<1> QED BY <1>6, <1>7

\* She is claimed while she is pending, so she was not emailed; or her row is
\* another's, and the slot is to be given back.
LEMMA ClaimBooks ==
    ASSUME SendInv, SendInv', BooksInv, NEW s \in Senders, Claim(s) PROVE BooksInv'
<1>1. /\ sender[s] \in SenderType /\ SlotFits(sender[s]) /\ sender[s].pc = "claim"
      /\ Cur(s) \in Recipients /\ First(sender[s]) = Cur(s) /\ row \in [Recipients -> RowType]
  BY AtSender DEF BooksInv, Claim, At
<1>2. UNCHANGED <<planSent, credits, wasted>>
  BY DEF Claim, quota, fate
<1>3. CASE StillPending(Cur(s))
  <2> DEFINE x == [sender[s] EXCEPT !.pc = "send"]
             n == Min({row[Cur(s)].tries + 1, MaxTries})
  <2>1. /\ sender' = [sender EXCEPT ![s] = x]
        /\ row' = [row EXCEPT ![Cur(s)] = [row[Cur(s)] EXCEPT
                       !.status = "sending", !.due = FALSE, !.tries = n]]
    BY <1>3 DEF Claim, Goto
  <2> HIDE DEF n
  <2>2. /\ x \in SenderType /\ x.pc = "send" /\ x.batch = sender[s].batch
        /\ x.slot = sender[s].slot /\ x.month = sender[s].month
    BY <1>1 DEF SenderType, PCs
  <2> HIDE DEF x
  <2>3. ~row[Cur(s)].sentAt
    BY <1>1, <1>3 DEF StillPending, BooksInv, SentOnce
  <2>4. SentAsBefore
    BY <1>1, <2>1, <2>3 DEF SentAsBefore, RowType, BooksInv, SentOnce
  <2>5. SlotFits(x) /\ First(x) = Cur(s)
    BY <1>1, <2>2 DEF SlotFits, HasSlot, First, Cur
  <2> QED BY <1>1, <1>2, <2>1, <2>2, <2>3, <2>4, <2>5, SlotStays
<1>4. CASE ~StillPending(Cur(s))
  <2> DEFINE x == [sender[s] EXCEPT !.pc = "giveBack", !.outcome = "notMine"]
  <2>1. sender' = [sender EXCEPT ![s] = x] /\ UNCHANGED row
    BY <1>4 DEF Claim
  <2>2. /\ x \in SenderType /\ x.pc = "giveBack" /\ x.outcome = "notMine"
        /\ x.batch = sender[s].batch /\ x.slot = sender[s].slot /\ x.month = sender[s].month
    BY <1>1 DEF SenderType, PCs
  <2> HIDE DEF x
  <2>3. SlotFits(x) /\ ~Emails(x)
    BY <1>1, <2>2 DEF SlotFits, HasSlot, Emails
  <2> QED BY <1>2, <2>1, <2>2, <2>3, SentIsDone, SlotStays
<1> QED BY <1>3, <1>4

LEMMA SendBooks ==
    ASSUME SendInv, SendInv', BooksInv, NEW s \in Senders, Send(s) PROVE BooksInv'
<1>1. /\ sender[s] \in SenderType /\ SlotFits(sender[s]) /\ sender[s].pc = "send"
      /\ Cur(s) \in Recipients /\ First(sender[s]) = Cur(s)
  BY AtSender DEF BooksInv, Send, At
<1>2. UNCHANGED <<planSent, credits, wasted, row>>
  BY DEF Send, quota, fate, campaign
<1>3. PICK o \in {"sent", "refused", "later", "tooMany"} :
         sender' = [sender EXCEPT ![s] = [sender[s] EXCEPT !.outcome = o,
                        !.pc = IF o = "sent" THEN "write" ELSE "giveBack"]]
  BY DEF Send
<1> DEFINE pc == IF o = "sent" THEN "write" ELSE "giveBack"
           x == [sender[s] EXCEPT !.outcome = o, !.pc = pc]
<1>4. pc \in {"write", "giveBack"} /\ (o = "sent" <=> pc = "write")
  OBVIOUS
<1>5. sender' = [sender EXCEPT ![s] = x]
  BY <1>3
<1> HIDE DEF pc
<1>6. /\ x \in SenderType /\ x.pc = pc /\ x.batch = sender[s].batch /\ x.outcome = o
      /\ x.slot = sender[s].slot /\ x.month = sender[s].month
  BY <1>1, <1>4 DEF SenderType, PCs
<1> HIDE DEF x
<1>7. SlotFits(x) /\ First(x) = Cur(s)
  BY <1>1, <1>4, <1>6 DEF SlotFits, HasSlot, First, Cur
<1>8. ~row[Cur(s)].sentAt
  BY <1>1 DEF BooksInv, SentOnce, Emails
<1> QED BY <1>1, <1>2, <1>5, <1>6, <1>7, <1>8, SentIsDone, SlotStays

\* A slot goes back to the month it was taken from, which still counts it.
LEMMA HolderCounts ==
    ASSUME SendInv, BooksInv, NEW s \in Senders, NEW m \in Months,
           sender[s].slot = PlanSlot(m)
    PROVE  planSent[m] > 0
<1>1. IsFiniteSet(Holders(PlanSlot(m))) /\ s \in Holders(PlanSlot(m))
  BY SalonsAssumption, FS_Subset DEF Holders
<1>2. Cardinality(Holders(PlanSlot(m))) \in Nat \ {0}
  BY <1>1, FS_EmptySet, FS_CardinalityType
<1>3. Cardinality(Holders(PlanSlot(m))) <= planSent[m] /\ planSent[m] \in Nat
  BY MonthsAreFew DEF BooksInv, Balance
<1> QED BY <1>2, <1>3

\* Whoever gives a slot back or loses it has none, and sends nothing.
LEMMA Returns ==
    ASSUME SendInv, SendInv', BooksInv, NEW s \in Senders, NEW x \in SenderType,
           sender' = [sender EXCEPT ![s] = x], SlotFits(x), x.slot = NoSlot,
           Emails(x) => Emails(sender[s]) /\ First(x) = First(sender[s]), UNCHANGED row,
           NEW p \in Int, SumIn(planSent', Months) = SumIn(planSent, Months) + p,
           wasted' \in Nat, p + credits - credits' = wasted' - wasted - Given(sender[s]),
           \A m \in Months :
              /\ planSent[m] <= planSent'[m] + HasPlan(sender[s], m)
              /\ planSent'[m] <= Cap
    PROVE  BooksInv'
<1>1. SentOnce'
  <2>1. Emails(x) => ~row'[First(x)].sentAt
    BY DEF BooksInv, SentOnce
  <2>2. SentAsBefore
    BY SentIsDone
  <2>3. \A t \in Senders : Emails(sender[t]) => First(sender[t]) \in Recipients
    BY AtSender DEF Emails
  <2> QED BY <2>1, <2>2, <2>3, SentMoves DEF SentAsBefore
<1>2. PICK e \in Int : e = 0 /\ Cardinality(Emailed') = Cardinality(Emailed) + e
  <2>1. Emailed' = Emailed
    BY DEF Emailed
  <2> QED BY <2>1, MonthsAreFew
<1>3. Given(x) = 0 /\ Given(sender[s]) \in Int /\ wasted \in Nat
      /\ credits \in Nat /\ credits' \in Nat
  BY MonthsAreFew DEF Given, SendInv, Types, TypeOK
<1>4. p + credits - credits' = Given(x) - Given(sender[s]) + wasted' - wasted + e
  BY <1>2, <1>3
<1>5. ASSUME NEW m \in Months
      PROVE  /\ HasPlan(x, m) - HasPlan(sender[s], m) <= planSent'[m] - planSent[m]
             /\ planSent'[m] <= Cap
  <2>1. HasPlan(x, m) = 0 /\ HasPlan(sender[s], m) \in Int
    BY SlotsDiffer DEF HasPlan
  <2>2. planSent[m] \in Nat /\ planSent'[m] \in Nat
    BY DEF SendInv, Types, TypeOK
  <2> QED BY <2>1, <2>2
<1> QED BY <1>1, <1>2, <1>4, <1>5, BooksMove

LEMMA GiveBackBooks ==
    ASSUME SendInv, SendInv', BooksInv, NEW s \in Senders, GiveBack(s) PROVE BooksInv'
<1>1. /\ sender[s] \in SenderType /\ SlotFits(sender[s]) /\ sender[s].pc = "giveBack"
      /\ DOMAIN sender[s].batch # {} /\ sender[s].outcome # "sent"
  BY AtSender DEF BooksInv, GiveBack, At, SlotFits
<1>2. /\ UNCHANGED <<row, wasted>> /\ planSent \in [Months -> Nat] /\ credits \in Nat
      /\ planSent' \in [Months -> Nat] /\ wasted \in Nat
      /\ SumIn(planSent, Months) \in Nat /\ \A m \in Months : planSent[m] <= Cap
  BY MonthsAreFew DEF GiveBack, campaign, fate, SendInv, Types, TypeOK
<1>3. PICK x \in SenderType :
         /\ sender' = [sender EXCEPT ![s] = x] /\ SlotFits(x) /\ x.slot = NoSlot
         /\ Emails(x) => Emails(sender[s]) /\ First(x) = First(sender[s])
  <2>1. CASE sender[s].outcome = "notMine"
    <3>1. sender' = [sender EXCEPT ![s] = Rest(s)]
      BY <2>1 DEF GiveBack
    <3>2. Rest(s) \in SenderType /\ ~Emails(Rest(s))
      BY <1>1, RestIsSender DEF SendInv
    <3> QED BY <1>1, <3>1, <3>2, RestFits
  <2>2. CASE sender[s].outcome # "notMine"
    <3> DEFINE x == [sender[s] EXCEPT !.pc = "write", !.slot = NoSlot]
    <3>1. sender' = [sender EXCEPT ![s] = x]
      BY <2>2 DEF GiveBack
    <3>2. x \in SenderType
      <4>1. sender'[s] = x /\ sender'[s] \in SenderType
        BY <3>1 DEF SendInv, Types
      <4> QED BY <4>1
    <3>3. /\ x.pc = "write" /\ x.slot = NoSlot /\ x.batch = sender[s].batch
          /\ x.month = sender[s].month /\ x.outcome = sender[s].outcome
      BY <1>1 DEF SenderType
    <3> HIDE DEF x
    <3>4. SlotFits(x) /\ Emails(sender[s]) /\ First(x) = First(sender[s])
      BY <1>1, <2>2, <3>3 DEF SlotFits, HasSlot, Emails, First
    <3> QED BY <3>1, <3>2, <3>3, <3>4
  <2> QED BY <2>1, <2>2
<1>4. /\ sender[s].slot \in {PackSlot} \cup {PlanSlot(m) : m \in Months}
      /\ Given(sender[s]) = 1
  BY <1>1 DEF SlotFits, HasSlot, Given
<1>5. CASE sender[s].slot = PackSlot
  <2>1. planSent' = planSent /\ credits' = credits + 1
    BY <1>5 DEF GiveBack, SlotOf, PackSlot
  <2>2. PICK p \in Int : p = 0 /\ SumIn(planSent', Months) = SumIn(planSent, Months) + p
    BY <1>2, <2>1
  <2>3. p + credits - credits' = wasted' - wasted - Given(sender[s]) /\ wasted' \in Nat
    BY <1>2, <1>4, <2>1, <2>2
  <2>4. \A m \in Months :
           planSent[m] <= planSent'[m] + HasPlan(sender[s], m) /\ planSent'[m] <= Cap
    BY <1>2, <2>1 DEF HasPlan
  <2> QED BY <1>2, <1>3, <2>2, <2>3, <2>4, Returns
<1>6. ASSUME NEW m \in Months, sender[s].slot = PlanSlot(m) PROVE BooksInv'
  <2>1. planSent[m] > 0
    BY <1>6, HolderCounts
  <2>2. sender[s].slot.from = "plan" /\ sender[s].slot.month = m
    BY <1>6 DEF PlanSlot
  <2>3. planSent' = [planSent EXCEPT ![m] = planSent[m] - 1] /\ credits' = credits
    BY <2>1, <2>2 DEF GiveBack, SlotOf
  <2>4. PICK p \in Int : p = -1
    OBVIOUS
  <2>5. planSent' = [planSent EXCEPT ![m] = planSent[m] + p]
    BY <1>2, <2>3, <2>4
  <2>6. SumIn(planSent', Months) = SumIn(planSent, Months) + p
    BY <1>2, <2>5, PlanMoves
  <2>7. p + credits - credits' = wasted' - wasted - Given(sender[s]) /\ wasted' \in Nat
    BY <1>2, <1>4, <2>3, <2>4
  <2>8. ASSUME NEW n \in Months
        PROVE  planSent[n] <= planSent'[n] + HasPlan(sender[s], n) /\ planSent'[n] <= Cap
    <3>1. planSent'[n] = IF n = m THEN planSent[m] - 1 ELSE planSent[n]
      BY <1>2, <2>3
    <3>2. planSent[n] \in Nat /\ planSent[m] \in Nat /\ planSent[n] <= Cap /\ Cap \in Nat
      BY <1>2, BoundsAssumption
    <3>3. HasPlan(sender[s], n) = IF n = m THEN 1 ELSE 0
      BY <1>6, SlotsDiffer DEF HasPlan
    <3> QED BY <3>1, <3>2, <3>3
  <2> QED BY <1>2, <1>3, <2>6, <2>7, <2>8, Returns
<1> QED BY <1>4, <1>5, <1>6

\* The slot of a process that dies counts as wasted.
LEMMA DieBooks ==
    ASSUME SendInv, SendInv', BooksInv, NEW s \in Senders, Die(s) PROVE BooksInv'
<1>1. /\ UNCHANGED <<planSent, credits, row>> /\ planSent \in [Months -> Nat]
      /\ credits \in Nat /\ wasted \in Nat /\ SumIn(planSent, Months) \in Nat
      /\ \A m \in Months : planSent[m] <= Cap
      /\ sender' = [sender EXCEPT ![s] = Resting]
  BY MonthsAreFew DEF Die, quota, campaign
<1>2. wasted' = wasted + Given(sender[s]) /\ Given(sender[s]) \in Nat
  BY <1>1 DEF Die, Given
<1>3. PICK p \in Int : p = 0 /\ SumIn(planSent', Months) = SumIn(planSent, Months) + p
  BY <1>1
<1>4. p + credits - credits' = wasted' - wasted - Given(sender[s]) /\ wasted' \in Nat
  BY <1>1, <1>2, <1>3
<1>5. ASSUME NEW m \in Months
      PROVE  planSent[m] <= planSent'[m] + HasPlan(sender[s], m) /\ planSent'[m] <= Cap
  <2>1. HasPlan(sender[s], m) \in Nat
    BY DEF HasPlan
  <2> QED BY <1>1, <2>1
<1>6. Resting \in SenderType /\ ~Emails(Resting) /\ SlotFits(Resting) /\ Resting.slot = NoSlot
  BY RestingIsSender, RestingFits
<1> QED BY <1>1, <1>3, <1>4, <1>5, <1>6, Returns

\* What was sent is written down as its slot is let go: one more recipient was
\* emailed, who was not before.
LEMMA WriteBooks ==
    ASSUME SendInv, SendInv', BooksInv, NEW s \in Senders, Write(s) PROVE BooksInv'
<1>1. /\ sender[s] \in SenderType /\ SlotFits(sender[s]) /\ sender[s].pc = "write"
      /\ DOMAIN sender[s].batch # {} /\ Emails(sender[s])
      /\ Cur(s) \in Recipients /\ First(sender[s]) = Cur(s) /\ row \in [Recipients -> RowType]
      /\ \A r \in Recipients : row[r].sentAt => row[r].status \in {"sent", "suppressed"}
  BY AtSender DEF BooksInv, SentOnce, Write, At, Emails
<1>2. /\ UNCHANGED <<planSent, credits, wasted>> /\ planSent \in [Months -> Nat]
      /\ credits \in Nat /\ wasted \in Nat /\ SumIn(planSent, Months) \in Nat
      /\ Cardinality(Emailed) \in Nat /\ \A m \in Months : planSent[m] <= Cap
  BY MonthsAreFew DEF Write, quota, fate
<1>3. PICK x \in SenderType : /\ sender' = [sender EXCEPT ![s] = x]
                              /\ SlotFits(x) /\ x.slot = NoSlot /\ ~Emails(x)
  <2>1. Rest(s) \in SenderType /\ ~Emails(Rest(s))
    BY <1>1, RestIsSender DEF SendInv
  <2>2. \/ sender' = [sender EXCEPT ![s] = Resting]
        \/ sender' = [sender EXCEPT ![s] = Rest(s)]
    BY DEF Write
  <2> QED BY <1>1, <2>1, <2>2, RestingIsSender, RestingFits, RestFits
<1>4. ~row[Cur(s)].sentAt
  BY <1>1 DEF BooksInv, SentOnce
<1>5. CASE sender[s].outcome # "sent"
  <2>1. \/ row' = [row EXCEPT ![Cur(s)] = [row[Cur(s)] EXCEPT !.status = "failed", !.due = TRUE]]
        \/ row' = [row EXCEPT ![Cur(s)] = [row[Cur(s)] EXCEPT !.status = "pending", !.due = FALSE]]
    BY <1>5 DEF Write
  <2>2. SentAsBefore
    <3>1. \A r \in Recipients \ {Cur(s)} : row'[r] = row[r]
      BY <1>1, <2>1
    <3>2. row'[Cur(s)].sentAt = row[Cur(s)].sentAt
      BY <1>1, <2>1 DEF RowType
    <3> QED BY <1>1, <1>4, <3>1, <3>2 DEF SentAsBefore
  <2>3. sender[s].slot = NoSlot
    BY <1>1, <1>5 DEF SlotFits, HasSlot
  <2> QED BY <1>2, <1>3, <2>2, <2>3, SlotStays
<1>6. CASE sender[s].outcome = "sent"
  <2>1. row' = [row EXCEPT ![Cur(s)] = [row[Cur(s)] EXCEPT !.status = "sent", !.due = TRUE,
                                                           !.sentAt = TRUE]]
    BY <1>6 DEF Write
  <2>2. /\ \A r \in Recipients \ {Cur(s)} : row'[r] = row[r]
        /\ row'[Cur(s)].status = "sent" /\ row'[Cur(s)].sentAt
    BY <1>1, <2>1 DEF RowType
  <2>3. \A r \in Recipients : row'[r].sentAt => row'[r].status \in {"sent", "suppressed"}
    BY <1>1, <2>2
  <2>4. ASSUME NEW t \in Senders \ {s}, Emails(sender[t])
        PROVE  row'[First(sender[t])].sentAt = row[First(sender[t])].sentAt
    <3>1. First(sender[t]) \in Recipients
      BY <2>4, AtSender DEF Emails
    <3>2. First(sender[t]) # Cur(s)
      BY <1>1, <2>4 DEF SendInv, Apart
    <3> QED BY <2>2, <3>1, <3>2
  <2>5. SentOnce'
    BY <1>3, <2>3, <2>4, SentMoves
  <2>6. PICK e \in Int : e = 1 /\ Cardinality(Emailed') = Cardinality(Emailed) + e
    <3>1. /\ Emailed \in SUBSET Recipients /\ Emailed' \in SUBSET Recipients
          /\ \A r \in Recipients \ {Cur(s)} : r \in Emailed' <=> r \in Emailed
          /\ Cur(s) \in Emailed' /\ Cur(s) \notin Emailed
      BY <1>1, <1>4, <2>2 DEF Emailed
    <3>2. PICK A, B : A = Emailed /\ B = Emailed'
      OBVIOUS
    <3>3. IsFiniteSet(Recipients)
      BY SalonsAssumption
    <3>4. Cardinality(B) = Cardinality(A) + (IF Cur(s) \in B THEN 1 ELSE 0)
                                          - (IF Cur(s) \in A THEN 1 ELSE 0)
      BY <1>1, <3>1, <3>2, <3>3, CountMoves
    <3> QED BY <1>2, <3>1, <3>2, <3>4
  <2>7. Given(x) = 0 /\ Given(sender[s]) = 1
    BY <1>1, <1>3, <1>6 DEF Given, SlotFits, HasSlot
  <2>8. PICK p \in Int : p = 0 /\ SumIn(planSent', Months) = SumIn(planSent, Months) + p
    BY <1>2
  <2>9. /\ p + credits - credits' = Given(x) - Given(sender[s]) + wasted' - wasted + e
        /\ wasted' \in Nat
    BY <1>2, <2>6, <2>7, <2>8
  <2>10. ASSUME NEW m \in Months
         PROVE  /\ HasPlan(x, m) - HasPlan(sender[s], m) <= planSent'[m] - planSent[m]
                /\ planSent'[m] <= Cap
    <3>1. HasPlan(x, m) = 0 /\ HasPlan(sender[s], m) \in Nat
      BY <1>3, SlotsDiffer DEF HasPlan
    <3> QED BY <1>2, <3>1
  <2> QED BY <1>3, <2>5, <2>6, <2>8, <2>9, <2>10, BooksMove
<1> QED BY <1>5, <1>6

LEMMA BooksInit == Init => BooksInv
<1> SUFFICES ASSUME Init PROVE BooksInv
  OBVIOUS
<1>1. \A s \in Senders : sender[s] = Resting
  BY DEF Init
<1>2. Holding = {} /\ \A m \in Months : Holders(PlanSlot(m)) = {}
  BY <1>1, RestingFits, SlotsDiffer DEF Holding, Holders
<1>3. Emailed = {} /\ \A r \in Recipients : ~row[r].sentAt
  BY DEF Emailed, Init
<1>4. SumIn(planSent, Months) = 0
  <2>1. IsFiniteSet(Months) /\ \A m \in Months : planSent[m] = 0
    BY BoundsAssumption, FS_Interval DEF Init, Months
  <2> QED BY <2>1, SumOfZeros
<1>5. Balance
  <2>1. Bono \in Nat /\ Cap \in Nat /\ credits = Bono /\ wasted = 0
        /\ \A m \in Months : planSent[m] = 0
    BY BoundsAssumption DEF Init
  <2> QED BY <1>2, <1>3, <1>4, <2>1, FS_EmptySet DEF Balance
<1>6. SentOnce
  BY <1>1, <1>3, RestingIsSender DEF SentOnce
<1> QED BY <1>1, <1>5, <1>6, RestingFits DEF BooksInv

LEMMA BooksStep == SendInv /\ BooksInv /\ [Next]_vars /\ SendInv' => BooksInv'
<1> SUFFICES ASSUME SendInv, SendInv', BooksInv, [Next]_vars PROVE BooksInv'
  OBVIOUS
<1>1. salon.clients \subseteq Recipients /\ salon.senders \subseteq Senders
  BY SalonsAssumption DEF SendInv, Types
<1>2. CASE Ask \/ Manage \/ NewMonth \/ UNCHANGED vars
  BY <1>2, PanelBooks
<1>3. ASSUME NEW r \in salon.clients, Refuse(r) \/ WaitOver(r) PROVE BooksInv'
  BY <1>1, <1>3, PanelBooks
<1>4. ASSUME NEW s \in salon.senders, StartDue(s) \/ Run(s) \/ Die(s) PROVE BooksInv'
  <2>1. s \in Senders
    BY <1>1
  <2>2. CASE StartDue(s) \/ Resume(s)
    BY <2>1, <2>2, PanelBooks
  <2>3. CASE Load(s) \/ Count(s) \/ Finish(s) \/ Pause(s)
    BY <2>1, <2>3, RunBooks
  <2>4. CASE Pick(s) \/ Skip(s)
    BY <2>1, <2>4, PickBooks, SkipBooks
  <2>5. CASE ReservePlan(s) \/ ReservePack(s)
    BY <2>1, <2>5, ReserveBooks
  <2>6. CASE Claim(s) \/ Send(s)
    BY <2>1, <2>6, ClaimBooks, SendBooks
  <2>7. CASE GiveBack(s) \/ Write(s) \/ Die(s)
    BY <2>1, <2>7, GiveBackBooks, WriteBooks, DieBooks
  <2> QED BY <1>4, <2>2, <2>3, <2>4, <2>5, <2>6, <2>7 DEF Run
<1> QED BY <1>2, <1>3, <1>4 DEF Next

(* Every email of the plan or the bono taken is one sent, one about to be, *)
(* or one a dead process held, and no month gives more than the plan:      *)
(* reserve and release of email-quota.service.ts add up, however the       *)
(* senders interleave, die, fail or give back after midnight.              *)
THEOREM EmailsAddUpAlways == Spec => []EmailsAddUp
<1>1. BooksInv => EmailsAddUp
  <2>1. MapThenSumSet(LAMBDA m : planSent[m], Months) = SumIn(planSent, Months)
    BY SumIsIter
  <2> QED BY <2>1 DEF BooksInv, Balance, EmailsAddUp, Emailed
<1> QED BY <1>1, BooksInit, BooksStep, SendHolds, PTL DEF Spec
=============================================================================
