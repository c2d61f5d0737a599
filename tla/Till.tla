-------------------------------- MODULE Till --------------------------------
(***************************************************************************)
(* The till as the code runs it: sales (processCheckout), refunds          *)
(* (refundPayment), cash taken out of the drawer (addMovement) and the     *)
(* drawer's open and close, each a call with its own transaction.  The     *)
(* books are those of TillLedger.                                          *)
(*                                                                         *)
(* A transaction is its list of statements.  A conditional UPDATE, or the  *)
(* INSERT of a unique key, waits for the row and then tests what is        *)
(* committed (READ COMMITTED); the row stays locked, and the write unseen, *)
(* until the commit.  A statement that fails rolls everything back.        *)
(***************************************************************************)
EXTENDS TillLedger, Sequences

CONSTANTS
    Calls,        \* slots for the calls in flight at once
    Kinds,        \* the kinds of call that occur
    Points,       \* the client's loyalty points
    RewardCost,   \* LoyaltyReward.pointsCost
    Toggles,      \* the gift cards the panel switches on and off
    Faults,       \* subset of {"crash", "cancel"}: what else may happen
    NoCall, NoKey

VARIABLES
    points,       \* points of the client
    reward,       \* key -> the sale's redemption: "none", "spent" or "back"
    lock,         \* row -> the call whose transaction holds it
    call          \* slot -> the call

vars == <<ledgerVars, points, reward, lock, call>>

CallKinds == {"sale", "refund", "takeOut"}

ASSUME CallsAssumption ==
    /\ IsFiniteSet(Calls)
    /\ Kinds \subseteq CallKinds
    /\ Faults \subseteq {"crash", "cancel"}
    /\ Toggles \subseteq Cards
    /\ {Points, RewardCost} \subseteq Nat
    /\ NoCall \notin Calls
    /\ NoKey \notin Keys

-----------------------------------------------------------------------------
(* Statements that take a row, and those that only read.                   *)
RowSteps == {"prof", "key", "promo", "card", "sold", "stock", "visit", "pay"}
                \cup Lines
ReadSteps == {"drawer", "read", "cap", "uses"}
Steps == RowSteps \cup ReadSteps

RowIds == {<<s>> : s \in {"prof", "promo", "stock", "visit"}}
            \cup ({"card"} \X Cards) \cup ({"key"} \X Keys)
            \cup ({"pay"} \X Keys \X Rows) \cup ({"line"} \X Keys \X Lines)

Idle == [pc |-> "idle", kind |-> "none", key |-> NoKey, row |-> "visit",
         amount |-> 0, named |-> "none", units |-> 0,
         seen |-> 0, seenLine |-> NothingGiven, give |-> NothingGiven,
         session |-> 0, redeemed |-> FALSE, release |-> FALSE, todo |-> <<>>]

PCs == {"idle", "points", "tx", "giveBack", "after"}

Init ==
    /\ LedgerInit
    /\ points = Points
    /\ reward = [k \in Keys |-> "none"]
    /\ lock = [r \in RowIds |-> NoCall]
    /\ call = [c \in Calls |-> Idle]

When(p, s) == IF p THEN <<s>> ELSE <<>>

\* The statements of a sale's transaction, in order.
SaleSteps(k) == <<"drawer", "key">>
                \o When(Body[k].promo, "promo")
                \o When(PaidBy(k, "gift") > 0, "card")
                \o When(Body[k].units > 0, "stock")
                \o When(PaysVisit(k), "visit")

\* Mutant: the commission lock is left to the clawback, after the lines.
RefundStepsUnlocked(k, t) == <<"pay", "drawer">> \o When(t \in Lines, "read")

\* Those of a refund's, before its lines are known and after.
RefundSteps(k, t) == When(t = "visit" \/ (t \in Lines /\ Body[k].prof), "prof")
                     \o <<"pay", "drawer">>
                     \o When(t \in Lines, "read")

RefundEnd(k, t, full) == When(t = "visit", "visit")
                         \o When(Method(k, t) = "gift", "card")
                         \o When(t = "gift", "sold")
                         \o When(full, "uses")

-----------------------------------------------------------------------------
(* Calls arrive.  What they read now they act on later.                    *)

Begin(c, new) ==
    /\ new.kind \in Kinds
    /\ call[c] = Idle
    /\ call' = [call EXCEPT ![c] = new]
    /\ UNCHANGED <<ledgerVars, points, reward, lock>>

(* A key already sold is answered from its sale.  The ticket must cover    *)
(* what the visit owes, and cash needs the drawer open.                    *)
StartSale(c) ==
    \E k \in Keys \ sale :
        /\ TakesCash(k) => drawer # 0
        /\ PaysVisit(k) => Chargeable /\ VisitOwes(k)
        /\ Begin(c, [Idle EXCEPT
                !.pc = IF Body[k].reward THEN "points" ELSE "tx",
                !.kind = "sale", !.key = k, !.seen = visit.paid,
                !.todo = SaleSteps(k)])

(* redeemAtSale: a transaction of its own, before the sale's.              *)
RedeemPoints(c) ==
    /\ call[c].pc = "points"
    /\ IF points >= RewardCost
       THEN /\ points' = points - RewardCost
            /\ call' = [call EXCEPT ![c].pc = "tx", ![c].redeemed = TRUE]
       ELSE /\ call' = [call EXCEPT ![c] = Idle]
            /\ UNCHANGED points
    /\ UNCHANGED <<ledgerVars, reward, lock>>

\* The first statements of a refund; those of its lines follow the reading.
RefundCall(k, t, amount, named, n) ==
    [Idle EXCEPT !.pc = "tx", !.kind = "refund", !.key = k, !.row = t,
                 !.amount = amount, !.named = named, !.units = n,
                 !.seen = pay[k][t].back,
                 !.todo = RefundSteps(k, t)
                          \o IF t \in Lines THEN <<>>
                             ELSE RefundEnd(k, t, amount = Left(k, t))]

(* A refund names an amount, or units of one of the sale's lines.          *)
StartRefund(c) ==
    \E k \in sale, t \in Rows : \E amount \in 1..Left(k, t) :
      \E named \in {"none"} \cup (IF t \in Lines THEN Lines ELSE {}) :
        \E n \in IF named = "none" THEN {0}
                 ELSE 1..(Quantity(k, named) - line[k][named].units) :
        /\ pay[k][t].st = "paid"
        /\ named # "none" =>
               amount <= UnitsValue(k, named, n, line[k][named])
        /\ Method(k, t) = "cash" => drawer # 0
        /\ Begin(c, RefundCall(k, t, amount, named, n))

StartTakeOut(c) ==
    \E amount \in 1..Float :
        Begin(c, [Idle EXCEPT !.pc = "tx", !.kind = "takeOut",
                              !.amount = amount, !.todo = <<"drawer", "cap">>])

-----------------------------------------------------------------------------
\* The row that statement s of call c updates.
RowOf(c, s) ==
    LET k == call[c].key IN
    CASE s = "key"   -> <<"key", k>>
      [] s = "card"  -> <<"card", Body[k].card>>
      [] s = "sold"  -> <<"card", k>>
      [] s = "pay"   -> <<"pay", k, call[c].row>>
      [] s \in Lines -> <<"line", k, s>>
      [] OTHER       -> <<s>>

\* Whether the refund of c takes all that is left of its payment.
Full(c) == call[c].amount = Amount(call[c].key, call[c].row) - call[c].seen

\* Mutant: no unique key, only the look before (priorSale).
KeyUnasked(k) == TRUE

KeyIsNew(k) == k \notin sale

\* recordAppointmentPayment: over the amount and status just read.
\* Mutants: over the amount alone; over the appointment's status alone.
VisitSameAmount(c) == visit.paid = call[c].seen
VisitStillOn(c) == visit.live

VisitUnchanged(c) == Chargeable /\ visit.paid = call[c].seen

\* Mutant: over the payment's status, which a partial refund leaves alone.
PaymentStillPaid(c) == pay[call[c].key][call[c].row].st = "paid"

PaymentUnchanged(c) ==
    LET p == pay[call[c].key][call[c].row] IN
    p.st = "paid" /\ p.back = call[c].seen

\* Mutant: the line is written by its id.
LineUnasked(c, l) == TRUE

LineUnchanged(c, l) == line[call[c].key][l] = call[c].seenLine[l]

\* What statement s of call c requires of the row it updates.
Passes(c, s) ==
    LET k == call[c].key
        selling == call[c].kind = "sale"
    IN
    CASE s = "key"   -> KeyIsNew(k)
      [] s = "promo" -> selling => PromotionLeft
      [] s = "card"  -> IF selling THEN CardPays(k)
                                   ELSE CardTakesBack(Body[k].card)
      [] s = "sold"  -> SoldCardHas(k, call[c].amount)
      [] s = "stock" -> selling => StockLasts(k)
      [] s = "visit" -> selling => VisitUnchanged(c)
      [] s = "pay"   -> PaymentUnchanged(c)
      [] s \in Lines -> LineUnchanged(c, s)
      [] s = "prof"  -> TRUE

Running(c, s) == /\ call[c].pc = "tx"
                 /\ call[c].todo # <<>>
                 /\ Head(call[c].todo) = s

Freed(c) == [r \in RowIds |-> IF lock[r] = c THEN NoCall ELSE lock[r]]

\* Mutants: the points of a failed sale are forgotten; the transaction is
\* tried again from its start until it goes through.
RollbackOnly(c) == /\ call' = [call EXCEPT ![c] = Idle]
                   /\ lock' = Freed(c)
                   /\ UNCHANGED <<ledgerVars, points, reward>>

RollbackAndRetry(c) ==
    /\ call' = [call EXCEPT ![c].session = 0,
                            ![c].todo = IF call[c].kind = "sale"
                                        THEN SaleSteps(call[c].key)
                                        ELSE RefundSteps(call[c].key,
                                                         call[c].row)]
    /\ lock' = Freed(c)
    /\ UNCHANGED <<ledgerVars, points, reward>>

\* The transaction of c is undone; points it spent are given back next.
Rollback(c) ==
    /\ call' = [call EXCEPT ![c] = IF @.redeemed
                                   THEN [@ EXCEPT !.pc = "giveBack",
                                                  !.session = 0, !.todo = <<>>]
                                   ELSE Idle]
    /\ lock' = Freed(c)
    /\ UNCHANGED <<ledgerVars, points, reward>>

UpdateRow(c) ==
    \E s \in RowSteps :
        /\ Running(c, s)
        /\ lock[RowOf(c, s)] \in {NoCall, c}
        /\ \/ /\ Passes(c, s)
              /\ lock' = [lock EXCEPT ![RowOf(c, s)] = c]
              /\ call' = [call EXCEPT ![c].todo = Tail(@)]
              /\ UNCHANGED <<ledgerVars, points, reward>>
           \/ ~Passes(c, s) /\ Rollback(c)

(* openCashSessionId FOR SHARE: the open session cannot be closed before   *)
(* this transaction ends.  Without one, cash is refused.                   *)
NeedsDrawer(c) == CASE call[c].kind = "sale" -> TakesCash(call[c].key)
                    [] call[c].kind = "refund" ->
                           Method(call[c].key, call[c].row) = "cash"
                    [] OTHER -> TRUE

JoinDrawer(c) ==
    /\ Running(c, "drawer")
    /\ IF drawer = 0 /\ NeedsDrawer(c)
       THEN Rollback(c)
       ELSE /\ call' = [call EXCEPT ![c].session = drawer,
                                    ![c].todo = Tail(@)]
            /\ UNCHANGED <<ledgerVars, points, reward, lock>>

(* giveBackLines, its reads: the sale's lines, and whether any payment of  *)
(* the sale other than this one is still paid.                             *)
ReadLines(c) ==
    LET k == call[c].key
        t == call[c].row
        whole == Full(c) /\ StillPaid(k) \subseteq {t}
        give == Given(k, t, call[c].amount, call[c].named, call[c].units,
                      line[k], whole)
        gives(l) == give[l].units > 0 \/ give[l].cents > 0
    IN
    /\ Running(c, "read")
    /\ IF call[c].named # "none" /\
          call[c].units > Quantity(k, call[c].named)
                          - line[k][call[c].named].units
       THEN Rollback(c)
       ELSE /\ call' = [call EXCEPT
                    ![c].seenLine = line[k],
                    ![c].give = give,
                    ![c].todo = When(gives("service"), "service")
                                \o When(gives("product"), "product")
                                \o When(give["product"].units > 0, "stock")
                                \o RefundEnd(k, t, Full(c))]
            /\ UNCHANGED <<ledgerVars, points, reward, lock>>

(* releaseIfSaleRefundedIn: the promotion's use is released once no        *)
(* payment of the sale is left paid.                                       *)
CountUses(c) ==
    LET k == call[c].key
        gone == StillPaid(k) \subseteq {call[c].row} /\ k \in uses
    IN
    /\ Running(c, "uses")
    /\ call' = [call EXCEPT ![c].release = gone,
                            ![c].todo = When(gone, "promo")]
    /\ UNCHANGED <<ledgerVars, points, reward, lock>>

\* addMovement, a manager's: never more than the drawer should hold.
CheckCap(c) ==
    /\ Running(c, "cap")
    /\ IF call[c].amount > cash[call[c].session]
       THEN Rollback(c)
       ELSE /\ call' = [call EXCEPT ![c].todo = <<>>]
            /\ UNCHANGED <<ledgerVars, points, reward, lock>>

-----------------------------------------------------------------------------
Committing(c, kind) == /\ call[c].pc = "tx"
                       /\ call[c].todo = <<>>
                       /\ call[c].kind = kind

CommitSale(c) ==
    LET k == call[c].key IN
    /\ Committing(c, "sale")
    /\ RecordSale(k, call[c].session)
    /\ reward' = [reward EXCEPT ![k] = IF Body[k].reward THEN "spent" ELSE @]
    /\ call' = [call EXCEPT ![c] = Idle]
    /\ lock' = Freed(c)
    /\ UNCHANGED points

\* A full refund goes on to the client's points once it is committed.
CommitRefund(c) ==
    LET k == call[c].key IN
    /\ Committing(c, "refund")
    /\ RecordRefund(k, call[c].row, call[c].amount, call[c].give,
                    call[c].release, call[c].session)
    /\ call' = [call EXCEPT ![c] =
                  IF Full(c) /\ Body[k].reward
                  THEN [Idle EXCEPT !.pc = "after", !.kind = "refund",
                                    !.key = k]
                  ELSE Idle]
    /\ lock' = Freed(c)
    /\ UNCHANGED <<points, reward>>

CommitTakeOut(c) ==
    /\ Committing(c, "takeOut")
    /\ InDrawer(call[c].session, -call[c].amount)
    /\ call' = [call EXCEPT ![c] = Idle]
    /\ UNCHANGED <<sale, pay, line, card, stock, visit, uses, drawer, opened,
                   counted, points, reward, lock>>

\* processCheckout's catch: nothing was sold, the points go back.
GiveBackPoints(c) ==
    /\ call[c].pc = "giveBack"
    /\ points' = points + RewardCost
    /\ call' = [call EXCEPT ![c] = Idle]
    /\ UNCHANGED <<ledgerVars, reward, lock>>

(* onPaymentRefunded: nothing of the sale left paid, the points spent on   *)
(* it come back, once.                                                     *)
AfterRefund(c) ==
    LET k == call[c].key
        due == StillPaid(k) = {} /\ reward[k] = "spent"
    IN
    /\ call[c].pc = "after"
    /\ points' = IF due THEN points + RewardCost ELSE points
    /\ reward' = IF due THEN [reward EXCEPT ![k] = "back"] ELSE reward
    /\ call' = [call EXCEPT ![c] = Idle]
    /\ UNCHANGED <<ledgerVars, lock>>

-----------------------------------------------------------------------------
(* close: FOR UPDATE waits for every transaction that joined the session.  *)
Joined(s) == {c \in Calls : call[c].pc = "tx" /\ call[c].session = s}

\* Mutant: the session is read without FOR UPDATE.
CloseAtOnce == CloseDrawer

CloseWhenLeft == Joined(drawer) = {} /\ CloseDrawer

Waiting(c) == \E s \in RowSteps : /\ Running(c, s)
                                  /\ lock[RowOf(c, s)] \notin {NoCall, c}

Holder(c) == lock[RowOf(c, Head(call[c].todo))]

\* Transactions that wait for each other in a circle: Postgres aborts one.
Circle(S) == /\ S # {}
             /\ \A c \in S : Waiting(c)
             /\ {Holder(c) : c \in S} = S

BreakDeadlock == \E S \in SUBSET Calls : Circle(S) /\ \E c \in S : Rollback(c)

\* The process serving the call dies: Postgres rolls back, nothing follows.
Crash(c) ==
    /\ "crash" \in Faults
    /\ call[c] # Idle
    /\ call' = [call EXCEPT ![c] = Idle]
    /\ lock' = Freed(c)
    /\ UNCHANGED <<ledgerVars, points, reward>>

Elsewhere ==
    /\ \/ OpenDrawer
       \/ CloseWhenLeft
       \/ \E c \in Toggles : lock[<<"card", c>>] = NoCall /\ SwitchCard(c)
       \/ "cancel" \in Faults /\ lock[<<"visit">>] = NoCall /\ CancelVisit
    /\ UNCHANGED <<points, reward, lock, call>>

Proceed(c) == \/ RedeemPoints(c) \/ UpdateRow(c) \/ JoinDrawer(c)
              \/ ReadLines(c) \/ CountUses(c) \/ CheckCap(c)
              \/ CommitSale(c) \/ CommitRefund(c) \/ CommitTakeOut(c)
              \/ GiveBackPoints(c) \/ AfterRefund(c)

Next ==
    \/ \E c \in Calls : \/ StartSale(c) \/ StartRefund(c) \/ StartTakeOut(c)
                        \/ Proceed(c) \/ Crash(c)
    \/ BreakDeadlock
    \/ Elsewhere

Spec == Init /\ [][Next]_vars

(* A call that runs gets its turn, and Postgres serves the waiters for a   *)
(* row in turn.                                                            *)
FairSpec == /\ Spec
            /\ \A c \in Calls : SF_vars(Proceed(c))
            /\ WF_vars(BreakDeadlock)
-----------------------------------------------------------------------------
(* Type invariant: the calls' records, locks and books stay well formed.   *)
Back == [units : Nat, cents : Nat]

Call == [pc : PCs, kind : CallKinds \cup {"none"}, key : Keys \cup {NoKey},
         row : Rows, amount : Nat, named : Lines \cup {"none"}, units : Nat,
         seen : Nat, seenLine : [Lines -> Back], give : [Lines -> Back],
         session : 0..MaxSessions, redeemed : BOOLEAN, release : BOOLEAN,
         todo : Seq(Steps)]

TypeOK ==
    /\ sale \subseteq Keys /\ uses \subseteq sale
    /\ pay \in [Keys -> [Rows -> [st : {"none", "paid", "refunded"},
                                  back : Nat]]]
    /\ line \in [Keys -> [Lines -> Back]]
    /\ card \in [Cards -> [balance : Nat, active : BOOLEAN]]
    /\ stock \in Nat
    /\ visit \in [paid : Nat, st : {"pending", "paid", "refunded"},
                  live : BOOLEAN]
    /\ opened \in 0..MaxSessions /\ drawer \in 0..opened
    /\ cash \in [Sessions -> Int] /\ counted \in [Sessions -> Int]
    /\ points \in Nat
    /\ reward \in [Keys -> {"none", "spent", "back"}]
    /\ lock \in [RowIds -> Calls \cup {NoCall}]
    /\ call \in [Calls -> Call]

Busy(k) == \E c \in Calls : call[c] # Idle /\ call[c].key = k

\* Points are spent by the sales recorded and not given back, and by no
\* other: a sale that fails, a retry that finds its sale made and two tills
\* redeeming at once all end with the client's points where they belong
\* ("given back if the sale is not recorded", processCheckout).
PointsAddUp ==
    LET spent == {k \in Keys : reward[k] = "spent"}
        redeemed == {c \in Calls : call[c].redeemed}
    IN  points + RewardCost * (Cardinality(spent) + Cardinality(redeemed))
            = Points

\* Once no payment of a sale is left paid and its refunds are over, all of
\* it came back: every unit to stock, the points spent on it, the use of the
\* promotion ("the whole sale given back returns every unit not returned
\* yet", refundPayment).
WholeSaleComesBack ==
    \A k \in Keys : GivenBack(k) /\ ~Busy(k) =>
        /\ \A l \in Lines : line[k][l].units = Quantity(k, l)
        /\ reward[k] # "spent"
        /\ k \notin uses

\* A visit is paid only while money that paid it stands, or a reward covered
\* part of it, which no refund takes off ("paid if and only if the payments
\* that pay it are recorded", processCheckout; refundPayment).
PaidVisitIsPaid ==
    visit.st = "paid" =>
        \E k \in sale : Outstanding(k, "visit") + Body[k].off > 0

\* A visit cancelled while the till was charging it is not charged: its
\* amount paid only goes down from then on (recordAppointmentPayment).
CancelledVisitNotCharged ==
    [][~visit.live => visit'.paid <= visit.paid]_vars

\* Every call ends: waiting for rows, for the drawer, or for each other is
\* over in the end.
CallsEnd == \A c \in Calls : call[c] # Idle ~> call[c] = Idle
=============================================================================
