----------------------------- MODULE TillLedger -----------------------------
(***************************************************************************)
(* What the till promises (pos.service.ts, payments.service.ts,            *)
(* gift-cards.service.ts, cash-sessions.service.ts): every sale and every  *)
(* refund happens at one instant, whole, against the books as they are at  *)
(* that instant.  Till shows that the code's transactions amount to this.  *)
(***************************************************************************)
EXTENDS Tickets, FiniteSetsExt

VARIABLES
    sale,     \* the keys sold (PosSale)
    pay,      \* key -> kind -> its payment and what was given back of it
    line,     \* key -> line -> units and money given back of it
    card,     \* gift card -> balance, and whether it is switched on
    stock,    \* units of the product
    visit,    \* the appointment paid at the till
    uses,     \* the keys whose use of the promotion counts (PromotionUsage)
    drawer,   \* the cash session that is open, or 0
    opened,   \* cash sessions opened so far
    cash,     \* session -> cash its rows add up to
    counted   \* session -> expectedCashCents stored when it was closed

ledgerVars == <<sale, pay, line, card, stock, visit, uses, drawer, opened,
                cash, counted>>

Sessions == 1..MaxSessions
NoPayment == [st |-> "none", back |-> 0]

LedgerInit ==
    /\ sale = {}
    /\ pay = [k \in Keys |-> [t \in Rows |-> NoPayment]]
    /\ line = [k \in Keys |-> NothingGiven]
    /\ card = [c \in Cards |-> IF c \in OldCards
                               THEN [balance |-> Face[c], active |-> TRUE]
                               ELSE [balance |-> 0, active |-> FALSE]]
    /\ stock = Stock
    /\ visit = [paid |-> 0, st |-> "pending", live |-> TRUE]
    /\ uses = {}
    /\ drawer = 0
    /\ opened = 0
    /\ cash = [s \in Sessions |-> 0]
    /\ counted = [s \in Sessions |-> 0]

-----------------------------------------------------------------------------
(* What makes a sale possible: each is one condition of one statement of   *)
(* the sale's transaction.                                                 *)

\* Mutant: the balance was looked at before, the UPDATE does not ask again.
CardIsOn(k) == card[Body[k].card].active

CardPays(k) == /\ card[Body[k].card].active
               /\ card[Body[k].card].balance >= PaidBy(k, "gift")

\* Mutant: stock is taken without asking how much there is.
StockUnasked(k) == TRUE

StockLasts(k) == stock >= Body[k].units

PromotionLeft == Cardinality(uses) < MaxUses

\* The till prices the visit at what it still owes, and takes just that:
\* settleTenders refuses less than the total.
VisitOwes(k) == visit.paid + Amount(k, "visit") + Body[k].off = VisitPrice

Chargeable == visit.live /\ visit.st # "paid"

Sellable(k) == /\ k \notin sale
               /\ TakesCash(k) => drawer # 0
               /\ PaidBy(k, "gift") > 0 => CardPays(k)
               /\ StockLasts(k)
               /\ Body[k].promo => PromotionLeft
               /\ PaysVisit(k) => Chargeable /\ VisitOwes(k)

InDrawer(s, amount) ==
    cash' = IF s = 0 THEN cash ELSE [cash EXCEPT ![s] = @ + amount]

\* The sale of k is written, in cash session s.
RecordSale(k, s) ==
    /\ sale' = sale \cup {k}
    /\ pay' = [pay EXCEPT ![k] =
                 [t \in Rows |-> IF Amount(k, t) > 0
                                 THEN [st |-> "paid", back |-> 0]
                                 ELSE NoPayment]]
    /\ card' = [c \in Cards |->
                 IF c = k /\ Amount(k, "gift") > 0
                 THEN [balance |-> Amount(k, "gift"), active |-> TRUE]
                 ELSE IF c = Body[k].card
                 THEN [card[c] EXCEPT !.balance = @ - PaidBy(k, "gift")]
                 ELSE card[c]]
    /\ stock' = stock - Body[k].units
    /\ uses' = IF Body[k].promo THEN uses \cup {k} ELSE uses
    /\ visit' = IF PaysVisit(k)
                THEN [visit EXCEPT !.paid = VisitPrice, !.st = "paid"]
                ELSE visit
    /\ InDrawer(s, PaidBy(k, "cash"))
    /\ UNCHANGED <<line, drawer, opened, counted>>

Sell(k) == Sellable(k) /\ RecordSale(k, drawer)

-----------------------------------------------------------------------------
Left(k, t) == Amount(k, t) - pay[k][t].back

StillPaid(k) == {t \in Rows : pay[k][t].st = "paid"}

\* refundToCard: a card switched off with money on it stays off.
CardTakesBack(c) == card[c].active \/ card[c].balance = 0

\* Mutant: the card sold is taken from whatever is left on it.
SoldCardIsOn(k, amount) == card[k].active

SoldCardHas(k, amount) == card[k].active /\ card[k].balance >= amount

\* Mutant: the amount goes down and the payment status stays.
LessPaidStillPaid(paid) == [visit EXCEPT !.paid = paid]

LessPaid(paid) == [visit EXCEPT !.paid = paid,
                                !.st = IF paid = 0 THEN "refunded" ELSE @]

(* A refund of the payment of kind t is written, in cash session s: `give` *)
(* is what it gives back of the lines, `release` whether the promotion's   *)
(* use stops counting.                                                     *)
RecordRefund(k, t, amount, give, release, s) ==
    LET gift == Method(k, t) = "gift"
        paid == IF visit.paid >= amount THEN visit.paid - amount ELSE 0
    IN
    /\ pay' = [pay EXCEPT ![k][t] =
                 [st   |-> IF amount = Left(k, t) THEN "refunded" ELSE "paid",
                  back |-> @.back + amount]]
    /\ line' = [line EXCEPT ![k] =
                 [l \in Lines |-> [units |-> @[l].units + give[l].units,
                                   cents |-> @[l].cents + give[l].cents]]]
    /\ stock' = stock + give["product"].units
    /\ card' = [c \in Cards |->
                 IF t = "gift" /\ c = k
                 THEN [card[c] EXCEPT !.balance = @ - amount]
                 ELSE IF gift /\ c = Body[k].card
                 THEN [balance |-> card[c].balance + amount, active |-> TRUE]
                 ELSE card[c]]
    /\ visit' = IF t = "visit" THEN LessPaid(paid) ELSE visit
    /\ uses' = IF release THEN uses \ {k} ELSE uses
    /\ InDrawer(s, IF Method(k, t) = "cash" THEN -amount ELSE 0)
    /\ UNCHANGED <<sale, drawer, opened, counted>>

Refund(k, t, amount, named, n) ==
    LET full == amount = Left(k, t)
        whole == full /\ StillPaid(k) \subseteq {t}
    IN
    /\ pay[k][t].st = "paid"
    /\ amount \in 1..Left(k, t)
    /\ named # "none" => /\ t \in Lines
                         /\ n \in 1..(Quantity(k, named) - line[k][named].units)
    /\ Method(k, t) = "cash" => drawer # 0
    /\ Method(k, t) = "gift" => CardTakesBack(Body[k].card)
    /\ t = "gift" => SoldCardHas(k, amount)
    /\ RecordRefund(k, t, amount,
                    IF t \in Lines
                    THEN Given(k, t, amount, named, n, line[k], whole)
                    ELSE NothingGiven,
                    whole, drawer)

-----------------------------------------------------------------------------
OpenDrawer ==
    /\ drawer = 0
    /\ opened < MaxSessions
    /\ opened' = opened + 1
    /\ drawer' = opened + 1
    /\ cash' = [cash EXCEPT ![opened + 1] = Float]
    /\ UNCHANGED <<sale, pay, line, card, stock, visit, uses, counted>>

CloseDrawer ==
    /\ drawer # 0
    /\ drawer' = 0
    /\ counted' = [counted EXCEPT ![drawer] = cash[drawer]]
    /\ UNCHANGED <<sale, pay, line, card, stock, visit, uses, opened, cash>>

TakeOut(amount) ==
    /\ drawer # 0
    /\ amount <= cash[drawer]
    /\ InDrawer(drawer, -amount)
    /\ UNCHANGED <<sale, pay, line, card, stock, visit, uses, drawer, opened,
                   counted>>

\* A card that was issued is switched off, or on: the money it had when the
\* panel looked may be spent by now (gift cards, update).
SwitchCard(c) ==
    /\ c \in OldCards \cup {k \in sale : Amount(k, "gift") > 0}
    /\ card' = [card EXCEPT ![c].active = ~@]
    /\ UNCHANGED <<sale, pay, line, stock, visit, uses, drawer, opened, cash,
                   counted>>

\* The agenda cancels the visit, whatever was paid on it.
CancelVisit ==
    /\ visit.live
    /\ visit' = [visit EXCEPT !.live = FALSE]
    /\ UNCHANGED <<sale, pay, line, card, stock, uses, drawer, opened, cash,
                   counted>>

LedgerNext ==
    \/ \E k \in Keys : Sell(k)
    \/ \E k \in sale : \E t \in StillPaid(k) : \E amount \in 1..Left(k, t) :
         \/ Refund(k, t, amount, "none", 0)
         \/ \E named \in Lines, n \in 1..Body[k].units + 1 :
                Refund(k, t, amount, named, n)
    \/ OpenDrawer
    \/ CloseDrawer
    \/ \E amount \in 1..Float : TakeOut(amount)
    \/ \E c \in Cards : SwitchCard(c)
    \/ CancelVisit

\* A step that changes nothing is none: said first, for TLC need not look for one.
LedgerSpec == LedgerInit /\ [][ledgerVars' # ledgerVars /\ LedgerNext]_ledgerVars
-----------------------------------------------------------------------------
(* The books.                                                              *)

SumOver(F) == MapThenSumSet(LAMBDA k : F[k], Keys)

\* What payment (k, t) still stands for.
Outstanding(k, t) == IF k \in sale THEN Left(k, t) ELSE 0

OutstandingBy(k, m) ==
    Total([t \in Rows |-> IF Method(k, t) = m THEN Outstanding(k, t) ELSE 0])

\* A gift card holds what was put on it less what payments took from it and
\* refunds have not given back: money is neither lost nor spent twice when
\* sales and refunds of one card overlap (redeemInTx, refundToCard).
CardAddsUp ==
    \A c \in Cards :
        LET taken == [k \in Keys |-> IF Body[k].card = c
                                     THEN OutstandingBy(k, "gift") ELSE 0]
            put == IF c \in OldCards THEN Face[c] ELSE Outstanding(c, "gift")
        IN  /\ card[c].balance = put - SumOver(taken)
            /\ card[c].balance >= 0

\* The shelf holds the units no sale has taken, or that came back: two tills
\* never sell the same unit, and a refund never returns it twice.
StockAddsUp ==
    LET out == [k \in Keys |-> IF k \in sale
                               THEN Body[k].units - line[k]["product"].units
                               ELSE 0]
    IN  /\ stock = Stock - SumOver(out)
        /\ stock >= 0

\* amountPaid of the visit is what its payments and the rewards spent on it
\* come to, and never more than it costs, however many tills charge it.
VisitAddsUp ==
    LET paid == [k \in Keys |-> IF k \in sale
                                THEN Outstanding(k, "visit") + Body[k].off
                                ELSE 0]
    IN  /\ visit.paid = SumOver(paid)
        /\ visit.paid <= VisitPrice

\* No payment, line or unit is given back past what it was.
NothingGivenBackTwice ==
    \A k \in sale :
        /\ \A t \in Rows : pay[k][t].back <= Amount(k, t)
        /\ \A l \in Lines : /\ line[k][l].units <= Quantity(k, l)
                            /\ line[k][l].cents <= Amount(k, l)

\* What was counted when a session closed is what its rows add up to for
\* ever after: no sale, refund or movement slips into a closed session
\* (cash-session-lock.ts).
DrawerCountStands ==
    \A s \in 1..opened : s # drawer => counted[s] = cash[s]

\* No payment of k is left paid: the whole sale was given back.
GivenBack(k) == k \in sale /\ StillPaid(k) = {}
=============================================================================
