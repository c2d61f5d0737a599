------------------------------ MODULE Tickets ------------------------------
(***************************************************************************)
(* What the till is asked to sell, as the server has priced and split it   *)
(* (pos-ticket.ts, pos-tenders.ts, appointment-payment.ts): a constant of  *)
(* each request id, since a retry carries the same body.                   *)
(***************************************************************************)
EXTENDS Integers, FiniteSets

CONSTANTS
    Keys,         \* request ids, one per ticket (PosSale.requestId)
    Body,         \* key -> the ticket
    OldCards,     \* gift cards issued before; a ticket may sell one more
    Face,         \* gift card -> its first balance
    Stock,        \* units of the product on the shelf
    MaxUses,      \* Promotion.maxUses
    VisitPrice,   \* what the visit at the till costs
    MaxSessions,  \* bound: how often the drawer is opened
    Float,        \* openingFloatCents
    NoCard

(* A ticket becomes one payment per kind of thing it pays for, with the    *)
(* method it was paid by; its own lines are a service and a product.       *)
Rows == {"visit", "service", "product", "gift"}
Lines == {"service", "product"}
Methods == {"cash", "card", "gift"}

\* A card sold by a ticket is known by the ticket's key.
Cards == OldCards \cup Keys

Ticket == [pays : [Rows -> [amount : Nat, method : Methods]],
           card : Cards \cup {NoCard},  \* the gift card it is paid with
           units : Nat,                 \* of the product
           off : Nat,                   \* of the visit, covered by a reward
           reward : BOOLEAN,            \* spends loyalty points
           promo : BOOLEAN,             \* uses the promotion code
           prof : BOOLEAN]              \* its lines name a professional

ASSUME TicketsAssumption ==
    /\ IsFiniteSet(Keys)
    /\ Body \in [Keys -> Ticket]
    /\ OldCards \cap Keys = {}
    /\ NoCard \notin Cards
    /\ Face \in [OldCards -> Nat]
    /\ {Stock, MaxUses, VisitPrice, MaxSessions, Float} \subseteq Nat

Amount(k, t) == Body[k].pays[t].amount
Method(k, t) == Body[k].pays[t].method

Total(f) == f["visit"] + f["service"] + f["product"] + f["gift"]

\* What ticket k pays by method m.
PaidBy(k, m) ==
    Total([t \in Rows |-> IF Method(k, t) = m THEN Amount(k, t) ELSE 0])

\* A gift card is paid with money, and a ticket is paid with one card.
ASSUME PaymentAssumption ==
    \A k \in Keys :
        /\ Method(k, "gift") # "gift"
        /\ PaidBy(k, "gift") > 0 => Body[k].card \in Cards \ {k}
        /\ PaidBy(k, "gift") = 0 => Body[k].card = NoCard
        /\ Body[k].units > 0 <=> Amount(k, "product") > 0
        /\ Body[k].off > 0 => Body[k].reward

TakesCash(k) == PaidBy(k, "cash") > 0
PaysVisit(k) == Amount(k, "visit") + Body[k].off > 0

Quantity(k, l) == IF l = "product" THEN Body[k].units
                  ELSE IF Amount(k, l) > 0 THEN 1 ELSE 0

Least(a, b) == IF a <= b THEN a ELSE b

(* unitsValueCents: n units of a line are their share of it, rounded half  *)
(* up; the last ones are all that is left of it.                           *)
UnitsValue(k, l, n, given) ==
    LET left == Amount(k, l) - given.cents IN
    IF n >= Quantity(k, l) - given.units THEN left
    ELSE Least(left, (2 * Amount(k, l) * n + Quantity(k, l))
                     \div (2 * Quantity(k, l)))

NothingGiven == [l \in Lines |-> [units |-> 0, cents |-> 0]]

(* giveBackLines: what a refund of `amount` of the payment of kind t gives *)
(* back of the ticket's lines, of which `given` went before.  The line     *)
(* named loses the units named; with none named the money comes off the    *)
(* payment's own line while it has some left, else off the other.  The     *)
(* whole sale given back takes all that is left.                           *)
Given(k, t, amount, named, n, given, whole) ==
    LET left(l) == Amount(k, l) - given[l].cents
        target == IF named # "none" THEN named
                  ELSE IF left(t) > 0 THEN t
                  ELSE CHOOSE l \in Lines : l # t
    IN  [l \in Lines |->
           IF whole
           THEN [units |-> Quantity(k, l) - given[l].units, cents |-> left(l)]
           ELSE [units |-> IF l = named THEN n ELSE 0,
                 cents |-> IF l = target THEN Least(amount, left(l)) ELSE 0]]
=============================================================================
