-------------------------- MODULE TillBooksProofs --------------------------
(***************************************************************************)
(* Proofs about Till, for every number of tills, tickets, cards and        *)
(* amounts: what the locks of a transaction are worth until it commits,    *)
(* and from that, that the books are kept.                                 *)
(***************************************************************************)
EXTENDS TillProofs, SumProofs

(* What a list of statements holds, and what its last ones may be: what a  *)
(* transaction goes on with after "read" and "uses" is known only then.    *)
Remaining(s) == {s[i] : i \in 1..Len(s)}

Turns == {"read", "uses", "cap"}

OnlyLast(s) == \A i \in 1..Len(s) : s[i] \in Turns => i = Len(s)

\* The rows a sale of k takes.
SaleRow(k, s) == \/ s = "key"
                 \/ s = "promo" /\ Body[k].promo
                 \/ s = "card" /\ PaidBy(k, "gift") > 0
                 \/ s = "stock" /\ Body[k].units > 0
                 \/ s = "visit" /\ PaysVisit(k)

\* The refunds of a sale wait for each other: they take the row "prof".
Queued(k, t) == t = "visit" \/ (t \in Lines /\ Body[k].prof)

Gives(g) == g.units > 0 \/ g.cents > 0

\* The lines are read, or are none of this refund's business.
Known(q) == q.row \in Lines => "read" \notin Remaining(q.todo)

\* The rows refund q takes, as far as it knows them.
RefundRow(q, s) == \/ s = "prof" /\ Queued(q.key, q.row)
                   \/ s = "pay"
                   \/ s \in Lines /\ Gives(q.give[s])
                   \/ s = "stock" /\ q.give["product"].units > 0
                   \/ s = "promo" /\ q.release
                   \/ s = "visit" /\ q.row = "visit"
                   \/ s = "sold" /\ q.row = "gift"
                   \/ s = "card" /\ Known(q) /\ Method(q.key, q.row) = "gift"

RowPart(q, s) == \/ q.kind = "sale" /\ SaleRow(q.key, s)
                 \/ q.kind = "refund" /\ RefundRow(q, s)

\* A statement its transaction has been through.
Done(q, s) == q.pc = "tx" /\ s \notin Remaining(q.todo) /\ RowPart(q, s)

(* What a statement required of its row still holds, because the row is    *)
(* locked.                                                                 *)
LocksHold == \A c \in Calls : \A s \in RowSteps :
                Done(call[c], s) => lock[RowOf(c, s)] = c /\ Passes(c, s)

(* What a call carries: the rows it goes on with are its own, what it read *)
(* of the visit is what the ticket was priced for, what it gives back of a *)
(* line is there to give.                                                  *)
SaleStands(q) ==
    /\ q.pc \in {"points", "tx", "giveBack"}
    /\ q.pc = "points" => q.todo = SaleSteps(q.key) /\ Body[q.key].reward
    /\ q.redeemed <=> Body[q.key].reward /\ q.pc # "points"
    /\ PaysVisit(q.key) =>
           q.seen + Amount(q.key, "visit") + Body[q.key].off = VisitPrice
    /\ q.pc = "tx" =>
           /\ \A s \in Remaining(q.todo) :
                  s = "drawer" \/ (s \in RowSteps /\ SaleRow(q.key, s))
           /\ TakesCash(q.key) /\ "drawer" \notin Remaining(q.todo) =>
                  q.session # 0

GiveFits(q) ==
    \A l \in Lines :
        /\ q.seenLine[l].units + q.give[l].units <= Quantity(q.key, l)
        /\ q.seenLine[l].cents + q.give[l].cents <= Amount(q.key, l)

RefundRuns(q) ==
    /\ q.amount \in 1..(Amount(q.key, q.row) - q.seen)
    /\ \A s \in Remaining(q.todo) :
           s \in {"drawer", "read", "uses"} \/ (s \in RowSteps /\ RefundRow(q, s))
    /\ GiveFits(q)
    /\ ~Known(q) => /\ q.give = NothingGiven /\ ~q.release
                    /\ "uses" \notin Remaining(q.todo)
    /\ q.row \notin Lines => /\ q.give = NothingGiven
                             /\ "read" \notin Remaining(q.todo)
    /\ Method(q.key, q.row) = "cash" /\ "drawer" \notin Remaining(q.todo) =>
           q.session # 0

RefundStands(q) ==
    /\ q.key \in sale
    /\ ~q.redeemed
    /\ q.pc \in {"tx", "after"}
    /\ q.pc = "tx" => RefundRuns(q)

Stands(q) ==
    /\ OnlyLast(q.todo)
    /\ q.amount \in Nat /\ q.units \in Nat /\ q.seen \in Nat
    /\ q.seenLine \in [Lines -> Back] /\ q.give \in [Lines -> Back]
    /\ q.kind = "sale" => SaleStands(q)
    /\ q.kind = "refund" => RefundStands(q)
    /\ q.kind = "takeOut" => ~q.redeemed /\ q.pc = "tx"

CallsStand == \A c \in Calls : Stands(call[c])

(* The books: nothing below zero or given back past what it was; a ticket  *)
(* not sold has left no trace, and its gift card is not in use.            *)
BooksShape ==
    /\ card \in [Cards -> [balance : Nat, active : BOOLEAN]]
    /\ stock \in Nat
    /\ visit.paid \in Nat
    /\ uses \subseteq sale
    /\ points \in Nat
    /\ reward \in [Keys -> {"none", "spent", "back"}]
    /\ lock \in [RowIds -> Calls \cup {NoCall}]

WithinTicket ==
    \A k \in Keys :
        /\ \A t \in Rows : pay[k][t].back \in 0..Amount(k, t)
        /\ \A l \in Lines : /\ line[k][l].units \in 0..Quantity(k, l)
                            /\ line[k][l].cents \in 0..Amount(k, l)

NoTrace ==
    /\ \A k \in Keys \ sale :
           /\ pay[k] = [t \in Rows |-> NoPayment]
           /\ line[k] = NothingGiven
           /\ card[k] = [balance |-> 0, active |-> FALSE]
           /\ reward[k] = "none"
    /\ \A k \in sale : PaidBy(k, "gift") > 0 => Body[k].card \notin Keys \ sale

BooksInv == /\ BooksShape
            /\ WithinTicket
            /\ NoTrace
            /\ CallsStand
            /\ LocksHold

-----------------------------------------------------------------------------
(* Lists of statements.                                                    *)

LEMMA RemainingOfEmpty == Remaining(<< >>) = {}
  BY DEF Remaining

LEMMA RemainingSplits ==
    ASSUME NEW s \in StepLists, s # << >>
    PROVE  /\ Tail(s) \in StepLists
           /\ Remaining(s) = {Head(s)} \cup Remaining(Tail(s))
<1>1. Tail(s) \in StepLists /\ Len(Tail(s)) = Len(s) - 1 /\ Len(s) \in Nat \ {0}
  BY DEF StepLists
<1>2. \A i \in 1..Len(Tail(s)) : Tail(s)[i] = s[i + 1]
  BY DEF StepLists
<1>3. \A i \in 1..Len(s) : i = 1 \/ (i - 1 \in 1..Len(Tail(s)) /\ s[i] = Tail(s)[i - 1])
  BY <1>1, <1>2
<1>4. \A i \in 1..Len(Tail(s)) : i + 1 \in 1..Len(s)
  BY <1>1
<1>5. Head(s) = s[1] /\ 1 \in 1..Len(s)
  BY <1>1
<1> QED BY <1>1, <1>2, <1>3, <1>4, <1>5 DEF Remaining

LEMMA NothingRemains ==
    ASSUME NEW s \in StepLists PROVE s = << >> <=> Remaining(s) = {}
  BY RemainingOfEmpty, RemainingSplits

LEMMA RemainingAreSteps ==
    ASSUME NEW s \in StepLists PROVE Remaining(s) \subseteq Steps
  BY DEF Remaining, StepLists

LEMMA RemainingOfBoth ==
    ASSUME NEW a \in StepLists, NEW b \in StepLists
    PROVE  a \o b \in StepLists /\ Remaining(a \o b) = Remaining(a) \cup Remaining(b)
<1>1. /\ a \o b \in StepLists /\ Len(a \o b) = Len(a) + Len(b)
      /\ Len(a) \in Nat /\ Len(b) \in Nat
  BY DEF StepLists
<1>2. \A i \in 1..Len(a \o b) : (a \o b)[i] = IF i <= Len(a) THEN a[i] ELSE b[i - Len(a)]
  BY DEF StepLists
<1>3. \A i \in 1..Len(a) : i \in 1..Len(a \o b) /\ (a \o b)[i] = a[i]
  BY <1>1, <1>2
<1>4. \A i \in 1..Len(b) : i + Len(a) \in 1..Len(a \o b) /\ (a \o b)[i + Len(a)] = b[i]
  BY <1>1, <1>2
<1>5. \A i \in 1..Len(a \o b) : \/ i \in 1..Len(a)
                                \/ i - Len(a) \in 1..Len(b)
  BY <1>1
<1>6. Remaining(a \o b) \subseteq Remaining(a) \cup Remaining(b)
  BY <1>1, <1>2, <1>5 DEF Remaining
<1>7. Remaining(a) \cup Remaining(b) \subseteq Remaining(a \o b)
  BY <1>3, <1>4 DEF Remaining
<1> QED BY <1>1, <1>6, <1>7

LEMMA RemainingOfWhen ==
    ASSUME NEW p, NEW s \in Steps
    PROVE  /\ When(p, s) \in StepLists
           /\ Remaining(When(p, s)) = IF p THEN {s} ELSE {}
<1>1. CASE p
  BY <1>1, WhenIsSteps DEF When, Remaining
<1>2. CASE ~p
  <2>1. When(p, s) = << >>
    BY <1>2 DEF When
  <2> QED BY <1>2, <2>1, WhenIsSteps, RemainingOfEmpty
<1> QED BY <1>1, <1>2

LEMMA RemainingOfTwo ==
    ASSUME NEW a \in Steps, NEW b \in Steps
    PROVE  <<a, b>> \in StepLists /\ Remaining(<<a, b>>) = {a, b}
<1>1. <<a, b>> \in StepLists /\ Len(<<a, b>>) = 2
  BY DEF StepLists
<1>2. 1..2 = {1, 2}
  OBVIOUS
<1> QED BY <1>1, <1>2 DEF Remaining

(* A list without turning points keeps none; one more statement may end it. *)
LEMMA LastStays ==
    ASSUME NEW s \in StepLists, s # << >>, OnlyLast(s)
    PROVE  /\ OnlyLast(Tail(s))
           /\ Head(s) \in Turns => Remaining(s) = {Head(s)}
<1>1. Len(Tail(s)) = Len(s) - 1 /\ Len(s) \in Nat \ {0} /\ Head(s) = s[1]
  BY DEF StepLists
<1>2. \A i \in 1..Len(Tail(s)) : Tail(s)[i] = s[i + 1]
  BY DEF StepLists
<1>3. \A i \in 1..Len(Tail(s)) :
         i + 1 \in 1..Len(s) /\ (i + 1 = Len(s) => i = Len(Tail(s)))
  <2>1. \A i, n, m \in Int : m = n - 1 /\ i + 1 = n => i = m
    OBVIOUS
  <2>2. Len(s) \in Int /\ Len(Tail(s)) \in Int
    BY <1>1
  <2>3. \A i \in 1..Len(Tail(s)) : i \in Int /\ i + 1 \in 1..Len(s)
    BY <1>1
  <2> QED BY <1>1, <2>1, <2>2, <2>3
<1>4. ASSUME Head(s) \in Turns PROVE Remaining(s) = {Head(s)}
  <2>1. Len(s) = 1
    <3>1. 1 \in 1..Len(s) /\ s[1] \in Turns
      BY <1>1, <1>4
    <3> QED BY <3>1 DEF OnlyLast
  <2>2. 1..1 = {1}
    OBVIOUS
  <2> QED BY <1>1, <2>1, <2>2 DEF Remaining
<1>5. OnlyLast(Tail(s))
  BY <1>2, <1>3 DEF OnlyLast
<1> QED BY <1>4, <1>5

LEMMA PlainThenLast ==
    ASSUME NEW a \in StepLists, NEW b \in StepLists,
           Remaining(a) \cap Turns = {}, OnlyLast(b)
    PROVE  OnlyLast(a \o b)
<1>1. /\ Len(a \o b) = Len(a) + Len(b)
      /\ Len(a) \in Nat /\ Len(b) \in Nat
  BY DEF StepLists
<1>2. \A i \in 1..Len(a \o b) : (a \o b)[i] = IF i <= Len(a) THEN a[i] ELSE b[i - Len(a)]
  BY DEF StepLists
<1>3. \A i \in 1..Len(a) : a[i] \notin Turns
  BY DEF Remaining
<1>4. ASSUME NEW i \in 1..Len(a \o b), (a \o b)[i] \in Turns PROVE i = Len(a \o b)
  <2>1. ~(i <= Len(a))
    BY <1>1, <1>2, <1>3, <1>4
  <2>2. i - Len(a) \in 1..Len(b) /\ b[i - Len(a)] \in Turns
    BY <1>1, <1>2, <1>4, <2>1
  <2> QED BY <1>1, <2>2 DEF OnlyLast
<1> QED BY <1>4 DEF OnlyLast

LEMMA ShortIsLast ==
    /\ OnlyLast(<< >>)
    /\ \A p : \A s \in Steps : OnlyLast(When(p, s))
<1>1. OnlyLast(<< >>)
  BY DEF OnlyLast
<1>2. ASSUME NEW p, NEW s \in Steps PROVE OnlyLast(When(p, s))
  BY DEF OnlyLast, When
<1> QED BY <1>1, <1>2

LEMMA PlainIsLast ==
    ASSUME NEW a \in StepLists, Remaining(a) \cap Turns = {} PROVE OnlyLast(a)
  BY DEF OnlyLast, Remaining

(* The lists calls begin with.                                             *)
LEMMA SaleStepsAre ==
    ASSUME NEW k \in Keys
    PROVE  /\ SaleSteps(k) \in StepLists
           /\ Remaining(SaleSteps(k)) = {"drawer"} \cup {s \in RowSteps : SaleRow(k, s)}
           /\ OnlyLast(SaleSteps(k))
<1> DEFINE a == <<"drawer", "key">>
           b == When(Body[k].promo, "promo")
           c == When(PaidBy(k, "gift") > 0, "card")
           d == When(Body[k].units > 0, "stock")
           e == When(PaysVisit(k), "visit")
<1>1. {"drawer", "key", "promo", "card", "stock", "visit"} \subseteq Steps
  BY DEF Steps, RowSteps, ReadSteps
<1>2. /\ a \in StepLists /\ Remaining(a) = {"drawer", "key"}
      /\ b \in StepLists /\ Remaining(b) = IF Body[k].promo THEN {"promo"} ELSE {}
      /\ c \in StepLists /\ Remaining(c) = IF PaidBy(k, "gift") > 0 THEN {"card"} ELSE {}
      /\ d \in StepLists /\ Remaining(d) = IF Body[k].units > 0 THEN {"stock"} ELSE {}
      /\ e \in StepLists /\ Remaining(e) = IF PaysVisit(k) THEN {"visit"} ELSE {}
  BY <1>1, RemainingOfTwo, RemainingOfWhen
<1>3. SaleSteps(k) = a \o b \o c \o d \o e
  BY DEF SaleSteps
<1> HIDE DEF a, b, c, d, e
<1>4. a \o b \in StepLists /\ Remaining(a \o b) = Remaining(a) \cup Remaining(b)
  BY <1>2, RemainingOfBoth
<1>5. /\ a \o b \o c \in StepLists
      /\ Remaining(a \o b \o c) = Remaining(a \o b) \cup Remaining(c)
  BY <1>2, <1>4, RemainingOfBoth
<1>6. /\ a \o b \o c \o d \in StepLists
      /\ Remaining(a \o b \o c \o d) = Remaining(a \o b \o c) \cup Remaining(d)
  BY <1>2, <1>5, RemainingOfBoth
<1>7. /\ SaleSteps(k) \in StepLists
      /\ Remaining(SaleSteps(k)) = Remaining(a \o b \o c \o d) \cup Remaining(e)
  BY <1>2, <1>3, <1>6, RemainingOfBoth
<1>8. Remaining(SaleSteps(k)) = {"drawer"} \cup {s \in RowSteps : SaleRow(k, s)}
  <2>1. \A s : s \in Remaining(SaleSteps(k)) <=>
                   \/ s \in {"drawer", "key"}
                   \/ s = "promo" /\ Body[k].promo
                   \/ s = "card" /\ PaidBy(k, "gift") > 0
                   \/ s = "stock" /\ Body[k].units > 0
                   \/ s = "visit" /\ PaysVisit(k)
    BY <1>2, <1>4, <1>5, <1>6, <1>7
  <2> QED BY <2>1 DEF SaleRow, RowSteps
<1>9. Remaining(SaleSteps(k)) \cap Turns = {}
  BY <1>8 DEF Turns, RowSteps, Lines
<1> QED BY <1>7, <1>8, <1>9, PlainIsLast

LEMMA RefundStepsAre ==
    ASSUME NEW k \in Keys, NEW t \in Rows
    PROVE  /\ RefundSteps(k, t) \in StepLists
           /\ Remaining(RefundSteps(k, t)) =
                {"pay", "drawer"} \cup (IF Queued(k, t) THEN {"prof"} ELSE {})
                                  \cup (IF t \in Lines THEN {"read"} ELSE {})
           /\ OnlyLast(RefundSteps(k, t))
<1> DEFINE a == When(t = "visit" \/ (t \in Lines /\ Body[k].prof), "prof")
           b == <<"pay", "drawer">>
           c == When(t \in Lines, "read")
<1>1. {"prof", "pay", "drawer", "read"} \subseteq Steps
  BY DEF Steps, RowSteps, ReadSteps
<1>2. /\ a \in StepLists /\ Remaining(a) = IF Queued(k, t) THEN {"prof"} ELSE {}
      /\ b \in StepLists /\ Remaining(b) = {"pay", "drawer"}
      /\ c \in StepLists /\ Remaining(c) = IF t \in Lines THEN {"read"} ELSE {}
      /\ OnlyLast(c)
  BY <1>1, RemainingOfTwo, RemainingOfWhen, ShortIsLast DEF Queued
<1>3. RefundSteps(k, t) = a \o b \o c
  BY DEF RefundSteps
<1> HIDE DEF a, b, c
<1>4. a \o b \in StepLists /\ Remaining(a \o b) = Remaining(a) \cup Remaining(b)
  BY <1>2, RemainingOfBoth
<1>5. /\ RefundSteps(k, t) \in StepLists
      /\ Remaining(RefundSteps(k, t)) = Remaining(a \o b) \cup Remaining(c)
  BY <1>2, <1>3, <1>4, RemainingOfBoth
<1>6. Remaining(a \o b) \cap Turns = {}
  BY <1>2, <1>4 DEF Turns
<1>7. OnlyLast(RefundSteps(k, t))
  BY <1>2, <1>3, <1>4, <1>6, PlainThenLast
<1> QED BY <1>2, <1>4, <1>5, <1>7

LEMMA RefundEndIs ==
    ASSUME NEW k \in Keys, NEW t \in Rows, NEW full
    PROVE  /\ RefundEnd(k, t, full) \in StepLists
           /\ Remaining(RefundEnd(k, t, full)) =
                     (IF t = "visit" THEN {"visit"} ELSE {})
                \cup (IF Method(k, t) = "gift" THEN {"card"} ELSE {})
                \cup (IF t = "gift" THEN {"sold"} ELSE {})
                \cup (IF full THEN {"uses"} ELSE {})
           /\ OnlyLast(RefundEnd(k, t, full))
<1> DEFINE a == When(t = "visit", "visit")
           b == When(Method(k, t) = "gift", "card")
           c == When(t = "gift", "sold")
           d == When(full, "uses")
<1>1. {"visit", "card", "sold", "uses"} \subseteq Steps
  BY DEF Steps, RowSteps, ReadSteps
<1>2. /\ a \in StepLists /\ Remaining(a) = IF t = "visit" THEN {"visit"} ELSE {}
      /\ b \in StepLists /\ Remaining(b) = IF Method(k, t) = "gift" THEN {"card"} ELSE {}
      /\ c \in StepLists /\ Remaining(c) = IF t = "gift" THEN {"sold"} ELSE {}
      /\ d \in StepLists /\ Remaining(d) = IF full THEN {"uses"} ELSE {}
      /\ OnlyLast(d)
  BY <1>1, RemainingOfWhen, ShortIsLast
<1>3. RefundEnd(k, t, full) = a \o b \o c \o d
  BY DEF RefundEnd
<1> HIDE DEF a, b, c, d
<1>4. a \o b \in StepLists /\ Remaining(a \o b) = Remaining(a) \cup Remaining(b)
  BY <1>2, RemainingOfBoth
<1>5. /\ a \o b \o c \in StepLists
      /\ Remaining(a \o b \o c) = Remaining(a \o b) \cup Remaining(c)
  BY <1>2, <1>4, RemainingOfBoth
<1>6. /\ RefundEnd(k, t, full) \in StepLists
      /\ Remaining(RefundEnd(k, t, full)) = Remaining(a \o b \o c) \cup Remaining(d)
  BY <1>2, <1>3, <1>5, RemainingOfBoth
<1>7. Remaining(a \o b \o c) \cap Turns = {}
  BY <1>2, <1>4, <1>5 DEF Turns
<1>8. OnlyLast(RefundEnd(k, t, full))
  BY <1>2, <1>3, <1>5, <1>7, PlainThenLast
<1> QED BY <1>2, <1>4, <1>5, <1>6, <1>8

-----------------------------------------------------------------------------
(* Rows, and what holds of them.                                           *)

LEMMA GiftIsPaidByGift ==
    ASSUME NEW k \in Keys
    PROVE  /\ \A m : PaidBy(k, m) \in Nat
           /\ \A t \in Rows : Amount(k, t) <= PaidBy(k, Method(k, t))
           /\ PaidBy(k, "gift") > 0 => Body[k].card \in Cards \ {k}
           /\ Method(k, "gift") # "gift"
<1>1. \A t \in Rows : Amount(k, t) \in Nat
  BY AmountsAreInts
<1>2. \A m : PaidBy(k, m) \in Nat
  BY <1>1 DEF PaidBy, Total, Rows
<1>3. \A t \in Rows : Amount(k, t) <= PaidBy(k, Method(k, t))
  BY <1>1 DEF PaidBy, Total, Rows
<1> QED BY <1>2, <1>3, PaymentAssumption

LEMMA RowIsRow ==
    ASSUME NEW c \in Calls, call[c] \in AnyCall, CallFits(call[c]),
           Stands(call[c]), NEW s \in RowSteps, RowPart(call[c], s),
           call[c].pc = "tx"
    PROVE  RowOf(c, s) \in RowIds
<1> DEFINE k == call[c].key
<1>1. k \in Keys /\ call[c].row \in Rows
  BY DEF CallFits, RowPart, AnyCall
<1>2. k \in Cards
  BY <1>1 DEF Cards
<1>3. s = "card" => Body[k].card \in Cards
  <2>1. ASSUME s = "card", call[c].kind = "sale" PROVE Body[k].card \in Cards
    BY <1>1, <2>1, GiftIsPaidByGift DEF RowPart, SaleRow
  <2>2. ASSUME s = "card", call[c].kind = "refund" PROVE Body[k].card \in Cards
    <3>1. Method(k, call[c].row) = "gift" /\ Amount(k, call[c].row) >= 1
      BY <1>1, <2>2, AmountsAreInts
         DEF RowPart, RefundRow, Lines, Stands, RefundStands, RefundRuns
    <3> QED BY <1>1, <3>1, GiftIsPaidByGift, AmountsAreInts
  <2> QED BY <2>1, <2>2 DEF RowPart
<1> HIDE DEF k
<1>4. CASE s = "key"
  BY <1>1, <1>4 DEF RowOf, RowIds, k
<1>5. CASE s = "card"
  <2>1. PICK d \in Cards : d = Body[k].card
    BY <1>3, <1>5
  <2>2. RowOf(c, s) = <<"card", d>>
    BY <1>5, <2>1 DEF RowOf, Lines, k
  <2>3. <<"card", d>> \in {"card"} \X Cards
    BY <2>1
  <2> QED BY <2>2, <2>3 DEF RowIds
<1>6. CASE s = "sold"
  <2>1. PICK d \in Cards : d = k
    BY <1>2
  <2>2. RowOf(c, s) = <<"card", d>>
    BY <1>6, <2>1 DEF RowOf, Lines, k
  <2>3. <<"card", d>> \in {"card"} \X Cards
    BY <2>1
  <2> QED BY <2>2, <2>3 DEF RowIds
<1>7. CASE s = "pay"
  BY <1>1, <1>7 DEF RowOf, RowIds, k
<1>8. CASE s \in Lines
  BY <1>1, <1>8 DEF RowOf, RowIds, k, Lines
<1>9. CASE s \in {"prof", "promo", "stock", "visit"}
  BY <1>9 DEF RowOf, RowIds, Lines
<1> QED BY <1>4, <1>5, <1>6, <1>7, <1>8, <1>9 DEF RowSteps

LEMMA StandsOn ==
    ASSUME NEW q, Stands(q), sale \subseteq sale' PROVE Stands(q)'
  BY DEF Stands, SaleStands, RefundStands, RefundRuns, GiveFits

(* A call keeps what it has of a row while the row's part of the books     *)
(* stays as it is.                                                         *)
LEMMA PassesStay ==
    ASSUME NEW c \in Calls, NEW s \in RowSteps,
           call'[c].key = call[c].key, call'[c].row = call[c].row,
           call'[c].kind = call[c].kind, call'[c].amount = call[c].amount,
           call'[c].seen = call[c].seen,
           s \in Lines => call'[c].seenLine = call[c].seenLine,
           s = "key" => (call[c].key \in sale' => call[c].key \in sale),
           s = "promo" => uses' = uses,
           s = "card" => card'[Body[call[c].key].card] = card[Body[call[c].key].card],
           s = "sold" => card'[call[c].key] = card[call[c].key],
           s = "stock" => stock' = stock,
           s = "visit" => visit' = visit,
           s = "pay" => pay'[call[c].key][call[c].row] = pay[call[c].key][call[c].row],
           s \in Lines => line'[call[c].key][s] = line[call[c].key][s],
           Passes(c, s)
    PROVE  Passes(c, s)' /\ RowOf(c, s)' = RowOf(c, s)
<1>1. RowOf(c, s)' = RowOf(c, s)
  BY DEF RowOf
<1>2. Passes(c, s)'
  BY DEF Passes, KeyIsNew, PromotionLeft, CardPays, CardTakesBack, SoldCardHas,
         StockLasts, VisitUnchanged, Chargeable, PaymentUnchanged, LineUnchanged,
         RowSteps, Lines
<1> QED BY <1>1, <1>2

-----------------------------------------------------------------------------
(* Steps of one call that leave the books alone.                           *)

\* What is locked by others stays locked by them.
OthersKeep(c) == \A r \in RowIds : \A d \in Calls \ {c} :
                    lock[r] = d => lock'[r] = d

LEMMA DoneIsLocked ==
    ASSUME DrawerInv, BooksInv, NEW c \in Calls, NEW s \in RowSteps,
           Done(call[c], s)
    PROVE  /\ RowOf(c, s) \in RowIds /\ lock[RowOf(c, s)] = c /\ Passes(c, s)
           /\ call[c] \in AnyCall /\ CallFits(call[c]) /\ Stands(call[c])
<1>1. call[c] \in AnyCall /\ CallFits(call[c]) /\ Stands(call[c])
  BY DEF DrawerInv, Shapes, BooksInv, CallsStand
<1>2. RowOf(c, s) \in RowIds
  BY <1>1, RowIsRow DEF Done
<1> QED BY <1>1, <1>2 DEF BooksInv, LocksHold

LEMMA CallChanges ==
    ASSUME DrawerInv, BooksInv, NEW c \in Calls, NEW q \in AnyCall,
           call' = [call EXCEPT ![c] = q], UNCHANGED ledgerVars,
           Stands(q), OthersKeep(c),
           lock' \in [RowIds -> Calls \cup {NoCall}],
           points' \in Nat,
           reward' \in [Keys -> {"none", "spent", "back"}],
           \A k \in Keys \ sale : reward'[k] = reward[k],
           \A s \in RowSteps :
               Done(q, s) => lock'[RowOf(c, s)'] = c /\ Passes(c, s)'
    PROVE  BooksInv'
<1>1. /\ call \in [Calls -> AnyCall]
      /\ call' \in [Calls -> AnyCall]
      /\ call'[c] = q
      /\ \A d \in Calls \ {c} : call'[d] = call[d]
  BY DEF DrawerInv, Shapes
<1>2. BooksShape'
  BY DEF BooksInv, BooksShape, ledgerVars
<1>3. WithinTicket'
  BY DEF BooksInv, WithinTicket, ledgerVars
<1>4. NoTrace'
  BY DEF BooksInv, NoTrace, ledgerVars
<1>5. CallsStand'
  <2>1. sale \subseteq sale'
    BY DEF ledgerVars
  <2>2. ASSUME NEW d \in Calls PROVE Stands(call[d])'
    <3>1. PICK r : r = call'[d]
      OBVIOUS
    <3>2. Stands(r)
      BY <1>1, <3>1 DEF BooksInv, CallsStand
    <3>3. Stands(r)'
      BY <2>1, <3>2, StandsOn
    <3> QED BY <3>1, <3>3
  <2> QED BY <2>2 DEF CallsStand
<1>6. LocksHold'
  <2>1. ASSUME NEW d \in Calls, d # c, NEW s \in RowSteps, Done(call[d], s)
        PROVE  lock'[RowOf(d, s)'] = d /\ Passes(d, s)'
    <3>1. RowOf(d, s) \in RowIds /\ lock[RowOf(d, s)] = d /\ Passes(d, s)
      BY <2>1, DoneIsLocked
    <3>2. Passes(d, s)' /\ RowOf(d, s)' = RowOf(d, s)
      BY <1>1, <2>1, <3>1, PassesStay DEF ledgerVars
    <3> QED BY <2>1, <3>1, <3>2 DEF OthersKeep
  <2>2. ASSUME NEW d \in Calls, NEW s \in RowSteps, Done(call'[d], s)
        PROVE  lock'[RowOf(d, s)'] = d /\ Passes(d, s)'
    <3>1. CASE d = c
      BY <1>1, <2>2, <3>1
    <3>2. CASE d # c
      BY <1>1, <2>1, <2>2, <3>2
    <3> QED BY <3>1, <3>2
  <2> QED BY <2>2 DEF LocksHold
<1> QED BY <1>2, <1>3, <1>4, <1>5, <1>6 DEF BooksInv

(* A call that runs no transaction any more holds nothing.                 *)
LEMMA NotRunning ==
    ASSUME DrawerInv, BooksInv, NEW c \in Calls, NEW q \in AnyCall,
           call' = [call EXCEPT ![c] = q], UNCHANGED ledgerVars,
           Stands(q), q.pc # "tx", lock' \in {lock, Freed(c)},
           points' \in Nat,
           reward' \in [Keys -> {"none", "spent", "back"}],
           \A k \in Keys \ sale : reward'[k] = reward[k]
    PROVE  BooksInv'
<1>1. lock \in [RowIds -> Calls \cup {NoCall}]
  BY DEF BooksInv, BooksShape
<1>2. OthersKeep(c)
  BY <1>1 DEF OthersKeep, Freed
<1>3. lock' \in [RowIds -> Calls \cup {NoCall}]
  BY <1>1 DEF Freed
<1>4. \A s \in RowSteps : ~Done(q, s)
  BY DEF Done
<1> QED BY <1>2, <1>3, <1>4, CallChanges

LEMMA NothingIsBack ==
    /\ NothingGiven \in [Lines -> Back]
    /\ \A l : l \in Lines => NothingGiven[l] = [units |-> 0, cents |-> 0]
  BY DEF NothingGiven, Back

LEMMA IdleStands == Stands(Idle)
  BY NothingIsBack, ShortIsLast DEF Stands, Idle

LEMMA CallStops ==
    ASSUME DrawerInv, BooksInv, NEW c \in Calls,
           call' = [call EXCEPT ![c] = Idle], UNCHANGED ledgerVars,
           lock' \in {lock, Freed(c)},
           points' \in Nat,
           reward' \in [Keys -> {"none", "spent", "back"}],
           \A k \in Keys \ sale : reward'[k] = reward[k]
    PROVE  BooksInv'
<1>1. Idle.pc # "tx"
  BY DEF Idle
<1> QED BY <1>1, IdleIsCall, IdleStands, NotRunning

LEMMA RollbackBooks ==
    ASSUME DrawerInv, BooksInv, NEW c \in Calls, call[c].pc = "tx", Rollback(c)
    PROVE  BooksInv'
<1> DEFINE q == [call[c] EXCEPT !.pc = "giveBack", !.session = 0, !.todo = <<>>]
<1>1. /\ call' = [call EXCEPT ![c] = IF call[c].redeemed THEN q ELSE Idle]
      /\ UNCHANGED ledgerVars /\ lock' = Freed(c) /\ UNCHANGED <<points, reward>>
  BY DEF Rollback
<1>2. /\ call[c] \in AnyCall /\ CallFits(call[c]) /\ Stands(call[c])
      /\ MaxSessions \in Nat
  BY TicketsAssumption DEF DrawerInv, Shapes, BooksInv, CallsStand
<1>3. points' \in Nat /\ reward' \in [Keys -> {"none", "spent", "back"}]
  BY <1>1 DEF BooksInv, BooksShape
<1>4. CASE call[c].redeemed
  <2>1. q \in AnyCall
    <3>1. 0 \in 0..MaxSessions /\ "giveBack" \in PCs /\ << >> \in StepLists
      BY <1>2 DEF PCs, StepLists
    <3> QED BY <1>2, <3>1 DEF AnyCall
  <2>2. call[c].kind = "sale"
    BY <1>2, <1>4 DEF AnyCall, CallFits, Stands, RefundStands, CallKinds
  <2>3. Stands(q) /\ q.pc # "tx"
    BY <1>2, <1>4, <2>2, ShortIsLast DEF AnyCall, Stands, SaleStands
  <2> HIDE DEF q
  <2> QED BY <1>1, <1>3, <1>4, <2>1, <2>3, NotRunning
<1>5. CASE ~call[c].redeemed
  BY <1>1, <1>3, <1>5, CallStops
<1> QED BY <1>4, <1>5

LEMMA StartSaleBooks ==
    ASSUME DrawerInv, BooksInv, NEW c \in Calls, StartSale(c) PROVE BooksInv'
<1>1. PICK k \in Keys \ sale :
        /\ PaysVisit(k) => VisitOwes(k)
        /\ Begin(c, [Idle EXCEPT
                !.pc = IF Body[k].reward THEN "points" ELSE "tx",
                !.kind = "sale", !.key = k, !.seen = visit.paid,
                !.todo = SaleSteps(k)])
  BY DEF StartSale
<1> DEFINE p == IF Body[k].reward THEN "points" ELSE "tx"
           q == [Idle EXCEPT !.pc = p, !.kind = "sale", !.key = k,
                             !.seen = visit.paid, !.todo = SaleSteps(k)]
<1>2. /\ p \in PCs /\ "sale" \in CallKinds
      /\ visit.paid \in Nat /\ visit.paid \in Int
      /\ Body[k].reward \in BOOLEAN
  BY TicketsAssumption DEF PCs, CallKinds, BooksInv, BooksShape, Ticket
<1>3. q \in AnyCall
  <2>1. p \in PCs /\ "sale" \in CallKinds /\ visit.paid \in Int
    BY <1>2
  <2> HIDE DEF p
  <2> QED BY <2>1, IdleIsCall, SaleStepsAreSteps DEF AnyCall
<1>4. /\ SaleSteps(k) \in StepLists
      /\ Remaining(SaleSteps(k)) = {"drawer"} \cup {s \in RowSteps : SaleRow(k, s)}
      /\ OnlyLast(SaleSteps(k))
  BY SaleStepsAre
<1>5. /\ q.kind = "sale" /\ q.key = k /\ q.pc = p /\ q.todo = SaleSteps(k)
      /\ q.seen = visit.paid /\ q.redeemed = FALSE
      /\ q.amount = 0 /\ q.units = 0
      /\ q.seenLine = NothingGiven /\ q.give = NothingGiven
  BY DEF Idle
<1> HIDE DEF q
<1>6. SaleStands(q)
  BY <1>1, <1>2, <1>4, <1>5 DEF SaleStands, VisitOwes
<1>7. Stands(q)
  BY <1>2, <1>4, <1>5, <1>6, NothingIsBack DEF Stands
<1>8. \A s \in RowSteps : ~Done(q, s)
  BY <1>4, <1>5 DEF Done, RowPart
<1>9. /\ call' = [call EXCEPT ![c] = q]
      /\ UNCHANGED ledgerVars /\ UNCHANGED <<points, reward, lock>>
  BY <1>1 DEF Begin, q
<1>10. /\ lock' \in [RowIds -> Calls \cup {NoCall}] /\ points' \in Nat
       /\ reward' \in [Keys -> {"none", "spent", "back"}]
       /\ OthersKeep(c)
  BY <1>9 DEF BooksInv, BooksShape, OthersKeep
<1> QED BY <1>3, <1>7, <1>8, <1>9, <1>10, CallChanges

LEMMA RefundArrives ==
    ASSUME NEW c, StartRefund(c)
    PROVE  \E k \in sale, t \in Rows : \E amount \in 1..Left(k, t) :
      \E named \in {"none"} \cup (IF t \in Lines THEN Lines ELSE {}) :
        \E n \in IF named = "none" THEN {0}
                 ELSE 1..(Quantity(k, named) - line[k][named].units) :
          pay[k][t].st = "paid" /\ Begin(c, RefundCall(k, t, amount, named, n))
<1>1. PICK k \in sale, t \in Rows : \E amount \in 1..Left(k, t) :
      \E named \in {"none"} \cup (IF t \in Lines THEN Lines ELSE {}) :
        \E n \in IF named = "none" THEN {0}
                 ELSE 1..(Quantity(k, named) - line[k][named].units) :
        /\ pay[k][t].st = "paid"
        /\ named # "none" =>
               amount <= UnitsValue(k, named, n, line[k][named])
        /\ Method(k, t) = "cash" => drawer # 0
        /\ Begin(c, RefundCall(k, t, amount, named, n))
  BY DEF StartRefund
<1> QED BY <1>1

LEMMA StartRefundBooks ==
    ASSUME DrawerInv, BooksInv, NEW c \in Calls, StartRefund(c) PROVE BooksInv'
<1>1. PICK k \in sale, t \in Rows : \E amount \in 1..Left(k, t) :
      \E named \in {"none"} \cup (IF t \in Lines THEN Lines ELSE {}) :
        \E n \in IF named = "none" THEN {0}
                 ELSE 1..(Quantity(k, named) - line[k][named].units) :
          Begin(c, RefundCall(k, t, amount, named, n))
  BY RefundArrives
<1>2. PICK amount \in 1..Left(k, t),
           named \in {"none"} \cup (IF t \in Lines THEN Lines ELSE {}) :
        \E n \in IF named = "none" THEN {0}
                 ELSE 1..(Quantity(k, named) - line[k][named].units) :
          Begin(c, RefundCall(k, t, amount, named, n))
  BY <1>1
<1>3. PICK n \in IF named = "none" THEN {0}
                 ELSE 1..(Quantity(k, named) - line[k][named].units) :
          Begin(c, RefundCall(k, t, amount, named, n))
  BY <1>2
<1> DEFINE rest == IF t \in Lines THEN <<>>
                   ELSE RefundEnd(k, t, amount = Left(k, t))
           steps == RefundSteps(k, t) \o rest
           q == RefundCall(k, t, amount, named, n)
<1>4. /\ k \in Keys
      /\ "tx" \in PCs /\ "refund" \in CallKinds
      /\ pay[k][t].back \in 0..Amount(k, t) /\ Amount(k, t) \in Nat
      /\ named \in Lines \cup {"none"}
  <2>1. k \in Keys
    BY DEF DrawerInv, Shapes
  <2> QED BY <2>1, AmountsAreInts DEF PCs, CallKinds, BooksInv, WithinTicket
<1>5. amount \in 1..(Amount(k, t) - pay[k][t].back) /\ amount \in Nat
  BY <1>4 DEF Left
<1>6. n \in Nat
  <2>1. CASE named = "none"
    BY <2>1
  <2>2. CASE named # "none"
    <3>1. /\ named \in Lines
          /\ Quantity(k, named) \in Nat /\ line[k][named].units \in Int
      BY <1>4, <2>2, AmountsAreInts DEF BooksInv, WithinTicket
    <3> QED BY <2>2, <3>1
  <2> QED BY <2>1, <2>2
<1>7. /\ steps \in StepLists /\ OnlyLast(steps)
      /\ Remaining(steps) =
            {"pay", "drawer"} \cup (IF Queued(k, t) THEN {"prof"} ELSE {})
              \cup (IF t \in Lines THEN {"read"}
                    ELSE (IF t = "visit" THEN {"visit"} ELSE {})
                         \cup (IF Method(k, t) = "gift" THEN {"card"} ELSE {})
                         \cup (IF t = "gift" THEN {"sold"} ELSE {})
                         \cup (IF amount = Left(k, t) THEN {"uses"} ELSE {}))
  <2>1. /\ RefundSteps(k, t) \in StepLists
        /\ Remaining(RefundSteps(k, t)) =
             {"pay", "drawer"} \cup (IF Queued(k, t) THEN {"prof"} ELSE {})
                               \cup (IF t \in Lines THEN {"read"} ELSE {})
        /\ OnlyLast(RefundSteps(k, t))
    BY <1>4, RefundStepsAre
  <2>2. CASE t \in Lines
    <3>1. steps = RefundSteps(k, t)
      BY <2>1, <2>2 DEF StepLists
    <3> HIDE DEF steps
    <3> QED BY <2>1, <2>2, <3>1
  <2>3. CASE t \notin Lines
    <3>1. steps = RefundSteps(k, t) \o RefundEnd(k, t, amount = Left(k, t))
      BY <2>3
    <3>2. Remaining(RefundSteps(k, t)) \cap Turns = {}
      BY <2>1, <2>3 DEF Turns
    <3>3. PICK full \in BOOLEAN : full = (amount = Left(k, t))
      OBVIOUS
    <3>4. /\ RefundEnd(k, t, full) \in StepLists
          /\ Remaining(RefundEnd(k, t, full)) =
                     (IF t = "visit" THEN {"visit"} ELSE {})
                \cup (IF Method(k, t) = "gift" THEN {"card"} ELSE {})
                \cup (IF t = "gift" THEN {"sold"} ELSE {})
                \cup (IF full THEN {"uses"} ELSE {})
          /\ OnlyLast(RefundEnd(k, t, full))
      BY <1>4, RefundEndIs
    <3>5. steps = RefundSteps(k, t) \o RefundEnd(k, t, full)
      BY <3>1, <3>3
    <3> HIDE DEF steps
    <3>6. /\ steps \in StepLists /\ OnlyLast(steps)
          /\ Remaining(steps) = Remaining(RefundSteps(k, t))
                                \cup Remaining(RefundEnd(k, t, full))
      BY <2>1, <3>2, <3>4, <3>5, RemainingOfBoth, PlainThenLast
    <3> QED BY <2>1, <2>3, <3>3, <3>4, <3>6
  <2> QED BY <2>2, <2>3
<1>8. q \in AnyCall
  <2>1. /\ amount \in Int /\ n \in Int /\ pay[k][t].back \in Int
        /\ steps \in StepLists
    BY <1>4, <1>5, <1>6, <1>7
  <2> HIDE DEF steps
  <2>2. q = [Idle EXCEPT !.pc = "tx", !.kind = "refund", !.key = k, !.row = t,
                 !.amount = amount, !.named = named, !.units = n,
                 !.seen = pay[k][t].back, !.todo = steps]
    BY DEF RefundCall, steps
  <2> HIDE DEF q
  <2> QED BY <1>4, <2>1, <2>2, IdleIsCall DEF AnyCall
<1>9. /\ q.kind = "refund" /\ q.key = k /\ q.row = t /\ q.pc = "tx"
      /\ q.todo = steps /\ q.seen = pay[k][t].back
      /\ q.redeemed = FALSE /\ q.release = FALSE
      /\ q.amount = amount /\ q.units = n /\ q.named = named
      /\ q.seenLine = NothingGiven /\ q.give = NothingGiven
  BY DEF RefundCall, Idle
<1>10. call' = [call EXCEPT ![c] = q]
       /\ UNCHANGED ledgerVars /\ UNCHANGED <<points, reward, lock>>
  BY <1>3 DEF Begin
<1> HIDE DEF q, steps
<1>11. RefundRuns(q)
  <2>1. \A s \in Remaining(q.todo) :
           s \in {"drawer", "read", "uses"} \/ (s \in RowSteps /\ RefundRow(q, s))
    <3>1. Known(q) <=> t \notin Lines
      BY <1>7, <1>9 DEF Known
    <3> QED BY <1>7, <1>9, <3>1 DEF RefundRow, RowSteps
  <2>2. GiveFits(q)
    BY <1>4, <1>9, NothingIsBack, AmountsAreInts DEF GiveFits, Lines, Rows
  <2>3. "drawer" \in Remaining(q.todo) /\ (t \notin Lines => "read" \notin Remaining(q.todo))
        /\ (t \in Lines => "uses" \notin Remaining(q.todo))
    BY <1>7, <1>9
  <2> QED BY <1>5, <1>9, <2>1, <2>2, <2>3 DEF RefundRuns, Known
<1>12. Stands(q)
  BY <1>4, <1>5, <1>6, <1>7, <1>9, <1>11, NothingIsBack DEF Stands, RefundStands
<1>13. \A s \in RowSteps : ~Done(q, s)
  <2>1. Known(q) <=> t \notin Lines
    BY <1>7, <1>9 DEF Known
  <2> QED BY <1>7, <1>9, <2>1, NothingIsBack
          DEF Done, RowPart, RefundRow, Gives, Lines
<1>14. /\ lock' \in [RowIds -> Calls \cup {NoCall}] /\ points' \in Nat
       /\ reward' \in [Keys -> {"none", "spent", "back"}]
       /\ OthersKeep(c)
  BY <1>10 DEF BooksInv, BooksShape, OthersKeep
<1> QED BY <1>8, <1>10, <1>12, <1>13, <1>14, CallChanges

LEMMA StartTakeOutBooks ==
    ASSUME DrawerInv, BooksInv, NEW c \in Calls, StartTakeOut(c) PROVE BooksInv'
<1>1. PICK amount \in 1..Float :
        Begin(c, [Idle EXCEPT !.pc = "tx", !.kind = "takeOut",
                              !.amount = amount, !.todo = <<"drawer", "cap">>])
  BY DEF StartTakeOut
<1> DEFINE q == [Idle EXCEPT !.pc = "tx", !.kind = "takeOut",
                             !.amount = amount, !.todo = <<"drawer", "cap">>]
<1>2. "tx" \in PCs /\ "takeOut" \in CallKinds /\ amount \in Int /\ amount \in Nat
  BY DEF PCs, CallKinds
<1>3. <<"drawer", "cap">> \in StepLists /\ OnlyLast(<<"drawer", "cap">>)
  BY DEF StepLists, Steps, ReadSteps, OnlyLast, Turns
<1>4. q \in AnyCall
  BY <1>2, <1>3, IdleIsCall DEF AnyCall
<1>5. Stands(q)
  BY <1>2, <1>3, NothingIsBack DEF Stands, Idle
<1>6. /\ call' = [call EXCEPT ![c] = q]
      /\ UNCHANGED ledgerVars /\ UNCHANGED <<points, reward, lock>>
  BY <1>1 DEF Begin
<1>7. \A s \in RowSteps : ~Done(q, s)
  BY DEF Done, RowPart, Idle
<1>8. /\ lock' \in [RowIds -> Calls \cup {NoCall}] /\ points' \in Nat
      /\ reward' \in [Keys -> {"none", "spent", "back"}]
      /\ OthersKeep(c)
  BY <1>6 DEF BooksInv, BooksShape, OthersKeep
<1> HIDE DEF q
<1> QED BY <1>4, <1>5, <1>6, <1>7, <1>8, CallChanges

LEMMA RedeemPointsBooks ==
    ASSUME DrawerInv, BooksInv, NEW c \in Calls, RedeemPoints(c) PROVE BooksInv'
<1>1. /\ call[c] \in AnyCall /\ CallFits(call[c]) /\ Stands(call[c])
      /\ call[c].pc = "points" /\ RewardCost \in Nat /\ points \in Nat
      /\ lock \in [RowIds -> Calls \cup {NoCall}]
      /\ reward \in [Keys -> {"none", "spent", "back"}]
  BY CallsAssumption
     DEF DrawerInv, Shapes, BooksInv, BooksShape, CallsStand, RedeemPoints
<1>2. CASE points >= RewardCost
  <2> DEFINE q == [call[c] EXCEPT !.pc = "tx", !.redeemed = TRUE]
  <2>1. /\ call' = [call EXCEPT ![c] = q]
        /\ UNCHANGED ledgerVars /\ UNCHANGED <<lock, reward>>
        /\ points' = points - RewardCost
    BY <1>2 DEF RedeemPoints
  <2>2. q \in AnyCall
    BY <1>1 DEF AnyCall, PCs
  <2>3. call[c].kind = "sale"
    BY <1>1 DEF AnyCall, CallFits, CallKinds, Stands, RefundStands, TakeOutSteps
  <2>4. /\ call[c].key \in Keys /\ call[c].todo = SaleSteps(call[c].key)
        /\ Body[call[c].key].reward
    BY <1>1, <2>3 DEF CallFits, Stands, SaleStands
  <2>5. Remaining(q.todo) = {"drawer"} \cup {s \in RowSteps : SaleRow(q.key, s)}
    BY <1>1, <2>4, SaleStepsAre DEF AnyCall
  <2>6. Stands(q)
    BY <1>1, <2>3, <2>4, <2>5 DEF AnyCall, Stands, SaleStands
  <2>7. \A s \in RowSteps : ~Done(q, s)
    BY <1>1, <2>3, <2>5 DEF AnyCall, Done, RowPart
  <2>8. OthersKeep(c) /\ points' \in Nat
    BY <1>1, <1>2, <2>1 DEF OthersKeep
  <2> HIDE DEF q
  <2> QED BY <1>1, <2>1, <2>2, <2>6, <2>7, <2>8, CallChanges
<1>3. CASE ~(points >= RewardCost)
  <2>1. /\ call' = [call EXCEPT ![c] = Idle]
        /\ UNCHANGED ledgerVars /\ UNCHANGED <<points, reward, lock>>
    BY <1>3 DEF RedeemPoints
  <2> QED BY <1>1, <2>1, CallStops
<1> QED BY <1>2, <1>3

(* What a call has been through stays with it.                             *)
LEMMA StillHeld ==
    ASSUME DrawerInv, BooksInv, NEW c \in Calls, NEW q \in AnyCall,
           call' = [call EXCEPT ![c] = q], UNCHANGED ledgerVars,
           q.key = call[c].key, q.row = call[c].row, q.kind = call[c].kind,
           q.amount = call[c].amount, q.seen = call[c].seen,
           NEW s \in RowSteps, Done(call[c], s),
           s \in Lines => q.seenLine = call[c].seenLine,
           lock'[RowOf(c, s)] = c
    PROVE  lock'[RowOf(c, s)'] = c /\ Passes(c, s)'
<1>1. call'[c] = q
  BY DEF DrawerInv, Shapes
<1>2. Passes(c, s)
  BY DoneIsLocked
<1>3. Passes(c, s)' /\ RowOf(c, s)' = RowOf(c, s)
  BY <1>1, <1>2, PassesStay DEF ledgerVars
<1> QED BY <1>3

\* q0 with one statement less to go, in cash session n.
NextOf(q0, n) == [q0 EXCEPT !.session = n, !.todo = Tail(q0.todo)]

(* One statement less to go, and the rest stands.                          *)
LEMMA GoesOn ==
    ASSUME NEW q0 \in AnyCall, CallFits(q0), Stands(q0), q0.pc = "tx",
           q0.todo # << >>, Head(q0.todo) \notin Turns,
           NEW n \in 0..MaxSessions,
           Head(q0.todo) # "drawer" => n = q0.session,
           /\ Head(q0.todo) = "drawer"
           /\ \/ q0.kind = "sale" /\ TakesCash(q0.key)
              \/ q0.kind = "refund" /\ Method(q0.key, q0.row) = "cash"
           => n # 0,
           NEW q, q = NextOf(q0, n)
    PROVE  /\ q \in AnyCall /\ Stands(q)
           /\ \A s \in RowSteps :
                Done(q, s) => \/ s = Head(q0.todo) /\ RowPart(q0, s)
                              \/ Done(q0, s)
           /\ Head(q0.todo) \in RowSteps /\ q0.kind \in {"sale", "refund"} =>
                RowPart(q0, Head(q0.todo))
<1> DEFINE h == Head(q0.todo)
           rest == Tail(q0.todo)
<1>1. /\ rest \in StepLists /\ OnlyLast(rest)
      /\ Remaining(q0.todo) = {h} \cup Remaining(rest)
  BY RemainingSplits, LastStays DEF AnyCall, Stands
<1>2. /\ q.key = q0.key /\ q.kind = q0.kind /\ q.row = q0.row /\ q.pc = "tx"
      /\ q.amount = q0.amount /\ q.units = q0.units /\ q.seen = q0.seen
      /\ q.seenLine = q0.seenLine /\ q.give = q0.give /\ q.named = q0.named
      /\ q.redeemed = q0.redeemed /\ q.release = q0.release
      /\ q.todo = rest /\ q.session = n
  BY DEF AnyCall, NextOf
<1>3. q \in AnyCall
  BY <1>1 DEF AnyCall, NextOf
<1> HIDE DEF h, rest
<1>4. Known(q) <=> Known(q0)
  BY <1>1, <1>2 DEF Known, Turns, h
<1>5. \A s : RowPart(q, s) <=> RowPart(q0, s)
  BY <1>2, <1>4 DEF RowPart, RefundRow
<1>6. \A s : RefundRow(q, s) <=> RefundRow(q0, s)
  BY <1>2, <1>4 DEF RefundRow
<1>7. "drawer" \notin Remaining(rest) =>
        h = "drawer" \/ (h # "drawer" /\ "drawer" \notin Remaining(q0.todo))
  BY <1>1
<1>8. q0.kind = "sale" => SaleStands(q)
  BY <1>1, <1>2, <1>7 DEF Stands, SaleStands, h
<1>9. q0.kind = "refund" => RefundStands(q)
  <2>1. ASSUME q0.kind = "refund" PROVE RefundRuns(q)
    <3>1. RefundRuns(q0)
      BY <2>1 DEF Stands, RefundStands
    <3>2. GiveFits(q)
      BY <1>2, <3>1 DEF RefundRuns, GiveFits
    <3>3. \A s \in Remaining(q.todo) :
             s \in {"drawer", "read", "uses"} \/ (s \in RowSteps /\ RefundRow(q, s))
      BY <1>1, <1>2, <1>6, <3>1 DEF RefundRuns
    <3> QED BY <1>1, <1>2, <1>4, <1>7, <2>1, <3>1, <3>2, <3>3 DEF RefundRuns, h
  <2> QED BY <1>2, <2>1 DEF Stands, RefundStands
<1>10. Stands(q)
  BY <1>1, <1>2, <1>8, <1>9 DEF Stands
<1>11. \A s \in RowSteps : Done(q, s) => (s = h /\ RowPart(q0, s)) \/ Done(q0, s)
  BY <1>1, <1>2, <1>5 DEF Done
<1>12. h \in RowSteps /\ q0.kind \in {"sale", "refund"} => RowPart(q0, h)
  BY <1>1 DEF Stands, SaleStands, RefundStands, RefundRuns, RowPart, RowSteps, Lines
<1> QED BY <1>3, <1>10, <1>11, <1>12 DEF h

LEMMA UpdateRowBooks ==
    ASSUME DrawerInv, BooksInv, NEW c \in Calls, UpdateRow(c) PROVE BooksInv'
<1>1. PICK s \in RowSteps :
        /\ Running(c, s)
        /\ lock[RowOf(c, s)] \in {NoCall, c}
        /\ \/ /\ Passes(c, s)
              /\ lock' = [lock EXCEPT ![RowOf(c, s)] = c]
              /\ call' = [call EXCEPT ![c].todo = Tail(@)]
              /\ UNCHANGED <<ledgerVars, points, reward>>
           \/ ~Passes(c, s) /\ Rollback(c)
  BY DEF UpdateRow
<1>2. CASE Rollback(c)
  BY <1>1, <1>2, RollbackBooks DEF Running
<1>3. CASE ~Rollback(c)
  <2> DEFINE q0 == call[c]
             q == NextOf(q0, q0.session)
             r == RowOf(c, s)
  <2>1. /\ q0 \in AnyCall /\ CallFits(q0) /\ Stands(q0)
        /\ q0.pc = "tx" /\ q0.todo # << >> /\ Head(q0.todo) = s
    BY <1>1 DEF DrawerInv, Shapes, BooksInv, CallsStand, Running
  <2>2. s \notin Turns /\ s # "drawer" /\ q0.session \in 0..MaxSessions
    BY <2>1 DEF RowSteps, Lines, Turns, AnyCall
  <2>3. /\ q \in AnyCall /\ Stands(q)
        /\ \A z \in RowSteps : Done(q, z) => (z = s /\ RowPart(q0, z)) \/ Done(q0, z)
        /\ q0.kind \in {"sale", "refund"} => RowPart(q0, s)
    <3>1. PICK n \in 0..MaxSessions : n = q0.session
      BY <2>2
    <3>2. q = NextOf(q0, n)
      BY <3>1
    <3>3. Head(q0.todo) \notin Turns /\ Head(q0.todo) # "drawer"
      BY <2>1, <2>2
    <3> HIDE DEF q, q0
    <3> QED BY <2>1, <3>1, <3>2, <3>3, GoesOn
  <2>4. /\ q.key = q0.key /\ q.row = q0.row /\ q.kind = q0.kind
        /\ q.amount = q0.amount /\ q.seen = q0.seen /\ q.seenLine = q0.seenLine
    BY <2>1 DEF AnyCall, NextOf
  <2>5. /\ Passes(c, s) /\ lock' = [lock EXCEPT ![r] = c]
        /\ call' = [call EXCEPT ![c] = q]
        /\ UNCHANGED ledgerVars /\ UNCHANGED <<points, reward>>
    <3>1. [q0 EXCEPT !.todo = Tail(q0.todo)] = q
      BY <2>1 DEF AnyCall, NextOf
    <3> QED BY <1>1, <1>3, <3>1
  <2> HIDE DEF q0, q, r
  <2>6. /\ lock \in [RowIds -> Calls \cup {NoCall}] /\ points' \in Nat
        /\ reward' \in [Keys -> {"none", "spent", "back"}]
    BY <2>5 DEF BooksInv, BooksShape
  <2>7. /\ lock' \in [RowIds -> Calls \cup {NoCall}]
        /\ \A z \in RowIds : lock'[z] = IF z = r THEN c ELSE lock[z]
    BY <2>5, <2>6
  <2>8. lock[r] \in {NoCall, c} /\ NoCall \notin Calls
    BY <1>1, CallsAssumption DEF r
  <2>9. OthersKeep(c)
    BY <2>7, <2>8 DEF OthersKeep
  <2>10. ASSUME NEW z \in RowSteps, Done(q, z)
         PROVE  lock'[RowOf(c, z)'] = c /\ Passes(c, z)'
    <3>1. CASE Done(q0, z)
      <4>1. RowOf(c, z) \in RowIds /\ lock[RowOf(c, z)] = c
        BY <3>1, DoneIsLocked DEF q0
      <4>2. lock'[RowOf(c, z)] = c
        BY <2>7, <4>1
      <4> QED BY <2>3, <2>4, <2>5, <3>1, <4>2, StillHeld DEF q0
    <3>2. CASE z = s /\ RowPart(q0, z)
      <4>1. r \in RowIds
        BY <2>1, <3>2, RowIsRow DEF q0, r
      <4>2. lock'[r] = c
        BY <2>7, <4>1
      <4>3. Passes(c, s)' /\ RowOf(c, s)' = RowOf(c, s)
        <5>1. call'[c] = q
          BY <2>5 DEF DrawerInv, Shapes
        <5> QED BY <2>4, <2>5, <5>1, PassesStay DEF ledgerVars, q0
      <4> QED BY <3>2, <4>2, <4>3 DEF r
    <3> QED BY <2>3, <2>10, <3>1, <3>2
  <2> QED BY <2>3, <2>5, <2>6, <2>7, <2>9, <2>10, CallChanges
<1> QED BY <1>2, <1>3

LEMMA JoinDrawerBooks ==
    ASSUME DrawerInv, BooksInv, NEW c \in Calls, JoinDrawer(c) PROVE BooksInv'
<1>1. CASE Rollback(c)
  BY <1>1, RollbackBooks DEF JoinDrawer, Running
<1>2. CASE ~Rollback(c)
  <2> DEFINE q0 == call[c]
             q == NextOf(q0, drawer)
  <2>1. /\ q0 \in AnyCall /\ CallFits(q0) /\ Stands(q0)
        /\ q0.pc = "tx" /\ q0.todo # << >> /\ Head(q0.todo) = "drawer"
    BY DEF DrawerInv, Shapes, BooksInv, CallsStand, Running, JoinDrawer
  <2>2. /\ drawer \in 0..MaxSessions
        /\ drawer = 0 => ~NeedsDrawer(c)
        /\ "drawer" \notin Turns /\ "drawer" \notin RowSteps
    BY <1>2, TicketsAssumption
       DEF DrawerInv, Shapes, JoinDrawer, Turns, RowSteps, Lines
  <2>3. \/ q0.kind = "sale" /\ TakesCash(q0.key)
        \/ q0.kind = "refund" /\ Method(q0.key, q0.row) = "cash"
        => drawer # 0
    BY <2>2 DEF NeedsDrawer
  <2>4. /\ q \in AnyCall /\ Stands(q)
        /\ \A z \in RowSteps : Done(q, z) => Done(q0, z)
    <3> HIDE DEF q0
    <3> QED BY <2>1, <2>2, <2>3, GoesOn
  <2>5. /\ q.key = q0.key /\ q.row = q0.row /\ q.kind = q0.kind
        /\ q.amount = q0.amount /\ q.seen = q0.seen /\ q.seenLine = q0.seenLine
    BY <2>1 DEF AnyCall, NextOf
  <2>6. /\ call' = [call EXCEPT ![c] = q]
        /\ UNCHANGED ledgerVars /\ UNCHANGED <<points, reward, lock>>
    BY <1>2 DEF JoinDrawer, NextOf
  <2> HIDE DEF q0, q
  <2>7. /\ lock' \in [RowIds -> Calls \cup {NoCall}] /\ points' \in Nat
        /\ reward' \in [Keys -> {"none", "spent", "back"}]
        /\ OthersKeep(c)
    BY <2>6 DEF BooksInv, BooksShape, OthersKeep
  <2>8. ASSUME NEW z \in RowSteps, Done(q, z)
        PROVE  lock'[RowOf(c, z)'] = c /\ Passes(c, z)'
    <3>1. Done(call[c], z)
      BY <2>4, <2>8 DEF q0
    <3>2. lock'[RowOf(c, z)] = c
      BY <2>6, <3>1, DoneIsLocked
    <3> QED BY <2>4, <2>5, <2>6, <3>1, <3>2, StillHeld DEF q0
  <2> QED BY <2>4, <2>6, <2>7, <2>8, CallChanges
<1> QED BY <1>1, <1>2

(* What is given back of a line is there to give.                          *)
LEMMA GivenIsThere ==
    ASSUME NEW k \in Keys, NEW t, NEW amount \in Nat,
           NEW named \in Lines \cup {"none"}, NEW n \in Nat,
           NEW given \in [Lines -> Back], NEW whole,
           \A l \in Lines : /\ given[l].units <= Quantity(k, l)
                            /\ given[l].cents <= Amount(k, l),
           named # "none" => n <= Quantity(k, named) - given[named].units,
           NEW g, g = Given(k, t, amount, named, n, given, whole)
    PROVE  /\ g \in [Lines -> Back]
           /\ \A l \in Lines :
                  /\ given[l].units + g[l].units <= Quantity(k, l)
                  /\ given[l].cents + g[l].cents <= Amount(k, l)
<1>1. \A l \in Lines : /\ given[l].units \in Nat /\ given[l].cents \in Nat
                       /\ Quantity(k, l) \in Nat /\ Amount(k, l) \in Nat
  BY AmountsAreInts DEF Back, Lines, Rows
<1>2. ASSUME NEW l \in Lines
      PROVE  /\ Least(amount, Amount(k, l) - given[l].cents) \in Nat
             /\ given[l].cents + Least(amount, Amount(k, l) - given[l].cents)
                    <= Amount(k, l)
  BY <1>1 DEF Least
<1>3. ASSUME NEW l \in Lines
      PROVE  /\ g[l].units \in Nat /\ g[l].cents \in Nat
             /\ given[l].units + g[l].units <= Quantity(k, l)
             /\ given[l].cents + g[l].cents <= Amount(k, l)
             /\ g[l] \in Back
  <2>1. CASE whole
    <3>1. g[l] = [units |-> Quantity(k, l) - given[l].units,
                  cents |-> Amount(k, l) - given[l].cents]
      BY <2>1 DEF Given
    <3> QED BY <1>1, <3>1 DEF Back
  <2>2. CASE ~whole
    <3>1. /\ g[l].units = (IF l = named THEN n ELSE 0)
          /\ g[l].cents \in {0, Least(amount, Amount(k, l) - given[l].cents)}
          /\ g[l] = [units |-> g[l].units, cents |-> g[l].cents]
      BY <2>2 DEF Given
    <3>2. /\ g[l].units \in Nat /\ given[l].units + g[l].units <= Quantity(k, l)
      BY <1>1, <3>1 DEF Lines
    <3>3. g[l].cents \in Nat /\ given[l].cents + g[l].cents <= Amount(k, l)
      BY <1>1, <1>2, <3>1
    <3> QED BY <3>1, <3>2, <3>3 DEF Back
  <2> QED BY <2>1, <2>2
<1>4. g = [l \in Lines |-> g[l]]
  BY DEF Given
<1> QED BY <1>3, <1>4

(* The statements that follow the reading of the lines.                    *)
LinesEnd(give, k, t, full) ==
    When(Gives(give["service"]), "service")
    \o When(Gives(give["product"]), "product")
    \o When(give["product"].units > 0, "stock")
    \o RefundEnd(k, t, full)

LEMMA LinesEndIs ==
    ASSUME NEW k \in Keys, NEW t \in Rows, NEW full \in BOOLEAN, NEW give
    PROVE  /\ LinesEnd(give, k, t, full) \in StepLists
           /\ OnlyLast(LinesEnd(give, k, t, full))
           /\ Remaining(LinesEnd(give, k, t, full)) =
                {l \in Lines : Gives(give[l])}
                \cup (IF give["product"].units > 0 THEN {"stock"} ELSE {})
                \cup (IF t = "visit" THEN {"visit"} ELSE {})
                \cup (IF Method(k, t) = "gift" THEN {"card"} ELSE {})
                \cup (IF t = "gift" THEN {"sold"} ELSE {})
                \cup (IF full THEN {"uses"} ELSE {})
<1> DEFINE a == When(Gives(give["service"]), "service")
           b == When(Gives(give["product"]), "product")
           d == When(give["product"].units > 0, "stock")
           e == RefundEnd(k, t, full)
<1>1. {"service", "product", "stock"} \subseteq Steps
  BY DEF Steps, RowSteps, Lines
<1>2. /\ a \in StepLists
      /\ Remaining(a) = IF Gives(give["service"]) THEN {"service"} ELSE {}
      /\ b \in StepLists
      /\ Remaining(b) = IF Gives(give["product"]) THEN {"product"} ELSE {}
      /\ d \in StepLists
      /\ Remaining(d) = IF give["product"].units > 0 THEN {"stock"} ELSE {}
  BY <1>1, RemainingOfWhen
<1>3. /\ e \in StepLists /\ OnlyLast(e)
      /\ Remaining(e) =
                     (IF t = "visit" THEN {"visit"} ELSE {})
                \cup (IF Method(k, t) = "gift" THEN {"card"} ELSE {})
                \cup (IF t = "gift" THEN {"sold"} ELSE {})
                \cup (IF full THEN {"uses"} ELSE {})
  BY RefundEndIs
<1>4. LinesEnd(give, k, t, full) = a \o b \o d \o e
  BY DEF LinesEnd
<1> HIDE DEF a, b, d, e
<1>5. a \o b \in StepLists /\ Remaining(a \o b) = Remaining(a) \cup Remaining(b)
  BY <1>2, RemainingOfBoth
<1>6. /\ a \o b \o d \in StepLists
      /\ Remaining(a \o b \o d) = Remaining(a \o b) \cup Remaining(d)
  BY <1>2, <1>5, RemainingOfBoth
<1>7. /\ LinesEnd(give, k, t, full) \in StepLists
      /\ Remaining(LinesEnd(give, k, t, full)) =
            Remaining(a \o b \o d) \cup Remaining(e)
  BY <1>3, <1>4, <1>6, RemainingOfBoth
<1>8. Remaining(a \o b \o d) \cap Turns = {}
  BY <1>2, <1>5, <1>6 DEF Turns
<1>9. OnlyLast(LinesEnd(give, k, t, full))
  BY <1>3, <1>4, <1>6, <1>8, PlainThenLast
<1>10. Remaining(a) \cup Remaining(b) = {l \in Lines : Gives(give[l])}
  BY <1>2 DEF Lines
<1>11. Remaining(LinesEnd(give, k, t, full)) =
            {l \in Lines : Gives(give[l])} \cup Remaining(d) \cup Remaining(e)
  BY <1>5, <1>6, <1>7, <1>10
<1> QED BY <1>2, <1>3, <1>7, <1>9, <1>11

LEMMA WhoReads ==
    ASSUME DrawerInv, BooksInv, NEW c \in Calls, NEW s \in {"read", "uses"},
           Running(c, s)
    PROVE  /\ call[c] \in AnyCall /\ CallFits(call[c]) /\ Stands(call[c])
           /\ call[c].pc = "tx" /\ call[c].kind = "refund"
           /\ call[c].key \in Keys /\ call[c].key \in sale
           /\ RefundRuns(call[c]) /\ Remaining(call[c].todo) = {s}
<1>1. /\ call[c] \in AnyCall /\ CallFits(call[c]) /\ Stands(call[c])
      /\ call[c].pc = "tx" /\ call[c].todo # << >> /\ Head(call[c].todo) = s
  BY DEF DrawerInv, Shapes, BooksInv, CallsStand, Running
<1>2. Remaining(call[c].todo) = {s}
  BY <1>1, LastStays DEF Stands, AnyCall, Turns
<1>3. call[c].kind = "refund"
  <2>1. call[c].kind # "none"
    BY <1>1 DEF CallFits
  <2>2. call[c].kind # "takeOut"
    BY <1>1 DEF CallFits, TakeOutSteps
  <2>3. call[c].kind # "sale"
    BY <1>1, <1>2 DEF Stands, SaleStands, RowSteps, Lines
  <2> QED BY <1>1, <2>1, <2>2, <2>3 DEF AnyCall, CallKinds
<1> QED BY <1>1, <1>2, <1>3 DEF CallFits, Stands, RefundStands

LEMMA ReadLinesBooks ==
    ASSUME DrawerInv, BooksInv, NEW c \in Calls, ReadLines(c) PROVE BooksInv'
<1>1. CASE Rollback(c)
  BY <1>1, RollbackBooks DEF ReadLines, Running
<1>2. CASE ~Rollback(c)
  <2> DEFINE q0 == call[c]
             k == q0.key
             t == q0.row
             whole == Full(c) /\ StillPaid(k) \subseteq {t}
             g == Given(k, t, q0.amount, q0.named, q0.units, line[k], whole)
             steps == LinesEnd(g, k, t, Full(c))
             q == [q0 EXCEPT !.seenLine = line[k], !.give = g, !.todo = steps]
  <2>1. /\ q0 \in AnyCall /\ CallFits(q0) /\ Stands(q0) /\ q0.pc = "tx"
        /\ q0.kind = "refund" /\ k \in Keys /\ k \in sale
        /\ RefundRuns(q0) /\ Remaining(q0.todo) = {"read"}
    BY WhoReads DEF ReadLines
  <2>2. /\ call' = [call EXCEPT ![c] = q]
        /\ UNCHANGED ledgerVars /\ UNCHANGED <<points, reward, lock>>
        /\ q0.named # "none" =>
               ~(q0.units > Quantity(k, q0.named) - line[k][q0.named].units)
    BY <1>2 DEF ReadLines, LinesEnd, Gives
  <2>3. /\ line[k] \in [Lines -> Back]
        /\ \A l \in Lines : /\ line[k][l].units <= Quantity(k, l)
                            /\ line[k][l].cents <= Amount(k, l)
    <3>1. \A l \in Lines : /\ line[k][l].units \in 0..Quantity(k, l)
                           /\ line[k][l].cents \in 0..Amount(k, l)
                           /\ Quantity(k, l) \in Nat /\ Amount(k, l) \in Nat
      BY <2>1, AmountsAreInts DEF BooksInv, WithinTicket, Lines, Rows
    <3>2. line[k] \in [Lines -> [units : Int, cents : Int]]
      BY <2>1 DEF DrawerInv, Shapes, Returned
    <3> QED BY <3>1, <3>2 DEF Back
  <2>4. /\ q0.amount \in Nat /\ q0.units \in Nat /\ t \in Rows
        /\ q0.named \in Lines \cup {"none"}
        /\ q0.named # "none" =>
               q0.units <= Quantity(k, q0.named) - line[k][q0.named].units
    <3>1. q0.amount \in Nat /\ q0.units \in Nat /\ t \in Rows
          /\ q0.named \in Lines \cup {"none"}
      BY <2>1 DEF AnyCall, Stands
    <3>2. q0.named # "none" => /\ Quantity(k, q0.named) \in Nat
                               /\ line[k][q0.named].units \in Nat
      BY <2>1, <2>3, <3>1, AmountsAreInts DEF Back
    <3> QED BY <2>2, <3>1, <3>2
  <2>5. /\ g \in [Lines -> Back]
        /\ \A l \in Lines : /\ line[k][l].units + g[l].units <= Quantity(k, l)
                            /\ line[k][l].cents + g[l].cents <= Amount(k, l)
    <3> HIDE DEF q0, k, t, whole
    <3> QED BY <2>1, <2>3, <2>4, GivenIsThere
  <2>6. PICK full \in BOOLEAN : full = Full(c)
    BY DEF Full
  <2>7. /\ steps \in StepLists /\ OnlyLast(steps)
        /\ Remaining(steps) =
             {l \in Lines : Gives(g[l])}
             \cup (IF g["product"].units > 0 THEN {"stock"} ELSE {})
             \cup (IF t = "visit" THEN {"visit"} ELSE {})
             \cup (IF Method(k, t) = "gift" THEN {"card"} ELSE {})
             \cup (IF t = "gift" THEN {"sold"} ELSE {})
             \cup (IF full THEN {"uses"} ELSE {})
    <3> HIDE DEF g, k, t, q0
    <3> QED BY <2>1, <2>4, <2>6, LinesEndIs
  <2> HIDE DEF steps, g
  <2>8. /\ q.key = k /\ q.row = t /\ q.kind = "refund" /\ q.pc = "tx"
        /\ q.amount = q0.amount /\ q.units = q0.units /\ q.seen = q0.seen
        /\ q.redeemed = q0.redeemed /\ q.release = q0.release
        /\ q.session = q0.session
        /\ q.seenLine = line[k] /\ q.give = g /\ q.todo = steps
    BY <2>1 DEF AnyCall
  <2>9. q \in AnyCall
    <3>1. /\ line[k] \in [Lines -> Returned] /\ g \in [Lines -> Returned]
      BY <2>3, <2>5 DEF Back, Returned
    <3> QED BY <2>1, <2>7, <3>1 DEF AnyCall
  <2> HIDE DEF q0, k, t, q
  <2>10. /\ t \in Lines /\ ~Known(q0) /\ ~q0.release /\ Known(q)
         /\ "drawer" \notin Remaining(q0.todo)
    <3>1. t \in Lines
      BY <2>1 DEF RefundRuns, t
    <3>2. "read" \notin Remaining(q.todo)
      BY <2>7, <2>8 DEF Lines
    <3> QED BY <2>1, <2>8, <3>1, <3>2 DEF RefundRuns, Known, t
  <2>11. \A s \in Remaining(q.todo) :
             s \in {"drawer", "read", "uses"} \/ (s \in RowSteps /\ RefundRow(q, s))
    BY <2>7, <2>8, <2>10 DEF RefundRow, RowSteps
  <2>12. RefundRuns(q)
    <3>1. GiveFits(q)
      BY <2>5, <2>8 DEF GiveFits
    <3>2. q0.amount \in 1..(Amount(k, t) - q0.seen)
          /\ (Method(k, t) = "cash" => q0.session # 0)
      BY <2>1, <2>10 DEF RefundRuns, k, t
    <3> QED BY <2>8, <2>10, <2>11, <3>1, <3>2 DEF RefundRuns
  <2>13. Stands(q)
    BY <2>1, <2>3, <2>5, <2>7, <2>8, <2>12 DEF Stands, RefundStands
  <2>14. /\ lock' \in [RowIds -> Calls \cup {NoCall}] /\ points' \in Nat
         /\ reward' \in [Keys -> {"none", "spent", "back"}]
         /\ OthersKeep(c)
    BY <2>2 DEF BooksInv, BooksShape, OthersKeep
  <2>15. ASSUME NEW s \in RowSteps, Done(q, s)
         PROVE  lock'[RowOf(c, s)'] = c /\ Passes(c, s)'
    <3>1. s \in {"prof", "pay"} /\ RefundRow(q0, s)
      BY <2>7, <2>8, <2>10, <2>15
         DEF Done, RowPart, RefundRow, Lines, k, t
    <3>2. Done(call[c], s)
      BY <2>1, <3>1 DEF Done, RowPart, q0
    <3>3. lock'[RowOf(c, s)] = c
      BY <2>2, <3>2, DoneIsLocked
    <3>4. /\ q.key = call[c].key /\ q.row = call[c].row /\ q.kind = call[c].kind
          /\ q.amount = call[c].amount /\ q.seen = call[c].seen /\ s \notin Lines
      BY <2>1, <2>8, <3>1 DEF q0, k, t, Lines
    <3> QED BY <2>2, <2>9, <3>2, <3>3, <3>4, StillHeld
  <2> QED BY <2>2, <2>9, <2>13, <2>14, <2>15, CallChanges
<1> QED BY <1>1, <1>2

LEMMA CountUsesBooks ==
    ASSUME DrawerInv, BooksInv, NEW c \in Calls, CountUses(c) PROVE BooksInv'
<1> DEFINE q0 == call[c]
           gone == StillPaid(q0.key) \subseteq {q0.row} /\ q0.key \in uses
           q == [q0 EXCEPT !.release = gone, !.todo = When(gone, "promo")]
<1>1. /\ q0 \in AnyCall /\ CallFits(q0) /\ Stands(q0) /\ q0.pc = "tx"
      /\ q0.kind = "refund" /\ q0.key \in Keys /\ q0.key \in sale
      /\ RefundRuns(q0) /\ Remaining(q0.todo) = {"uses"}
  BY WhoReads DEF CountUses
<1>2. /\ call' = [call EXCEPT ![c] = q]
      /\ UNCHANGED ledgerVars /\ UNCHANGED <<points, reward, lock>>
  BY DEF CountUses
<1>3. /\ When(gone, "promo") \in StepLists /\ OnlyLast(When(gone, "promo"))
      /\ Remaining(When(gone, "promo")) = IF gone THEN {"promo"} ELSE {}
      /\ gone \in BOOLEAN
  BY RemainingOfWhen, ShortIsLast DEF Steps, RowSteps
<1> HIDE DEF gone
<1>4. /\ q.key = q0.key /\ q.row = q0.row /\ q.kind = "refund" /\ q.pc = "tx"
      /\ q.amount = q0.amount /\ q.units = q0.units /\ q.seen = q0.seen
      /\ q.redeemed = q0.redeemed /\ q.release = gone
      /\ q.session = q0.session /\ q.seenLine = q0.seenLine
      /\ q.give = q0.give /\ q.todo = When(gone, "promo")
  BY <1>1 DEF AnyCall
<1>5. q \in AnyCall
  BY <1>1, <1>3 DEF AnyCall
<1> HIDE DEF q0, q
<1>6. Known(q0) /\ Known(q)
  BY <1>1, <1>3, <1>4 DEF Known
<1>7. RefundRuns(q)
  <2>1. GiveFits(q)
    BY <1>1, <1>4 DEF RefundRuns, GiveFits
  <2>2. \A s \in Remaining(q.todo) :
            s \in {"drawer", "read", "uses"} \/ (s \in RowSteps /\ RefundRow(q, s))
    BY <1>3, <1>4 DEF RefundRow, RowSteps
  <2>3. "drawer" \notin Remaining(q0.todo) /\ "read" \notin Remaining(q.todo)
    BY <1>1, <1>3, <1>4
  <2> QED BY <1>1, <1>4, <1>6, <2>1, <2>2, <2>3 DEF RefundRuns
<1>8. Stands(q)
  BY <1>1, <1>3, <1>4, <1>7 DEF Stands, RefundStands
<1>9. /\ lock' \in [RowIds -> Calls \cup {NoCall}] /\ points' \in Nat
      /\ reward' \in [Keys -> {"none", "spent", "back"}]
      /\ OthersKeep(c)
  BY <1>2 DEF BooksInv, BooksShape, OthersKeep
<1>10. ASSUME NEW s \in RowSteps, Done(q, s)
       PROVE  lock'[RowOf(c, s)'] = c /\ Passes(c, s)'
  <2>1. s # "promo" /\ s # "uses" /\ RefundRow(q, s)
    BY <1>3, <1>4, <1>10 DEF Done, RowPart, RefundRow, RowSteps, Lines
  <2>2. RefundRow(q0, s)
    BY <1>4, <1>6, <2>1 DEF RefundRow, Lines
  <2>3. Done(call[c], s)
    BY <1>1, <2>1, <2>2 DEF Done, RowPart, q0
  <2>4. lock'[RowOf(c, s)] = c
    BY <1>2, <2>3, DoneIsLocked
  <2> QED BY <1>1, <1>2, <1>4, <1>5, <2>3, <2>4, StillHeld DEF q0
<1> QED BY <1>2, <1>5, <1>8, <1>9, <1>10, CallChanges

LEMMA CheckCapBooks ==
    ASSUME DrawerInv, BooksInv, NEW c \in Calls, CheckCap(c) PROVE BooksInv'
<1>1. CASE Rollback(c)
  BY <1>1, RollbackBooks DEF CheckCap, Running
<1>2. CASE ~Rollback(c)
  <2> DEFINE q == [call[c] EXCEPT !.todo = << >>]
  <2>1. /\ call[c] \in AnyCall /\ CallFits(call[c]) /\ Stands(call[c])
        /\ call[c].pc = "tx" /\ call[c].todo # << >> /\ Head(call[c].todo) = "cap"
    BY DEF DrawerInv, Shapes, BooksInv, CallsStand, Running, CheckCap
  <2>2. "cap" \in Remaining(call[c].todo)
    BY <2>1, RemainingSplits DEF AnyCall
  <2>3. call[c].kind = "takeOut"
    BY <2>1, <2>2 DEF AnyCall, CallKinds, CallFits, Stands, SaleStands,
                      RefundStands, RefundRuns, RowSteps, Lines
  <2>4. q \in AnyCall /\ q.kind = "takeOut"
    <3>1. << >> \in StepLists
      BY DEF StepLists
    <3> QED BY <2>1, <2>3, <3>1 DEF AnyCall
  <2>5. Stands(q)
    BY <2>1, <2>3, ShortIsLast DEF AnyCall, Stands
  <2>6. \A s \in RowSteps : ~Done(q, s)
    BY <2>4 DEF Done, RowPart
  <2>7. /\ call' = [call EXCEPT ![c] = q]
        /\ UNCHANGED ledgerVars /\ UNCHANGED <<points, reward, lock>>
    BY <1>2 DEF CheckCap
  <2>8. /\ lock' \in [RowIds -> Calls \cup {NoCall}] /\ points' \in Nat
        /\ reward' \in [Keys -> {"none", "spent", "back"}]
        /\ OthersKeep(c)
    BY <2>7 DEF BooksInv, BooksShape, OthersKeep
  <2> HIDE DEF q
  <2> QED BY <2>4, <2>5, <2>6, <2>7, <2>8, CallChanges
<1> QED BY <1>1, <1>2

LEMMA PointsBooks ==
    ASSUME DrawerInv, BooksInv, NEW c \in Calls,
           GiveBackPoints(c) \/ AfterRefund(c) \/ Crash(c)
    PROVE  BooksInv'
<1>1. /\ RewardCost \in Nat /\ points \in Nat
      /\ reward \in [Keys -> {"none", "spent", "back"}]
  BY CallsAssumption DEF BooksInv, BooksShape
<1>2. /\ call' = [call EXCEPT ![c] = Idle]
      /\ UNCHANGED ledgerVars /\ lock' \in {lock, Freed(c)}
  BY DEF GiveBackPoints, AfterRefund, Crash
<1>3. points' \in {points, points + RewardCost}
  BY DEF GiveBackPoints, AfterRefund, Crash
<1>4. points' \in Nat
  BY <1>1, <1>3
<1>5. /\ reward' \in [Keys -> {"none", "spent", "back"}]
      /\ \A k \in Keys \ sale : reward'[k] = reward[k]
  <2>1. CASE reward' = reward
    BY <1>1, <2>1
  <2>2. CASE reward' # reward
    <3>1. PICK k : reward[k] = "spent" /\ reward' = [reward EXCEPT ![k] = "back"]
      BY <2>2 DEF GiveBackPoints, AfterRefund, Crash
    <3>2. \A j \in Keys \ sale : reward[j] = "none"
      BY DEF BooksInv, NoTrace
    <3> QED BY <1>1, <3>1, <3>2
  <2> QED BY <2>1, <2>2
<1> QED BY <1>2, <1>4, <1>5, CallStops

-----------------------------------------------------------------------------
(* The commits: what is written is locked, and was looked at.              *)

\* A step leaves alone what statement s of call d was let through for.
Spares(d, s) ==
    LET k == call[d].key IN
    /\ s = "key" => (k \in sale' => k \in sale)
    /\ s = "promo" => uses' = uses
    /\ s = "card" => card'[Body[k].card] = card[Body[k].card]
    /\ s = "sold" => card'[k] = card[k]
    /\ s = "stock" => stock' = stock
    /\ s = "visit" => visit' = visit
    /\ s = "pay" => pay'[k][call[d].row] = pay[k][call[d].row]
    /\ s \in Lines => line'[k][s] = line[k][s]

LEMMA OthersHold ==
    ASSUME DrawerInv, BooksInv, NEW c \in Calls, NEW q \in AnyCall,
           call' = [call EXCEPT ![c] = q], q.pc # "tx", Stands(q)',
           lock' \in {lock, Freed(c)}, sale \subseteq sale',
           \A d \in Calls \ {c} : \A s \in RowSteps :
               Done(call[d], s) => Spares(d, s)
    PROVE  /\ CallsStand' /\ LocksHold'
           /\ lock' \in [RowIds -> Calls \cup {NoCall}]
<1>1. /\ lock \in [RowIds -> Calls \cup {NoCall}]
      /\ lock' \in [RowIds -> Calls \cup {NoCall}]
      /\ \A r \in RowIds : \A d \in Calls \ {c} : lock[r] = d => lock'[r] = d
  BY DEF BooksInv, BooksShape, Freed
<1>2. /\ call \in [Calls -> AnyCall]
      /\ call'[c] = q
      /\ \A d \in Calls \ {c} : call'[d] = call[d]
  BY DEF DrawerInv, Shapes
<1>3. CallsStand'
  <2>1. ASSUME NEW d \in Calls PROVE Stands(call[d])'
    <3>1. CASE d = c
      BY <1>2, <3>1
    <3>2. CASE d # c
      <4>1. PICK r : r = call[d]
        OBVIOUS
      <4>2. Stands(r)
        BY <4>1 DEF BooksInv, CallsStand
      <4>3. Stands(r)'
        BY <4>2, StandsOn
      <4> QED BY <1>2, <3>2, <4>1, <4>3
    <3> QED BY <3>1, <3>2
  <2> QED BY <2>1 DEF CallsStand
<1>4. LocksHold'
  <2>1. ASSUME NEW d \in Calls, NEW s \in RowSteps, Done(call'[d], s)
        PROVE  lock'[RowOf(d, s)'] = d /\ Passes(d, s)'
    <3>1. d # c /\ Done(call[d], s)
      BY <1>2, <2>1 DEF Done
    <3>2. RowOf(d, s) \in RowIds /\ lock[RowOf(d, s)] = d /\ Passes(d, s)
      BY <3>1, DoneIsLocked
    <3>3. Spares(d, s)
      BY <3>1
    <3>4. Passes(d, s)' /\ RowOf(d, s)' = RowOf(d, s)
      BY <1>2, <3>1, <3>2, <3>3, PassesStay DEF Spares
    <3> QED BY <1>1, <3>1, <3>2, <3>4
  <2> QED BY <2>1 DEF LocksHold
<1> QED BY <1>1, <1>3, <1>4

\* A sale about to commit.
LEMMA SaleHolds ==
    ASSUME DrawerInv, BooksInv, NEW c \in Calls, Committing(c, "sale")
    PROVE  LET k == call[c].key
           IN
           /\ call[c] \in AnyCall /\ CallFits(call[c]) /\ Stands(call[c])
           /\ k \in Keys /\ k \notin sale
           /\ lock[<<"key", k>>] = c
           /\ Body[k].promo => lock[<<"promo">>] = c /\ PromotionLeft
           /\ PaidBy(k, "gift") > 0 =>
                  /\ lock[<<"card", Body[k].card>>] = c
                  /\ CardPays(k) /\ Body[k].card \in Cards \ {k}
           /\ Body[k].units > 0 => lock[<<"stock">>] = c /\ StockLasts(k)
           /\ PaysVisit(k) =>
                  /\ lock[<<"visit">>] = c
                  /\ Chargeable /\ VisitOwes(k)
           /\ TakesCash(k) => call[c].session # 0
<1> DEFINE k == call[c].key
<1>1. /\ call[c] \in AnyCall /\ CallFits(call[c]) /\ Stands(call[c])
      /\ call[c].pc = "tx" /\ call[c].todo = << >> /\ call[c].kind = "sale"
  BY DEF DrawerInv, Shapes, BooksInv, CallsStand, Committing
<1>2. k \in Keys
  BY <1>1 DEF CallFits
<1>3. Remaining(call[c].todo) = {} /\ SaleStands(call[c])
  BY <1>1, RemainingOfEmpty DEF Stands
<1>4. \A s \in RowSteps : SaleRow(k, s) =>
          lock[RowOf(c, s)] = c /\ Passes(c, s)
  BY <1>1, <1>3 DEF BooksInv, LocksHold, Done, RowPart
<1>5. lock[<<"key", k>>] = c /\ k \notin sale
  BY <1>4 DEF SaleRow, RowSteps, Lines, RowOf, Passes, KeyIsNew
<1>6. Body[k].promo => lock[<<"promo">>] = c /\ PromotionLeft
  BY <1>1, <1>4 DEF SaleRow, RowSteps, Lines, RowOf, Passes
<1>7. PaidBy(k, "gift") > 0 => lock[<<"card", Body[k].card>>] = c /\ CardPays(k)
  BY <1>1, <1>4 DEF SaleRow, RowSteps, Lines, RowOf, Passes
<1>8. Body[k].units > 0 => lock[<<"stock">>] = c /\ StockLasts(k)
  BY <1>1, <1>4 DEF SaleRow, RowSteps, Lines, RowOf, Passes
<1>9. PaysVisit(k) => lock[<<"visit">>] = c /\ VisitUnchanged(c)
  BY <1>1, <1>4 DEF SaleRow, RowSteps, Lines, RowOf, Passes
<1>10. PaysVisit(k) => Chargeable /\ VisitOwes(k)
  BY <1>3, <1>9 DEF SaleStands, VisitUnchanged, VisitOwes
<1>11. TakesCash(k) => call[c].session # 0
  BY <1>1, <1>3 DEF SaleStands
<1> QED BY <1>1, <1>2, <1>5, <1>6, <1>7, <1>8, <1>9, <1>10, <1>11,
           GiftIsPaidByGift

\* A refund about to commit.
LEMMA RefundHolds ==
    ASSUME DrawerInv, BooksInv, NEW c \in Calls, Committing(c, "refund")
    PROVE  LET k == call[c].key
               t == call[c].row
           IN
           /\ call[c] \in AnyCall /\ CallFits(call[c]) /\ Stands(call[c])
           /\ RefundRuns(call[c]) /\ Known(call[c])
           /\ k \in Keys /\ k \in sale /\ t \in Rows
           /\ lock[<<"pay", k, t>>] = c
           /\ pay[k][t].st = "paid" /\ pay[k][t].back = call[c].seen
           /\ call[c].amount \in 1..Left(k, t)
           /\ Queued(k, t) => lock[<<"prof">>] = c
           /\ \A l \in Lines :
                  Gives(call[c].give[l]) => lock[<<"line", k, l>>] = c
           /\ \A l \in Lines :
                  Gives(call[c].give[l]) => line[k][l] = call[c].seenLine[l]
           /\ call[c].give["product"].units > 0 => lock[<<"stock">>] = c
           /\ call[c].release => lock[<<"promo">>] = c
           /\ t = "visit" => lock[<<"visit">>] = c
           /\ t = "gift" => /\ lock[<<"card", k>>] = c
                            /\ SoldCardHas(k, call[c].amount)
           /\ Method(k, t) = "gift" =>
                  /\ lock[<<"card", Body[k].card>>] = c
                  /\ CardTakesBack(Body[k].card)
                  /\ Body[k].card \in Cards \ {k}
                  /\ Body[k].card \notin Keys \ sale
                  /\ t # "gift"
           /\ Method(k, t) = "cash" => call[c].session # 0
<1> DEFINE k == call[c].key
           t == call[c].row
<1>1. /\ call[c] \in AnyCall /\ CallFits(call[c]) /\ Stands(call[c])
      /\ call[c].pc = "tx" /\ call[c].todo = << >> /\ call[c].kind = "refund"
  BY DEF DrawerInv, Shapes, BooksInv, CallsStand, Committing
<1>2. k \in Keys /\ t \in Rows
  BY <1>1 DEF CallFits, AnyCall
<1>3. /\ Remaining(call[c].todo) = {} /\ RefundRuns(call[c]) /\ Known(call[c])
      /\ k \in sale
  BY <1>1, RemainingOfEmpty DEF Stands, RefundStands, Known
<1>4. \A s \in RowSteps : RefundRow(call[c], s) =>
          lock[RowOf(c, s)] = c /\ Passes(c, s)
  BY <1>1, <1>3 DEF BooksInv, LocksHold, Done, RowPart
<1>5. lock[<<"pay", k, t>>] = c /\ PaymentUnchanged(c)
  BY <1>4 DEF RefundRow, RowSteps, Lines, RowOf, Passes
<1>6. Queued(k, t) => lock[<<"prof">>] = c
  BY <1>4 DEF RefundRow, RowSteps, Lines, RowOf
<1>7. ASSUME NEW l \in Lines, Gives(call[c].give[l])
      PROVE  lock[<<"line", k, l>>] = c /\ line[k][l] = call[c].seenLine[l]
  <2>1. lock[RowOf(c, l)] = c /\ Passes(c, l)
    BY <1>4, <1>7 DEF RefundRow, RowSteps
  <2>2. RowOf(c, l) = <<"line", k, l>>
    BY DEF RowOf, Lines
  <2>3. Passes(c, l) => LineUnchanged(c, l)
    BY DEF Passes, Lines
  <2> QED BY <2>1, <2>2, <2>3 DEF LineUnchanged
<1>8. call[c].give["product"].units > 0 => lock[<<"stock">>] = c
  BY <1>4 DEF RefundRow, RowSteps, Lines, RowOf
<1>9. call[c].release => lock[<<"promo">>] = c
  BY <1>4 DEF RefundRow, RowSteps, Lines, RowOf
<1>10. t = "visit" => lock[<<"visit">>] = c
  BY <1>4 DEF RefundRow, RowSteps, Lines, RowOf
<1>11. t = "gift" => lock[<<"card", k>>] = c /\ SoldCardHas(k, call[c].amount)
  BY <1>4 DEF RefundRow, RowSteps, Lines, RowOf, Passes
<1>12. Method(k, t) = "gift" => /\ lock[<<"card", Body[k].card>>] = c
                                /\ CardTakesBack(Body[k].card)
  BY <1>1, <1>3, <1>4 DEF RefundRow, RowSteps, Lines, RowOf, Passes
<1>13. /\ pay[k][t].st = "paid" /\ pay[k][t].back = call[c].seen
       /\ call[c].amount \in 1..Left(k, t)
  BY <1>3, <1>5 DEF PaymentUnchanged, RefundRuns, Left
<1>14. Method(k, t) = "gift" => /\ Body[k].card \in Cards \ {k}
                                /\ Body[k].card \notin Keys \ sale
                                /\ t # "gift"
  <2>1. call[c].amount >= 1 /\ call[c].amount <= Amount(k, t)
        /\ Amount(k, t) \in Nat /\ call[c].amount \in Nat
    <3>1. Amount(k, t) \in Nat /\ call[c].seen \in Nat /\ call[c].amount \in Nat
      BY <1>1, <1>2, AmountsAreInts DEF Stands
    <3>2. call[c].amount \in 1..(Amount(k, t) - call[c].seen)
      BY <1>3 DEF RefundRuns
    <3> QED BY <3>1, <3>2
  <2> QED BY <1>2, <1>3, <2>1, GiftIsPaidByGift DEF BooksInv, NoTrace
<1>15. Method(k, t) = "cash" => call[c].session # 0
  BY <1>3 DEF RefundRuns
<1> QED BY <1>1, <1>2, <1>3, <1>5, <1>6, <1>7, <1>8, <1>9, <1>10, <1>11, <1>12,
           <1>13, <1>14, <1>15

\* What another call holds, row by row.
LEMMA OtherHolds ==
    ASSUME DrawerInv, BooksInv, NEW d \in Calls, NEW s \in RowSteps,
           Done(call[d], s)
    PROVE  LET k == call[d].key
           IN
           /\ k \in Keys /\ call[d].row \in Rows
           /\ s = "key" => lock[<<"key", k>>] = d
           /\ s \in {"promo", "stock", "visit"} => lock[<<s>>] = d
           /\ s = "card" =>
                  /\ lock[<<"card", Body[k].card>>] = d
                  /\ Body[k].card \in Cards
                  /\ Body[k].card \notin Keys \ sale
           /\ s = "sold" => lock[<<"card", k>>] = d
           /\ s = "pay" => lock[<<"pay", k, call[d].row>>] = d
           /\ s \in Lines => lock[<<"line", k, s>>] = d
           /\ s \in {"sold", "pay"} \cup Lines => k \in sale
<1> DEFINE k == call[d].key
<1>1. /\ lock[RowOf(d, s)] = d /\ Passes(d, s) /\ RowPart(call[d], s)
      /\ call[d] \in AnyCall /\ CallFits(call[d]) /\ Stands(call[d])
      /\ call[d].pc = "tx"
  BY DoneIsLocked DEF Done
<1>2. k \in Keys /\ call[d].row \in Rows
  BY <1>1 DEF RowPart, CallFits, AnyCall
<1>3. s = "key" => lock[<<"key", k>>] = d
  BY <1>1 DEF RowOf, Lines
<1>4. s \in {"promo", "stock", "visit"} => lock[<<s>>] = d
  BY <1>1 DEF RowOf, Lines
<1>5. s = "card" => lock[<<"card", Body[k].card>>] = d
  BY <1>1 DEF RowOf, Lines
<1>6. s = "sold" => lock[<<"card", k>>] = d
  BY <1>1 DEF RowOf, Lines
<1>7. s = "pay" => lock[<<"pay", k, call[d].row>>] = d
  BY <1>1 DEF RowOf, Lines
<1>8. s \in Lines => lock[<<"line", k, s>>] = d
  BY <1>1 DEF RowOf, Lines
<1>9. s \in {"sold", "pay"} \cup Lines => k \in sale
  BY <1>1 DEF RowPart, SaleRow, Stands, RefundStands, Lines
<1>10. ASSUME s = "card"
       PROVE  Body[k].card \in Cards /\ Body[k].card \notin Keys \ sale
  <2>1. CASE call[d].kind = "sale"
    <3>1. PaidBy(k, "gift") > 0 /\ card[Body[k].card].active
      BY <1>1, <1>10, <2>1 DEF RowPart, SaleRow, Passes, CardPays, Lines
    <3>2. \A b \in Keys \ sale : card[b].active = FALSE
      BY DEF BooksInv, NoTrace
    <3> QED BY <1>2, <3>1, <3>2, GiftIsPaidByGift
  <2>2. CASE call[d].kind = "refund"
    <3>1. /\ Method(k, call[d].row) = "gift" /\ RefundRuns(call[d])
          /\ k \in sale
      BY <1>1, <1>10, <2>2 DEF RowPart, RefundRow, Stands, RefundStands, Lines
    <3>2. PaidBy(k, "gift") > 0
      <4>1. Amount(k, call[d].row) \in Nat /\ call[d].seen \in Nat
        BY <1>1, <1>2, AmountsAreInts DEF Stands
      <4>2. call[d].amount \in 1..(Amount(k, call[d].row) - call[d].seen)
        BY <3>1 DEF RefundRuns
      <4>3. Amount(k, call[d].row) >= 1
        BY <4>1, <4>2
      <4> QED BY <1>2, <3>1, <4>1, <4>3, GiftIsPaidByGift
    <3> QED BY <1>2, <3>1, <3>2, GiftIsPaidByGift DEF BooksInv, NoTrace
  <2> QED BY <1>1, <2>1, <2>2 DEF RowPart
<1> QED BY <1>2, <1>3, <1>4, <1>5, <1>6, <1>7, <1>8, <1>9, <1>10

LEMMA CommitSaleBooks ==
    ASSUME DrawerInv, BooksInv, NEW c \in Calls, CommitSale(c) PROVE BooksInv'
<1> DEFINE k == call[c].key
<1>1. /\ call[c] \in AnyCall /\ CallFits(call[c]) /\ Stands(call[c])
      /\ k \in Keys /\ k \notin sale
      /\ lock[<<"key", k>>] = c
      /\ Body[k].promo => lock[<<"promo">>] = c /\ PromotionLeft
      /\ PaidBy(k, "gift") > 0 =>
             /\ lock[<<"card", Body[k].card>>] = c
             /\ CardPays(k) /\ Body[k].card \in Cards \ {k}
      /\ Body[k].units > 0 => lock[<<"stock">>] = c /\ StockLasts(k)
      /\ PaysVisit(k) => lock[<<"visit">>] = c /\ Chargeable /\ VisitOwes(k)
  BY SaleHolds DEF CommitSale
<1>2. /\ RecordSale(k, call[c].session)
      /\ reward' = [reward EXCEPT ![k] = IF Body[k].reward THEN "spent" ELSE @]
      /\ call' = [call EXCEPT ![c] = Idle]
      /\ lock' = Freed(c)
      /\ UNCHANGED points
  BY DEF CommitSale
<1>3. /\ sale' = sale \cup {k} /\ sale \subseteq sale' /\ sale \subseteq Keys
      /\ UNCHANGED line
      /\ uses' = IF Body[k].promo THEN uses \cup {k} ELSE uses
      /\ stock' = stock - Body[k].units
  BY <1>2 DEF RecordSale, DrawerInv, Shapes
<1>4. \A b \in Cards : card'[b] =
          IF b = k /\ Amount(k, "gift") > 0
          THEN [balance |-> Amount(k, "gift"), active |-> TRUE]
          ELSE IF b = Body[k].card
          THEN [card[b] EXCEPT !.balance = @ - PaidBy(k, "gift")]
          ELSE card[b]
  BY <1>2 DEF RecordSale
<1>5. \A b \in Cards : b = Body[k].card => PaidBy(k, "gift") > 0
  <2>1. PaidBy(k, "gift") \in Nat
    BY <1>1, GiftIsPaidByGift
  <2> QED BY <1>1, <2>1, PaymentAssumption, TicketsAssumption
<1>6. \A j \in Keys : pay'[j] = IF j = k
          THEN [t \in Rows |-> IF Amount(k, t) > 0 THEN [st |-> "paid", back |-> 0]
                               ELSE NoPayment]
          ELSE pay[j]
  BY <1>2 DEF RecordSale, DrawerInv, Shapes
<1>7. visit' = IF PaysVisit(k)
               THEN [visit EXCEPT !.paid = VisitPrice, !.st = "paid"] ELSE visit
  BY <1>2 DEF RecordSale
<1>8. /\ \A t \in Rows : Amount(k, t) \in Nat
      /\ PaidBy(k, "gift") \in Nat /\ Body[k].units \in Nat
      /\ VisitPrice \in Nat /\ k \in Cards
      /\ Body[k].reward \in BOOLEAN
  BY <1>1, AmountsAreInts, GiftIsPaidByGift, TicketsAssumption DEF Cards, Ticket
<1> HIDE DEF k
<1>9. /\ card \in [Cards -> [balance : Nat, active : BOOLEAN]]
      /\ stock \in Nat /\ visit.paid \in Nat /\ uses \subseteq sale /\ points \in Nat
      /\ reward \in [Keys -> {"none", "spent", "back"}]
  BY DEF BooksInv, BooksShape
<1>10. ASSUME NEW d \in Calls \ {c}, NEW s \in RowSteps, Done(call[d], s)
       PROVE  Spares(d, s)
  <2> DEFINE kd == call[d].key
  <2>1. /\ kd \in Keys /\ call[d].row \in Rows
        /\ s = "key" => lock[<<"key", kd>>] = d
        /\ s \in {"promo", "stock", "visit"} => lock[<<s>>] = d
        /\ s = "card" => /\ lock[<<"card", Body[kd].card>>] = d
                         /\ Body[kd].card \in Cards
                         /\ Body[kd].card \notin Keys \ sale
        /\ s = "sold" => lock[<<"card", kd>>] = d
        /\ s \in {"sold", "pay"} \cup Lines => kd \in sale
    BY <1>10, OtherHolds
  <2> HIDE DEF kd
  <2>2. s = "key" => (kd \in sale' => kd \in sale)
    BY <1>1, <1>3, <2>1
  <2>3. s = "promo" => uses' = uses
    BY <1>1, <1>3, <2>1
  <2>4. s = "card" => card'[Body[kd].card] = card[Body[kd].card]
    BY <1>1, <1>4, <1>5, <2>1
  <2>5. s = "sold" => card'[kd] = card[kd]
    BY <1>1, <1>4, <1>5, <2>1 DEF Cards
  <2>6. s = "stock" => stock' = stock
    BY <1>1, <1>3, <1>8, <1>9, <2>1
  <2>7. s = "visit" => visit' = visit
    BY <1>1, <1>7, <2>1
  <2>8. s = "pay" => pay'[kd][call[d].row] = pay[kd][call[d].row]
    BY <1>1, <1>6, <2>1
  <2>9. s \in Lines => line'[kd][s] = line[kd][s]
    BY <1>3
  <2> QED BY <2>2, <2>3, <2>4, <2>5, <2>6, <2>7, <2>8, <2>9 DEF Spares, kd
<1>11. /\ CallsStand' /\ LocksHold'
       /\ lock' \in [RowIds -> Calls \cup {NoCall}]
  <2>1. Idle.pc # "tx" /\ Stands(Idle)'
    <3>1. PICK q : q = Idle
      OBVIOUS
    <3>2. Stands(q)'
      BY <1>3, <3>1, IdleStands, StandsOn
    <3>3. Idle' = Idle
      BY DEF Idle, NothingGiven
    <3> QED BY <3>1, <3>2, <3>3 DEF Idle
  <2> QED BY <1>2, <1>3, <1>10, <2>1, IdleIsCall, OthersHold
<1>12. BooksShape'
  <2>1. card' \in [Cards -> [balance : Nat, active : BOOLEAN]]
    <3>1. ASSUME NEW b \in Cards PROVE card'[b] \in [balance : Nat, active : BOOLEAN]
      <4>1. CASE b = Body[k].card
        <5>1. PaidBy(k, "gift") > 0 /\ b # k /\ card[b].balance >= PaidBy(k, "gift")
          BY <1>1, <1>5, <4>1 DEF CardPays
        <5>2. card'[b] = [card[b] EXCEPT !.balance = @ - PaidBy(k, "gift")]
          BY <1>4, <4>1, <5>1
        <5> QED BY <1>8, <1>9, <5>1, <5>2
      <4>2. CASE b # Body[k].card
        <5>1. Amount(k, "gift") \in Nat
          BY <1>8 DEF Rows
        <5>2. card'[b] \in {[balance |-> Amount(k, "gift"), active |-> TRUE], card[b]}
          BY <1>4, <4>2
        <5>3. [balance |-> Amount(k, "gift"), active |-> TRUE]
                  \in [balance : Nat, active : BOOLEAN]
          BY <5>1
        <5> QED BY <1>9, <5>2, <5>3
      <4> QED BY <4>1, <4>2
    <3>2. card' = [b \in Cards |-> card'[b]]
      BY <1>2 DEF RecordSale
    <3> QED BY <3>1, <3>2
  <2>2. stock' \in Nat
    BY <1>1, <1>3, <1>8, <1>9 DEF StockLasts
  <2>3. visit'.paid \in Nat
    <3>1. visit \in [paid : Int, st : {"pending", "paid", "refunded"}, live : BOOLEAN]
      BY DEF DrawerInv, Shapes
    <3> QED BY <1>7, <1>8, <1>9, <3>1
  <2>4. uses' \subseteq sale'
    BY <1>3, <1>9
  <2>5. reward' \in [Keys -> {"none", "spent", "back"}]
    BY <1>2, <1>9 DEF k
  <2> QED BY <1>2, <1>9, <1>11, <2>1, <2>2, <2>3, <2>4, <2>5 DEF BooksShape
<1>13. WithinTicket'
  <2>1. ASSUME NEW j \in Keys, NEW t \in Rows
        PROVE  pay'[j][t].back \in 0..Amount(j, t)
    <3>1. Amount(j, t) \in Nat
      BY AmountsAreInts
    <3>2. j = k => pay'[j][t].back = 0
      <4>1. ASSUME j = k
            PROVE  pay'[j] = [z \in Rows |-> IF Amount(k, z) > 0
                                             THEN [st |-> "paid", back |-> 0]
                                             ELSE NoPayment]
        BY <1>6, <4>1
      <4>2. [st |-> "paid", back |-> 0].back = 0 /\ NoPayment.back = 0
        BY DEF NoPayment
      <4> QED BY <4>1, <4>2
    <3>3. j # k => pay'[j][t] = pay[j][t]
      BY <1>6
    <3> QED BY <3>1, <3>2, <3>3 DEF BooksInv, WithinTicket
  <2> QED BY <1>3, <2>1 DEF BooksInv, WithinTicket
<1>14. NoTrace'
  <2>1. ASSUME NEW j \in Keys \ sale'
        PROVE  /\ pay'[j] = [t \in Rows |-> NoPayment]
               /\ line'[j] = NothingGiven
               /\ card'[j] = [balance |-> 0, active |-> FALSE]
               /\ reward'[j] = "none"
    <3>1. j \in Keys \ sale /\ j # k /\ j \in Cards
      BY <1>3 DEF Cards
    <3>2. /\ pay[j] = [t \in Rows |-> NoPayment] /\ line[j] = NothingGiven
          /\ card[j] = [balance |-> 0, active |-> FALSE] /\ reward[j] = "none"
      BY <3>1 DEF BooksInv, NoTrace
    <3>3. j # Body[k].card
      BY <1>1, <1>5, <3>1, <3>2 DEF CardPays
    <3> QED BY <1>2, <1>3, <1>4, <1>6, <1>9, <3>1, <3>2, <3>3
  <2>2. ASSUME NEW j \in sale', PaidBy(j, "gift") > 0
        PROVE  Body[j].card \notin Keys \ sale'
    <3>1. CASE j = k
      <4>1. card[Body[k].card].active
        BY <1>1, <2>2, <3>1 DEF CardPays
      <4> QED BY <1>3, <3>1, <4>1 DEF BooksInv, NoTrace
    <3>2. CASE j # k
      BY <1>3, <2>2, <3>2 DEF BooksInv, NoTrace
    <3> QED BY <3>1, <3>2
  <2> QED BY <2>1, <2>2 DEF NoTrace
<1> QED BY <1>11, <1>12, <1>13, <1>14 DEF BooksInv

\* What a refund of payment (k, t) writes of the lines.
LEMMA LinesWritten ==
    ASSUME DrawerInv, BooksInv, NEW c \in Calls, Committing(c, "refund"),
           NEW t, NEW n, NEW s, NEW r,
           RecordRefund(call[c].key, t, n, call[c].give, r, s)
    PROVE  LET k == call[c].key
               give == call[c].give
           IN
           /\ \A j \in Keys, l \in Lines :
                 (j = k /\ Gives(give[l])) \/ line'[j][l] = line[j][l]
           /\ \A l \in Lines :
                 /\ line'[k][l].units = line[k][l].units + give[l].units
                 /\ line'[k][l].cents = line[k][l].cents + give[l].cents
           /\ \A l \in Lines :
                 /\ line'[k][l].units <= Quantity(k, l)
                 /\ line'[k][l].cents <= Amount(k, l)
           /\ line' \in [Keys -> [Lines -> Back]]
           /\ give["product"].units \in Nat
           /\ stock' = stock + give["product"].units
<1> DEFINE k == call[c].key
           give == call[c].give
<1>1. /\ Stands(call[c]) /\ RefundRuns(call[c]) /\ k \in Keys
      /\ \A l \in Lines : Gives(give[l]) => line[k][l] = call[c].seenLine[l]
  <2>1. Stands(call[c])
    BY RefundHolds
  <2>2. RefundRuns(call[c])
    BY RefundHolds
  <2>3. k \in Keys
    BY RefundHolds
  <2>4. \A l \in Lines : Gives(give[l]) => line[k][l] = call[c].seenLine[l]
    BY RefundHolds
  <2> QED BY <2>1, <2>2, <2>3, <2>4
<1>2. give \in [Lines -> Back]
  BY <1>1 DEF Stands
<1> HIDE DEF give, k
<1>3. /\ \A l \in Lines : give[l].units \in Nat /\ give[l].cents \in Nat
      /\ \A j \in Keys, l \in Lines :
             /\ line[j][l] \in [units : Int, cents : Int]
             /\ line[j][l].units \in 0..Quantity(j, l)
             /\ line[j][l].cents \in 0..Amount(j, l)
             /\ Quantity(j, l) \in Nat /\ Amount(j, l) \in Nat
      /\ line \in [Keys -> [Lines -> [units : Int, cents : Int]]]
  BY <1>2, AmountsAreInts
     DEF Back, DrawerInv, Shapes, Returned, BooksInv, WithinTicket, Lines, Rows
<1>4. line' = [line EXCEPT ![k] =
                 [l \in Lines |-> [units |-> line[k][l].units + give[l].units,
                                   cents |-> line[k][l].cents + give[l].cents]]]
  BY DEF RecordRefund, give, k
<1>5. \A l \in Lines :
          line'[k][l] = [units |-> line[k][l].units + give[l].units,
                         cents |-> line[k][l].cents + give[l].cents]
  BY <1>1, <1>3, <1>4
<1>6. /\ \A j \in Keys : j # k => line'[j] = line[j]
      /\ \A l \in Lines :
             /\ line'[k][l].units = line[k][l].units + give[l].units
             /\ line'[k][l].cents = line[k][l].cents + give[l].cents
  <2>1. \A j \in Keys : j # k => line'[j] = line[j]
    BY <1>3, <1>4
  <2>2. ASSUME NEW l \in Lines
        PROVE  /\ line'[k][l].units = line[k][l].units + give[l].units
               /\ line'[k][l].cents = line[k][l].cents + give[l].cents
    <3>1. line'[k][l] = [units |-> line[k][l].units + give[l].units,
                         cents |-> line[k][l].cents + give[l].cents]
      BY <1>5, <2>2
    <3> QED BY <3>1
  <2> QED BY <2>1, <2>2
<1>7. ASSUME NEW l \in Lines, ~Gives(give[l]) PROVE line'[k][l] = line[k][l]
  <2>1. give[l].units = 0 /\ give[l].cents = 0
    BY <1>3, <1>7 DEF Gives
  <2>2. line'[k][l] = [units |-> line[k][l].units, cents |-> line[k][l].cents]
    BY <1>1, <1>3, <1>5, <2>1
  <2> QED BY <1>1, <1>3, <2>2
<1>8. ASSUME NEW l \in Lines
      PROVE  /\ line'[k][l].units <= Quantity(k, l)
             /\ line'[k][l].cents <= Amount(k, l)
  <2>1. CASE Gives(give[l])
    <3>1. line[k][l] = call[c].seenLine[l]
      BY <1>1, <2>1
    <3>2. /\ call[c].seenLine[l].units + give[l].units <= Quantity(k, l)
          /\ call[c].seenLine[l].cents + give[l].cents <= Amount(k, l)
      BY <1>1 DEF RefundRuns, GiveFits, give, k
    <3> QED BY <1>6, <3>1, <3>2
  <2>2. CASE ~Gives(give[l])
    BY <1>1, <1>3, <1>7, <2>2
  <2> QED BY <2>1, <2>2
<1>9. line' \in [Keys -> [Lines -> Back]]
  <2>1. ASSUME NEW j \in Keys PROVE line'[j] \in [Lines -> Back]
    <3>1. CASE j = k
      <4>1. \A l \in Lines : [units |-> line[k][l].units + give[l].units,
                              cents |-> line[k][l].cents + give[l].cents] \in Back
        BY <1>1, <1>3 DEF Back
      <4> QED BY <1>1, <1>3, <1>4, <3>1, <4>1
    <3>2. CASE j # k
      BY <1>3, <1>6, <3>2 DEF Back
    <3> QED BY <3>1, <3>2
  <2>2. line' = [j \in Keys |-> line'[j]]
    BY <1>3, <1>4
  <2> QED BY <2>1, <2>2
<1>10. give["product"].units \in Nat /\ stock' = stock + give["product"].units
  BY <1>3 DEF RecordRefund, Lines, give, k
<1>11. \A j \in Keys, l \in Lines :
           (j = k /\ Gives(give[l])) \/ line'[j][l] = line[j][l]
  BY <1>6, <1>7
<1> QED BY <1>6, <1>8, <1>9, <1>10, <1>11 DEF give, k

LEMMA CommitRefundBooks ==
    ASSUME DrawerInv, BooksInv, NEW c \in Calls, CommitRefund(c) PROVE BooksInv'
<1> DEFINE k == call[c].key
           t == call[c].row
           amount == call[c].amount
           give == call[c].give
           after == [Idle EXCEPT !.pc = "after", !.kind = "refund", !.key = k]
<1>1. /\ call[c] \in AnyCall /\ CallFits(call[c]) /\ Stands(call[c])
      /\ k \in Keys /\ k \in sale /\ t \in Rows
      /\ lock[<<"pay", k, t>>] = c
      /\ amount \in 1..Left(k, t)
      /\ \A l \in Lines : Gives(give[l]) => lock[<<"line", k, l>>] = c
      /\ give["product"].units > 0 => lock[<<"stock">>] = c
      /\ call[c].release => lock[<<"promo">>] = c
      /\ t = "visit" => lock[<<"visit">>] = c
      /\ t = "gift" => lock[<<"card", k>>] = c /\ SoldCardHas(k, amount)
      /\ Method(k, t) = "gift" =>
             /\ lock[<<"card", Body[k].card>>] = c
             /\ Body[k].card \in Cards \ {k} /\ Body[k].card \notin Keys \ sale
  BY RefundHolds DEF CommitRefund
<1>2. /\ Committing(c, "refund")
      /\ RecordRefund(k, t, amount, give, call[c].release, call[c].session)
      /\ call' = [call EXCEPT ![c] = IF Full(c) /\ Body[k].reward THEN after ELSE Idle]
      /\ lock' = Freed(c)
      /\ UNCHANGED <<points, reward>>
  BY DEF CommitRefund
<1>3. /\ \A j \in Keys, l \in Lines :
            (j = k /\ Gives(give[l])) \/ line'[j][l] = line[j][l]
      /\ \A l \in Lines : /\ line'[k][l].units <= Quantity(k, l)
                          /\ line'[k][l].cents <= Amount(k, l)
      /\ line' \in [Keys -> [Lines -> Back]]
      /\ give["product"].units \in Nat
      /\ stock' = stock + give["product"].units
  BY <1>2, LinesWritten
<1>4. /\ UNCHANGED sale /\ sale \subseteq Keys
      /\ uses' = IF call[c].release THEN uses \ {k} ELSE uses
      /\ call[c].release \in BOOLEAN
  BY <1>1, <1>2 DEF RecordRefund, DrawerInv, Shapes, AnyCall
<1>5. \A b \in Cards : card'[b] =
          IF t = "gift" /\ b = k THEN [card[b] EXCEPT !.balance = @ - amount]
          ELSE IF Method(k, t) = "gift" /\ b = Body[k].card
          THEN [balance |-> card[b].balance + amount, active |-> TRUE]
          ELSE card[b]
  BY <1>2 DEF RecordRefund
<1>6. /\ \A j \in Keys, z \in Rows :
             ~(j = k /\ z = t) => pay'[j][z] = pay[j][z]
      /\ pay'[k][t].back = pay[k][t].back + amount
      /\ \A j \in Keys : j # k => pay'[j] = pay[j]
  <2>1. pay \in [Keys -> [Rows -> [st : {"none", "paid", "refunded"}, back : Int]]]
    BY DEF DrawerInv, Shapes
  <2>2. pay' = [pay EXCEPT ![k][t] =
                 [st   |-> IF amount = Left(k, t) THEN "refunded" ELSE "paid",
                  back |-> pay[k][t].back + amount]]
    BY <1>2 DEF RecordRefund
  <2> HIDE DEF k, t, amount
  <2> QED BY <1>1, <2>1, <2>2
<1>7. visit' = IF t = "visit"
               THEN LessPaid(IF visit.paid >= amount THEN visit.paid - amount ELSE 0)
               ELSE visit
  BY <1>2 DEF RecordRefund
<1>8. /\ amount \in Nat /\ k \in Cards /\ Amount(k, t) \in Nat
      /\ pay[k][t].back \in 0..Amount(k, t)
      /\ pay[k][t].back + amount <= Amount(k, t)
  <2>1. /\ Amount(k, t) \in Nat /\ pay[k][t].back \in 0..Amount(k, t) /\ k \in Cards
    BY <1>1, AmountsAreInts DEF Cards, BooksInv, WithinTicket
  <2> QED BY <1>1, <2>1 DEF Left
<1>9. /\ card \in [Cards -> [balance : Nat, active : BOOLEAN]]
      /\ stock \in Nat /\ visit.paid \in Nat /\ uses \subseteq sale /\ points \in Nat
      /\ reward \in [Keys -> {"none", "spent", "back"}]
  BY DEF BooksInv, BooksShape
<1> HIDE DEF k, t, amount, give
<1>10. ASSUME NEW d \in Calls \ {c}, NEW s \in RowSteps, Done(call[d], s)
       PROVE  Spares(d, s)
  <2>0. PICK kd : kd = call[d].key
    OBVIOUS
  <2>1. /\ kd \in Keys /\ call[d].row \in Rows
        /\ s \in {"promo", "stock", "visit"} => lock[<<s>>] = d
        /\ s = "card" => /\ lock[<<"card", Body[kd].card>>] = d
                         /\ Body[kd].card \in Cards
        /\ s = "sold" => lock[<<"card", kd>>] = d
        /\ s = "pay" => lock[<<"pay", kd, call[d].row>>] = d
        /\ s \in Lines => lock[<<"line", kd, s>>] = d
    <3>1. d \in Calls /\ Done(call[d], s)
      BY <1>10
    <3>2. /\ kd \in Keys /\ call[d].row \in Rows
          /\ s \in {"promo", "stock", "visit"} => lock[<<s>>] = d
          /\ s = "card" => /\ lock[<<"card", Body[kd].card>>] = d
                           /\ Body[kd].card \in Cards
      BY <2>0, <3>1, OtherHolds
    <3>3. /\ s = "sold" => lock[<<"card", kd>>] = d
          /\ s = "pay" => lock[<<"pay", kd, call[d].row>>] = d
          /\ s \in Lines => lock[<<"line", kd, s>>] = d
      BY <2>0, <3>1, OtherHolds
    <3> QED BY <3>2, <3>3
  <2>2. s = "key" => (kd \in sale' => kd \in sale)
    BY <1>4
  <2>3. s = "promo" => uses' = uses
    BY <1>1, <1>4, <2>1
  <2>4. s = "card" => card'[Body[kd].card] = card[Body[kd].card]
    BY <1>1, <1>5, <2>1
  <2>5. s = "sold" => card'[kd] = card[kd]
    BY <1>1, <1>5, <2>1 DEF Cards
  <2>6. s = "stock" => stock' = stock
    BY <1>1, <1>3, <1>9, <2>1
  <2>7. s = "visit" => visit' = visit
    BY <1>1, <1>7, <2>1
  <2>8. s = "pay" => pay'[kd][call[d].row] = pay[kd][call[d].row]
    BY <1>1, <1>6, <2>1
  <2>9. s \in Lines => line'[kd][s] = line[kd][s]
    BY <1>1, <1>3, <2>1
  <2> QED BY <2>0, <2>2, <2>3, <2>4, <2>5, <2>6, <2>7, <2>8, <2>9 DEF Spares
<1>11. /\ CallsStand' /\ LocksHold'
       /\ lock' \in [RowIds -> Calls \cup {NoCall}]
  <2>1. PICK q : q = IF Full(c) /\ Body[k].reward THEN after ELSE Idle
    OBVIOUS
  <2>2. q \in AnyCall /\ q.pc # "tx" /\ Stands(q)
    <3>1. CASE q = Idle
      BY <3>1, IdleIsCall, IdleStands DEF Idle
    <3>2. CASE q = after
      <4>1. after \in AnyCall
        BY <1>1, IdleIsCall DEF AnyCall, PCs, CallKinds
      <4>2. /\ after.pc = "after" /\ after.kind = "refund" /\ after.key = k
            /\ after.redeemed = FALSE /\ after.todo = << >>
            /\ after.amount = 0 /\ after.units = 0 /\ after.seen = 0
            /\ after.seenLine = NothingGiven /\ after.give = NothingGiven
        BY DEF Idle
      <4>3. Stands(after)
        BY <1>1, <4>2, NothingIsBack, ShortIsLast DEF Stands, RefundStands
      <4> QED BY <3>2, <4>1, <4>2, <4>3
    <3> QED BY <2>1, <3>1, <3>2
  <2>3. Stands(q)'
    BY <1>4, <2>2, StandsOn
  <2>4. call' = [call EXCEPT ![c] = q] /\ sale \subseteq sale'
    BY <1>2, <1>4, <2>1
  <2> QED BY <1>2, <1>10, <2>2, <2>3, <2>4, OthersHold
<1>12. BooksShape'
  <2>1. card' \in [Cards -> [balance : Nat, active : BOOLEAN]]
    <3>1. ASSUME NEW b \in Cards PROVE card'[b] \in [balance : Nat, active : BOOLEAN]
      <4>1. CASE t = "gift" /\ b = k
        <5>1. card[b].balance >= amount /\ card'[b] = [card[b] EXCEPT !.balance = @ - amount]
          BY <1>1, <1>5, <4>1 DEF SoldCardHas
        <5> QED BY <1>8, <1>9, <5>1
      <4>2. CASE ~(t = "gift" /\ b = k)
        <5>1. card'[b] \in {[balance |-> card[b].balance + amount, active |-> TRUE], card[b]}
          BY <1>5, <4>2
        <5>2. [balance |-> card[b].balance + amount, active |-> TRUE]
                  \in [balance : Nat, active : BOOLEAN]
          BY <1>8, <1>9
        <5> QED BY <1>9, <5>1, <5>2
      <4> QED BY <4>1, <4>2
    <3>2. card' = [b \in Cards |-> card'[b]]
      BY <1>2 DEF RecordRefund
    <3> QED BY <3>1, <3>2
  <2>2. stock' \in Nat
    BY <1>3, <1>9
  <2>3. visit'.paid \in Nat
    <3>1. visit \in [paid : Int, st : {"pending", "paid", "refunded"}, live : BOOLEAN]
      BY DEF DrawerInv, Shapes
    <3>2. PICK p \in Nat : p = IF visit.paid >= amount THEN visit.paid - amount ELSE 0
      BY <1>8, <1>9
    <3>3. LessPaid(p).paid = p
      BY <3>1 DEF LessPaid
    <3> QED BY <1>7, <1>9, <3>2, <3>3
  <2>4. uses' \subseteq sale'
    BY <1>4, <1>9
  <2> QED BY <1>2, <1>9, <1>11, <2>1, <2>2, <2>3, <2>4 DEF BooksShape
<1>13. WithinTicket'
  <2>1. ASSUME NEW j \in Keys, NEW z \in Rows
        PROVE  pay'[j][z].back \in 0..Amount(j, z)
    <3>1. CASE j = k /\ z = t
      BY <1>6, <1>8, <3>1
    <3>2. CASE ~(j = k /\ z = t)
      BY <1>6, <3>2 DEF BooksInv, WithinTicket
    <3> QED BY <3>1, <3>2
  <2>2. ASSUME NEW j \in Keys, NEW l \in Lines
        PROVE  /\ line'[j][l].units \in 0..Quantity(j, l)
               /\ line'[j][l].cents \in 0..Amount(j, l)
    <3>1. CASE j = k
      <4>1. line'[j][l].units \in Nat /\ line'[j][l].cents \in Nat
        BY <1>3 DEF Back
      <4>2. Quantity(j, l) \in Nat /\ Amount(j, l) \in Nat
        BY AmountsAreInts DEF Lines, Rows
      <4> QED BY <1>3, <3>1, <4>1, <4>2
    <3>2. CASE j # k
      BY <1>3, <3>2 DEF BooksInv, WithinTicket
    <3> QED BY <3>1, <3>2
  <2> QED BY <2>1, <2>2 DEF WithinTicket
<1>14. NoTrace'
  <2>1. ASSUME NEW j \in Keys \ sale'
        PROVE  /\ pay'[j] = [z \in Rows |-> NoPayment]
               /\ line'[j] = NothingGiven
               /\ card'[j] = [balance |-> 0, active |-> FALSE]
               /\ reward'[j] = "none"
    <3>1. j \in Keys \ sale /\ j # k /\ j \in Cards
      BY <1>1, <1>4 DEF Cards
    <3>2. /\ pay[j] = [z \in Rows |-> NoPayment] /\ line[j] = NothingGiven
          /\ card[j] = [balance |-> 0, active |-> FALSE] /\ reward[j] = "none"
      BY <3>1 DEF BooksInv, NoTrace
    <3>3. line'[j] = line[j]
      BY <1>2, <1>4, <3>1 DEF RecordRefund, DrawerInv, Shapes, k
    <3>4. card'[j] = card[j]
      BY <1>1, <1>5, <3>1
    <3> QED BY <1>2, <1>6, <3>1, <3>2, <3>3, <3>4
  <2>2. ASSUME NEW j \in sale', PaidBy(j, "gift") > 0
        PROVE  Body[j].card \notin Keys \ sale'
    BY <1>4, <2>2 DEF BooksInv, NoTrace
  <2> QED BY <2>1, <2>2 DEF NoTrace
<1> QED BY <1>11, <1>12, <1>13, <1>14 DEF BooksInv

LEMMA CommitTakeOutBooks ==
    ASSUME DrawerInv, BooksInv, NEW c \in Calls, CommitTakeOut(c) PROVE BooksInv'
<1>1. /\ UNCHANGED <<sale, pay, line, card, stock, visit, uses, points, reward, lock>>
      /\ call' = [call EXCEPT ![c] = Idle]
  BY DEF CommitTakeOut
<1>2. CallsStand' /\ LocksHold'
  <2>1. Stands(Idle)'
    <3>1. PICK q : q = Idle
      OBVIOUS
    <3>2. Stands(q)'
      BY <1>1, <3>1, IdleStands, StandsOn
    <3>3. Idle' = Idle
      BY DEF Idle, NothingGiven
    <3> QED BY <3>1, <3>2, <3>3
  <2>2. \A d \in Calls \ {c} : \A s \in RowSteps : Spares(d, s)
    BY <1>1 DEF Spares
  <2>3. Idle.pc # "tx"
    BY DEF Idle
  <2> QED BY <1>1, <2>1, <2>2, <2>3, IdleIsCall, OthersHold
<1>3. BooksShape' /\ WithinTicket' /\ NoTrace'
  BY <1>1 DEF BooksInv, BooksShape, WithinTicket, NoTrace
<1> QED BY <1>2, <1>3 DEF BooksInv

-----------------------------------------------------------------------------
(* What happens elsewhere waits for the rows it writes.                    *)

LEMMA ElsewhereBooks ==
    ASSUME DrawerInv, BooksInv, Elsewhere PROVE BooksInv'
<1>1. /\ UNCHANGED <<points, reward, lock, call>>
      /\ UNCHANGED <<sale, pay, line, stock, uses>>
  BY DEF Elsewhere, OpenDrawer, CloseWhenLeft, CloseDrawer, SwitchCard, CancelVisit
<1>2. \/ UNCHANGED <<card, visit>>
      \/ \E b \in Cards : /\ lock[<<"card", b>>] = NoCall /\ SwitchCard(b)
                          /\ UNCHANGED visit
      \/ lock[<<"visit">>] = NoCall /\ CancelVisit /\ UNCHANGED card
  BY CallsAssumption
     DEF Elsewhere, OpenDrawer, CloseWhenLeft, CloseDrawer, SwitchCard, CancelVisit
<1>3. /\ card \in [Cards -> [balance : Nat, active : BOOLEAN]]
      /\ visit.paid \in Nat /\ NoCall \notin Calls
      /\ visit \in [paid : Int, st : {"pending", "paid", "refunded"}, live : BOOLEAN]
  BY CallsAssumption DEF BooksInv, BooksShape, DrawerInv, Shapes
<1>4. ASSUME NEW d \in Calls, NEW s \in RowSteps, Done(call[d], s)
      PROVE  Spares(d, s)
  <2> DEFINE k == call[d].key
  <2>1. /\ k \in Keys
        /\ s = "visit" => lock[<<"visit">>] = d
        /\ s = "card" => /\ lock[<<"card", Body[k].card>>] = d
                         /\ Body[k].card \in Cards
        /\ s = "sold" => lock[<<"card", k>>] = d
    BY <1>4, OtherHolds
  <2> HIDE DEF k
  <2>2. k \in Cards
    BY <2>1 DEF Cards
  <2>3. s = "card" => card'[Body[k].card] = card[Body[k].card]
    BY <1>2, <1>3, <2>1 DEF SwitchCard
  <2>4. s = "sold" => card'[k] = card[k]
    BY <1>2, <1>3, <2>1, <2>2 DEF SwitchCard
  <2>5. s = "visit" => visit' = visit
    BY <1>2, <1>3, <2>1 DEF SwitchCard
  <2> QED BY <1>1, <2>3, <2>4, <2>5 DEF Spares, k
<1>5. CallsStand'
  BY <1>1, StandsOn DEF BooksInv, CallsStand
<1>6. LocksHold'
  <2>1. ASSUME NEW d \in Calls, NEW s \in RowSteps, Done(call[d], s)
        PROVE  lock'[RowOf(d, s)'] = d /\ Passes(d, s)'
    <3>1. lock[RowOf(d, s)] = d /\ Passes(d, s)
      BY <2>1, DoneIsLocked
    <3>2. Spares(d, s)
      BY <1>4, <2>1
    <3>3. Passes(d, s)' /\ RowOf(d, s)' = RowOf(d, s)
      BY <1>1, <3>1, <3>2, PassesStay DEF Spares
    <3> QED BY <1>1, <3>1, <3>3
  <2> QED BY <1>1, <2>1 DEF LocksHold, Done
<1>7. card' \in [Cards -> [balance : Nat, active : BOOLEAN]]
      /\ \A k \in Keys \ sale : card'[k] = card[k]
  <2>1. ASSUME NEW b \in Cards, SwitchCard(b)
        PROVE  /\ card' \in [Cards -> [balance : Nat, active : BOOLEAN]]
               /\ \A k \in Keys \ sale : card'[k] = card[k]
    <3>1. card' = [card EXCEPT ![b].active = ~@] /\ b \in OldCards \cup sale
      BY <2>1 DEF SwitchCard
    <3>2. b \notin Keys \ sale
      BY <3>1, TicketsAssumption
    <3>3. PICK a \in BOOLEAN : a = ~card[b].active
      BY <1>3, <2>1
    <3>4. card' = [card EXCEPT ![b] = [card[b] EXCEPT !.active = a]]
      BY <3>1, <3>3
    <3>5. [card[b] EXCEPT !.active = a] \in [balance : Nat, active : BOOLEAN]
      BY <1>3, <2>1, <3>3
    <3> QED BY <1>3, <2>1, <3>2, <3>4, <3>5
  <2> QED BY <1>2, <1>3, <2>1
<1>8. visit'.paid = visit.paid
  BY <1>2, <1>3 DEF CancelVisit, SwitchCard
<1>9. BooksShape' /\ WithinTicket' /\ NoTrace'
  BY <1>1, <1>7, <1>8 DEF BooksInv, BooksShape, WithinTicket, NoTrace
<1> QED BY <1>5, <1>6, <1>9 DEF BooksInv

LEMMA BooksInit == Init => BooksInv
<1> SUFFICES ASSUME Init PROVE BooksInv
  OBVIOUS
<1>1. /\ Stock \in Nat /\ Points \in Nat /\ OldCards \cap Keys = {}
      /\ Face \in [OldCards -> Nat]
  BY TicketsAssumption, CallsAssumption
<1>2. BooksShape
  <2>1. card \in [Cards -> [balance : Nat, active : BOOLEAN]]
    BY <1>1 DEF Init, LedgerInit, Cards
  <2> QED BY <1>1, <2>1 DEF Init, LedgerInit, BooksShape
<1>3. WithinTicket
  <2>1. ASSUME NEW k \in Keys
        PROVE  /\ \A t \in Rows : Amount(k, t) \in Nat /\ pay[k][t].back = 0
               /\ \A l \in Lines : /\ Amount(k, l) \in Nat /\ Quantity(k, l) \in Nat
                                   /\ line[k][l].units = 0 /\ line[k][l].cents = 0
    BY <2>1, AmountsAreInts, NothingIsBack
       DEF Init, LedgerInit, NoPayment, Lines, Rows
  <2> QED BY <2>1 DEF WithinTicket
<1>4. NoTrace
  BY <1>1 DEF Init, LedgerInit, NoTrace, Cards
<1>5. CallsStand /\ LocksHold
  <2>1. \A c \in Calls : call[c] = Idle
    BY DEF Init
  <2>2. Idle.pc # "tx"
    BY DEF Idle
  <2> QED BY <2>1, <2>2, IdleStands DEF CallsStand, LocksHold, Done
<1> QED BY <1>2, <1>3, <1>4, <1>5 DEF BooksInv

LEMMA BooksNext == DrawerInv /\ BooksInv /\ [Next]_vars => BooksInv'
<1> SUFFICES ASSUME DrawerInv, BooksInv, [Next]_vars PROVE BooksInv'
  OBVIOUS
<1>1. ASSUME NEW c \in Calls, Proceed(c) PROVE BooksInv'
  BY <1>1, RedeemPointsBooks, UpdateRowBooks, JoinDrawerBooks, ReadLinesBooks,
     CountUsesBooks, CheckCapBooks, CommitSaleBooks, CommitRefundBooks,
     CommitTakeOutBooks, PointsBooks DEF Proceed
<1>2. CASE BreakDeadlock
  <2>1. PICK S \in SUBSET Calls : Circle(S) /\ \E c \in S : Rollback(c)
    BY <1>2 DEF BreakDeadlock
  <2>2. PICK c \in S : Rollback(c)
    BY <2>1
  <2>3. c \in Calls /\ call[c].pc = "tx"
    BY <2>1 DEF Circle, Waiting, Running
  <2> QED BY <2>2, <2>3, RollbackBooks
<1>3. CASE UNCHANGED vars
  <2>1. BooksShape' /\ WithinTicket' /\ NoTrace'
    BY <1>3 DEF vars, ledgerVars, BooksInv, BooksShape, WithinTicket, NoTrace
  <2>2. CallsStand'
    BY <1>3, StandsOn DEF vars, ledgerVars, BooksInv, CallsStand
  <2>3. ASSUME NEW d \in Calls, NEW s \in RowSteps, Done(call[d], s)
        PROVE  lock'[RowOf(d, s)'] = d /\ Passes(d, s)'
    <3>1. lock[RowOf(d, s)] = d /\ Passes(d, s)
      BY <2>3, DoneIsLocked
    <3>2. Passes(d, s)' /\ RowOf(d, s)' = RowOf(d, s)
      BY <1>3, <3>1, PassesStay DEF vars, ledgerVars
    <3> QED BY <1>3, <3>1, <3>2 DEF vars
  <2>4. LocksHold'
    BY <1>3, <2>3 DEF vars, LocksHold, Done
  <2> QED BY <2>1, <2>2, <2>4 DEF BooksInv
<1> QED BY <1>1, <1>2, <1>3, StartSaleBooks, StartRefundBooks,
           StartTakeOutBooks, PointsBooks, ElsewhereBooks DEF Next

(* No payment, line or unit is given back past what it was, however many   *)
(* refunds of one sale overlap: a refund commits only over the payment and *)
(* the lines it read, because it holds their rows (refundPayment,          *)
(* giveBackLines).                                                         *)
THEOREM NothingIsGivenBackTwice == Spec => []NothingGivenBackTwice
<1>1. BooksInv /\ DrawerInv => NothingGivenBackTwice
  <2> SUFFICES ASSUME BooksInv, DrawerInv PROVE NothingGivenBackTwice
    OBVIOUS
  <2>1. ASSUME NEW k \in sale
        PROVE  /\ \A t \in Rows : pay[k][t].back <= Amount(k, t)
               /\ \A l \in Lines : /\ line[k][l].units <= Quantity(k, l)
                                   /\ line[k][l].cents <= Amount(k, l)
    <3>1. k \in Keys
      BY <2>1 DEF DrawerInv, Shapes
    <3>2. /\ \A t \in Rows : Amount(k, t) \in Nat
          /\ \A l \in Lines : Amount(k, l) \in Nat /\ Quantity(k, l) \in Nat
      BY <3>1, AmountsAreInts DEF Lines, Rows
    <3> QED BY <3>1, <3>2 DEF BooksInv, WithinTicket
  <2> QED BY <2>1 DEF NothingGivenBackTwice
<1> QED BY <1>1, BooksInit, BooksNext, DrawerInit, DrawerNext, PTL DEF Spec

-----------------------------------------------------------------------------
(* Only a sale or a refund that commits moves what the books say.          *)

Untouched == /\ UNCHANGED <<sale, pay, line, stock>>
             /\ visit'.paid = visit.paid /\ visit'.st = visit.st
             /\ \A b \in Cards : card'[b].balance = card[b].balance

LEMMA WhoWrites ==
    ASSUME DrawerInv, BooksInv, [Next]_vars
    PROVE  Untouched \/ \E c \in Calls : CommitSale(c) \/ CommitRefund(c)
<1>1. CASE UNCHANGED vars
  BY <1>1 DEF vars, ledgerVars, Untouched
<1>2. ASSUME NEW c \in Calls,
             StartSale(c) \/ StartRefund(c) \/ StartTakeOut(c) \/ Crash(c)
      PROVE  Untouched
  <2>1. ASSUME NEW q, Begin(c, q) PROVE UNCHANGED ledgerVars
    BY <2>1 DEF Begin
  <2>2. StartSale(c) => UNCHANGED ledgerVars
    BY <2>1 DEF StartSale
  <2>3. StartRefund(c) => UNCHANGED ledgerVars
    BY <2>1 DEF StartRefund
  <2>4. StartTakeOut(c) => UNCHANGED ledgerVars
    BY <2>1 DEF StartTakeOut
  <2>5. UNCHANGED ledgerVars
    BY <1>2, <2>2, <2>3, <2>4 DEF Crash
  <2> QED BY <2>5 DEF ledgerVars, Untouched
<1>3. ASSUME NEW c \in Calls, Proceed(c), ~CommitSale(c), ~CommitRefund(c)
      PROVE  Untouched
  <2>1. CASE RedeemPoints(c) \/ GiveBackPoints(c) \/ AfterRefund(c)
    BY <2>1 DEF RedeemPoints, GiveBackPoints, AfterRefund, ledgerVars, Untouched
  <2>2. CASE UpdateRow(c) \/ JoinDrawer(c)
    BY <2>2 DEF UpdateRow, JoinDrawer, Rollback, ledgerVars, Untouched
  <2>3. CASE ReadLines(c) \/ CountUses(c) \/ CheckCap(c)
    BY <2>3 DEF ReadLines, CountUses, CheckCap, Rollback, ledgerVars, Untouched
  <2>4. CASE CommitTakeOut(c)
    BY <2>4 DEF CommitTakeOut, Untouched
  <2> QED BY <1>3, <2>1, <2>2, <2>3, <2>4 DEF Proceed
<1>4. CASE BreakDeadlock
  BY <1>4 DEF BreakDeadlock, Rollback, ledgerVars, Untouched
<1>5. CASE Elsewhere
  <2>1. /\ card \in [Cards -> [balance : Nat, active : BOOLEAN]]
        /\ visit \in [paid : Int, st : {"pending", "paid", "refunded"}, live : BOOLEAN]
    BY DEF BooksInv, BooksShape, DrawerInv, Shapes
  <2>2. CASE OpenDrawer \/ CloseWhenLeft
    BY <2>2 DEF OpenDrawer, CloseWhenLeft, CloseDrawer, Untouched
  <2>3. ASSUME NEW b \in Toggles, SwitchCard(b) PROVE Untouched
    <3>1. card' = [card EXCEPT ![b].active = ~card[b].active] /\ b \in Cards
      BY <2>3, CallsAssumption DEF SwitchCard
    <3>2. \A a \in Cards : card'[a].balance = card[a].balance
      BY <2>1, <3>1
    <3> QED BY <2>3, <3>2 DEF SwitchCard, Untouched
  <2>4. CASE CancelVisit
    BY <2>1, <2>4 DEF CancelVisit, Untouched
  <2> QED BY <1>5, <2>2, <2>3, <2>4 DEF Elsewhere
<1> QED BY <1>1, <1>2, <1>3, <1>4, <1>5 DEF Next

(* A payment of a ticket just sold stands for all of it; a refund takes    *)
(* its amount off one payment, and all other payments stand as they did.   *)
LEMMA SaleAdds ==
    ASSUME DrawerInv, BooksInv, NEW c \in Calls, CommitSale(c),
           NEW k, k = call[c].key
    PROVE  /\ \A t \in Rows : /\ Outstanding(k, t) = 0
                              /\ Outstanding(k, t)' = Amount(k, t)
           /\ \A j \in Keys \ {k} : \A t \in Rows :
                  Outstanding(j, t)' = Outstanding(j, t)
<1>1. k \in Keys /\ k \notin sale
  BY SaleHolds DEF CommitSale
<1>2. RecordSale(k, call[c].session)
  BY DEF CommitSale
<1>3. sale' = sale \cup {k}
  BY <1>2 DEF RecordSale
<1>4. /\ \A j \in Keys \ {k} : pay'[j] = pay[j]
      /\ pay'[k] = [t \in Rows |-> IF Amount(k, t) > 0
                                   THEN [st |-> "paid", back |-> 0] ELSE NoPayment]
  BY <1>1, <1>2 DEF RecordSale, DrawerInv, Shapes
<1>5. ASSUME NEW t \in Rows
      PROVE  Outstanding(k, t) = 0 /\ Outstanding(k, t)' = Amount(k, t)
  <2>1. pay'[k][t].back = 0
    BY <1>4 DEF NoPayment
  <2>2. Amount(k, t) \in Nat
    BY <1>1, AmountsAreInts
  <2> QED BY <1>1, <1>3, <2>1, <2>2 DEF Outstanding, Left
<1>6. ASSUME NEW j \in Keys \ {k}, NEW t \in Rows
      PROVE  Outstanding(j, t)' = Outstanding(j, t)
  BY <1>3, <1>4, <1>6 DEF Outstanding, Left
<1> QED BY <1>5, <1>6

LEMMA RefundTakes ==
    ASSUME DrawerInv, BooksInv, NEW c \in Calls, CommitRefund(c),
           NEW k, k = call[c].key, NEW t, t = call[c].row,
           NEW amount, amount = call[c].amount
    PROVE  /\ Outstanding(k, t)' = Outstanding(k, t) - amount
           /\ amount \in 1..Outstanding(k, t)
           /\ \A z \in Rows \ {t} : Outstanding(k, z)' = Outstanding(k, z)
           /\ \A j \in Keys \ {k} : \A z \in Rows :
                  Outstanding(j, z)' = Outstanding(j, z)
<1>1. /\ k \in Keys /\ k \in sale /\ t \in Rows
      /\ amount \in 1..Left(k, t)
  BY RefundHolds DEF CommitRefund
<1>2. RecordRefund(k, t, amount, call[c].give, call[c].release, call[c].session)
  BY DEF CommitRefund
<1>3. UNCHANGED sale
  BY <1>2 DEF RecordRefund
<1>4. /\ \A j \in Keys \ {k} : pay'[j] = pay[j]
      /\ \A z \in Rows \ {t} : pay'[k][z] = pay[k][z]
      /\ pay'[k][t].back = pay[k][t].back + amount
  <2>1. pay \in [Keys -> [Rows -> [st : {"none", "paid", "refunded"}, back : Int]]]
    BY DEF DrawerInv, Shapes
  <2>2. pay' = [pay EXCEPT ![k][t] =
                 [st   |-> IF amount = Left(k, t) THEN "refunded" ELSE "paid",
                  back |-> pay[k][t].back + amount]]
    BY <1>2 DEF RecordRefund
  <2> QED BY <1>1, <2>1, <2>2
<1>5. /\ Outstanding(k, t)' = Outstanding(k, t) - amount
      /\ amount \in 1..Outstanding(k, t)
  <2>1. Amount(k, t) \in Nat /\ pay[k][t].back \in 0..Amount(k, t)
    BY <1>1, AmountsAreInts DEF BooksInv, WithinTicket
  <2> QED BY <1>1, <1>3, <1>4, <2>1 DEF Outstanding, Left
<1>6. \A z \in Rows \ {t} : Outstanding(k, z)' = Outstanding(k, z)
  BY <1>3, <1>4 DEF Outstanding, Left
<1>7. ASSUME NEW j \in Keys \ {k}, NEW z \in Rows
      PROVE  Outstanding(j, z)' = Outstanding(j, z)
  BY <1>3, <1>4, <1>7 DEF Outstanding, Left
<1> QED BY <1>5, <1>6, <1>7

\* What a payment stands for is a number of cents, none before the sale.
LEMMA OutstandingIsNat ==
    ASSUME BooksInv, NEW k \in Keys, NEW t \in Rows
    PROVE  Outstanding(k, t) \in Nat
<1>1. Amount(k, t) \in Nat /\ pay[k][t].back \in 0..Amount(k, t)
  BY AmountsAreInts DEF BooksInv, WithinTicket
<1> QED BY <1>1 DEF Outstanding, Left

-----------------------------------------------------------------------------
(* Sums over the tickets: one ticket's entry changes at a time.            *)

LEMMA SumOverIs == \A F : SumOver(F) = SumIn(F, Keys)
  BY SumIsIter DEF SumOver

LEMMA SumMoves ==
    ASSUME NEW F \in [Keys -> Int], NEW G \in [Keys -> Int], NEW k \in Keys,
           \A j \in Keys \ {k} : G[j] = F[j]
    PROVE  /\ SumOver(F) \in Int
           /\ SumOver(G) = SumOver(F) + G[k] - F[k]
<1>1. SumIn(F, Keys) \in Int
  BY TicketsAssumption, SumIsInt
<1>2. SumIn(G, Keys) = SumIn(F, Keys) + G[k] - F[k]
  BY TicketsAssumption, SumChanges
<1> QED BY <1>1, <1>2, SumOverIs

LEMMA SumIsZero ==
    ASSUME NEW F, \A k \in Keys : F[k] = 0 PROVE SumOver(F) = 0
  BY TicketsAssumption, SumOfZeros, SumOverIs

\* Units of the product out of the shelf, ticket by ticket.
UnitsOut == [k \in Keys |-> IF k \in sale
                            THEN Body[k].units - line[k]["product"].units
                            ELSE 0]

LEMMA UnitsAreInts == DrawerInv => UnitsOut \in [Keys -> Int]
<1> SUFFICES ASSUME DrawerInv PROVE UnitsOut \in [Keys -> Int]
  OBVIOUS
<1>1. ASSUME NEW k \in Keys
      PROVE  Body[k].units \in Nat /\ line[k]["product"].units \in Int
  BY AmountsAreInts, TicketsAssumption DEF DrawerInv, Shapes, Returned, Lines, Ticket
<1> QED BY <1>1 DEF UnitsOut

LEMMA StockInit == Init => StockAddsUp
<1> SUFFICES ASSUME Init PROVE StockAddsUp
  OBVIOUS
<1>1. sale = {} /\ stock = Stock /\ Stock \in Nat
  BY TicketsAssumption DEF Init, LedgerInit
<1>2. SumOver(UnitsOut) = 0
  BY <1>1, SumIsZero DEF UnitsOut
<1> QED BY <1>1, <1>2 DEF StockAddsUp, UnitsOut

LEMMA StockNext ==
    DrawerInv /\ BooksInv /\ DrawerInv' /\ BooksInv' /\ StockAddsUp /\ [Next]_vars
        => StockAddsUp'
<1> SUFFICES ASSUME DrawerInv, BooksInv, DrawerInv', BooksInv', StockAddsUp, [Next]_vars
             PROVE  StockAddsUp'
  OBVIOUS
<1>1. /\ stock = Stock - SumOver(UnitsOut) /\ stock' \in Nat
      /\ UnitsOut \in [Keys -> Int] /\ UnitsOut' \in [Keys -> Int]
      /\ Stock \in Nat
  <2>1. UnitsOut \in [Keys -> Int]
    BY UnitsAreInts
  <2>2. (UnitsOut \in [Keys -> Int])'
    BY UnitsAreInts, PTL
  <2>3. stock = Stock - SumOver(UnitsOut)
    BY DEF StockAddsUp, UnitsOut
  <2> QED BY <2>1, <2>2, <2>3, TicketsAssumption DEF BooksInv, BooksShape
<1>2. SUFFICES stock' = Stock - SumOver(UnitsOut')
  BY <1>1, <1>2 DEF StockAddsUp, UnitsOut
<1>3. CASE Untouched
  <2>1. UnitsOut' = UnitsOut /\ stock' = stock
    BY <1>3 DEF Untouched, UnitsOut
  <2> QED BY <1>1, <2>1
<1>4. ASSUME NEW c \in Calls, CommitSale(c) PROVE stock' = Stock - SumOver(UnitsOut')
  <2>1. PICK k : k = call[c].key
    OBVIOUS
  <2>2. k \in Keys /\ k \notin sale /\ RecordSale(k, call[c].session)
    BY <1>4, <2>1, SaleHolds DEF CommitSale
  <2>3. /\ sale' = sale \cup {k} /\ UNCHANGED line
        /\ stock' = stock - Body[k].units
    BY <2>2 DEF RecordSale
  <2>4. line[k]["product"].units = 0
    BY <2>2 DEF BooksInv, NoTrace, NothingGiven, Lines
  <2>5. /\ UnitsOut[k] = 0 /\ UnitsOut'[k] = Body[k].units
        /\ \A j \in Keys \ {k} : UnitsOut'[j] = UnitsOut[j]
        /\ Body[k].units \in Nat
    BY <2>2, <2>3, <2>4, TicketsAssumption DEF UnitsOut, Ticket
  <2>6. /\ SumOver(UnitsOut) \in Int
        /\ SumOver(UnitsOut') = SumOver(UnitsOut) + UnitsOut'[k] - UnitsOut[k]
    BY <1>1, <2>2, <2>5, SumMoves
  <2> QED BY <1>1, <2>3, <2>5, <2>6
<1>5. ASSUME NEW c \in Calls, CommitRefund(c) PROVE stock' = Stock - SumOver(UnitsOut')
  <2>1. PICK k : k = call[c].key
    OBVIOUS
  <2>2. PICK n : n = call[c].give["product"].units
    OBVIOUS
  <2>3. k \in Keys /\ k \in sale
    BY <1>5, <2>1, RefundHolds DEF CommitRefund
  <2>4. /\ stock' = stock + n /\ n \in Nat
        /\ line'[k]["product"].units = line[k]["product"].units + n
        /\ UNCHANGED sale
    <3>1. /\ Committing(c, "refund")
          /\ RecordRefund(k, call[c].row, call[c].amount, call[c].give,
                          call[c].release, call[c].session)
      BY <1>5, <2>1 DEF CommitRefund
    <3>2. "product" \in Lines
      BY DEF Lines
    <3>3. /\ stock' = stock + call[c].give["product"].units
          /\ call[c].give["product"].units \in Nat
          /\ \A l \in Lines : line'[call[c].key][l].units
                  = line[call[c].key][l].units + call[c].give[l].units
      BY <2>1, <3>1, LinesWritten
    <3> QED BY <2>1, <2>2, <3>1, <3>2, <3>3 DEF RecordRefund
  <2>5. \A j \in Keys \ {k} : line'[j]["product"] = line[j]["product"]
    <3>1. RecordRefund(k, call[c].row, call[c].amount, call[c].give,
                       call[c].release, call[c].session)
      BY <1>5, <2>1 DEF CommitRefund
    <3> QED BY <3>1 DEF RecordRefund, DrawerInv, Shapes
  <2>6. Body[k].units \in Nat /\ line[k]["product"].units \in Int
    BY <2>3, TicketsAssumption DEF DrawerInv, Shapes, Returned, Lines, Ticket
  <2>7. /\ UnitsOut'[k] = UnitsOut[k] - n
        /\ \A j \in Keys \ {k} : UnitsOut'[j] = UnitsOut[j]
    BY <2>3, <2>4, <2>5, <2>6 DEF UnitsOut
  <2>8. /\ SumOver(UnitsOut) \in Int /\ UnitsOut[k] \in Int
        /\ SumOver(UnitsOut') = SumOver(UnitsOut) + UnitsOut'[k] - UnitsOut[k]
    BY <1>1, <2>3, <2>7, SumMoves
  <2> QED BY <1>1, <2>4, <2>7, <2>8
<1> QED BY <1>3, <1>4, <1>5, WhoWrites

(* The shelf holds the units no sale has taken, or that came back: a unit  *)
(* is taken over the locked row, and returned by the one refund that       *)
(* writes its line.                                                        *)
THEOREM StockIsKept == Spec => []StockAddsUp
  BY BooksInit, BooksNext, DrawerInit, DrawerNext, StockInit, StockNext, PTL DEF Spec

-----------------------------------------------------------------------------
\* What each ticket pays of the visit, by money or by a reward.
VisitParts == [k \in Keys |-> IF k \in sale
                              THEN Outstanding(k, "visit") + Body[k].off
                              ELSE 0]

LEMMA VisitPartsAreNats == BooksInv => VisitParts \in [Keys -> Nat]
<1> SUFFICES ASSUME BooksInv PROVE VisitParts \in [Keys -> Nat]
  OBVIOUS
<1>1. ASSUME NEW k \in Keys
      PROVE  Body[k].off \in Nat /\ Outstanding(k, "visit") \in Nat
  BY OutstandingIsNat, TicketsAssumption DEF Rows, Ticket
<1> QED BY <1>1 DEF VisitParts

LEMMA VisitInit == Init => VisitAddsUp
<1> SUFFICES ASSUME Init PROVE VisitAddsUp
  OBVIOUS
<1>1. sale = {} /\ visit.paid = 0 /\ VisitPrice \in Nat
  BY TicketsAssumption DEF Init, LedgerInit
<1>2. SumOver(VisitParts) = 0
  BY <1>1, SumIsZero DEF VisitParts
<1> QED BY <1>1, <1>2 DEF VisitAddsUp, VisitParts

LEMMA VisitNext ==
    DrawerInv /\ BooksInv /\ BooksInv' /\ VisitAddsUp /\ [Next]_vars => VisitAddsUp'
<1> SUFFICES ASSUME DrawerInv, BooksInv, BooksInv', VisitAddsUp, [Next]_vars
             PROVE  VisitAddsUp'
  OBVIOUS
<1>1. /\ visit.paid = SumOver(VisitParts) /\ visit.paid <= VisitPrice
      /\ visit.paid \in Nat /\ VisitPrice \in Nat
      /\ VisitParts \in [Keys -> Nat] /\ VisitParts' \in [Keys -> Nat]
      /\ VisitParts \in [Keys -> Int] /\ VisitParts' \in [Keys -> Int]
  <2>1. VisitParts \in [Keys -> Nat]
    BY VisitPartsAreNats
  <2>2. (VisitParts \in [Keys -> Nat])'
    BY VisitPartsAreNats, PTL
  <2>3. visit.paid = SumOver(VisitParts) /\ visit.paid <= VisitPrice
    BY DEF VisitAddsUp, VisitParts
  <2>4. VisitParts \in [Keys -> Int] /\ VisitParts' \in [Keys -> Int]
    BY <2>1, <2>2
  <2> QED BY <2>1, <2>2, <2>3, <2>4, TicketsAssumption DEF BooksInv, BooksShape
<1>2. SUFFICES visit'.paid = SumOver(VisitParts') /\ visit'.paid <= VisitPrice
  BY <1>2 DEF VisitAddsUp, VisitParts
<1>3. visit \in [paid : Int, st : {"pending", "paid", "refunded"}, live : BOOLEAN]
  BY DEF DrawerInv, Shapes
<1>4. CASE Untouched
  <2>1. VisitParts' = VisitParts
    BY <1>4 DEF Untouched, VisitParts, Outstanding, Left
  <2> QED BY <1>1, <1>4, <2>1 DEF Untouched
<1>5. ASSUME NEW c \in Calls, CommitSale(c)
      PROVE  visit'.paid = SumOver(VisitParts') /\ visit'.paid <= VisitPrice
  <2>1. PICK k : k = call[c].key
    OBVIOUS
  <2>2. /\ k \in Keys /\ k \notin sale /\ RecordSale(k, call[c].session)
        /\ PaysVisit(k) => VisitOwes(k)
    BY <1>5, <2>1, SaleHolds DEF CommitSale
  <2>3. /\ sale' = sale \cup {k}
        /\ visit' = IF PaysVisit(k)
                    THEN [visit EXCEPT !.paid = VisitPrice, !.st = "paid"] ELSE visit
    BY <2>2 DEF RecordSale
  <2>4. /\ Outstanding(k, "visit")' = Amount(k, "visit")
        /\ \A j \in Keys \ {k} : Outstanding(j, "visit")' = Outstanding(j, "visit")
    BY <1>5, <2>1, SaleAdds DEF Rows
  <2>5. Amount(k, "visit") \in Nat /\ Body[k].off \in Nat
    BY <2>2, AmountsAreInts, TicketsAssumption DEF Rows, Ticket
  <2>6. /\ VisitParts[k] = 0 /\ VisitParts'[k] = Amount(k, "visit") + Body[k].off
        /\ \A j \in Keys \ {k} : VisitParts'[j] = VisitParts[j]
    BY <2>2, <2>3, <2>4 DEF VisitParts
  <2>7. /\ SumOver(VisitParts) \in Int
        /\ SumOver(VisitParts') = SumOver(VisitParts) + VisitParts'[k] - VisitParts[k]
    BY <1>1, <2>2, <2>6, SumMoves
  <2>8. CASE PaysVisit(k)
    <3>1. visit'.paid = VisitPrice
      BY <1>3, <2>3, <2>8
    <3>2. visit.paid + Amount(k, "visit") + Body[k].off = VisitPrice
      BY <2>2, <2>8 DEF VisitOwes
    <3> QED BY <1>1, <2>5, <2>6, <2>7, <3>1, <3>2
  <2>9. CASE ~PaysVisit(k)
    <3>1. Amount(k, "visit") + Body[k].off = 0
      BY <2>5, <2>9 DEF PaysVisit
    <3> QED BY <1>1, <2>3, <2>6, <2>7, <2>9, <3>1
  <2> QED BY <2>8, <2>9
<1>6. ASSUME NEW c \in Calls, CommitRefund(c)
      PROVE  visit'.paid = SumOver(VisitParts') /\ visit'.paid <= VisitPrice
  <2>1. PICK k, t, amount : /\ k = call[c].key /\ t = call[c].row
                            /\ amount = call[c].amount
    OBVIOUS
  <2>2. k \in Keys /\ k \in sale /\ t \in Rows
    BY <1>6, <2>1, RefundHolds DEF CommitRefund
  <2>3. /\ Outstanding(k, t)' = Outstanding(k, t) - amount
        /\ amount \in 1..Outstanding(k, t)
        /\ \A z \in Rows \ {t} : Outstanding(k, z)' = Outstanding(k, z)
        /\ \A j \in Keys \ {k} : \A z \in Rows :
               Outstanding(j, z)' = Outstanding(j, z)
    BY <1>6, <2>1, RefundTakes
  <2>4. /\ UNCHANGED sale
        /\ visit' = IF t = "visit"
                    THEN LessPaid(IF visit.paid >= amount THEN visit.paid - amount
                                                          ELSE 0)
                    ELSE visit
    BY <1>6, <2>1 DEF CommitRefund, RecordRefund
  <2>5. Outstanding(k, "visit") \in Nat /\ Body[k].off \in Nat
    BY <2>2, OutstandingIsNat, TicketsAssumption DEF Rows, Ticket
  <2>6. \A j \in Keys \ {k} : VisitParts'[j] = VisitParts[j]
    BY <2>3, <2>4 DEF VisitParts, Rows
  <2>7. /\ SumOver(VisitParts) \in Int
        /\ SumOver(VisitParts') = SumOver(VisitParts) + VisitParts'[k] - VisitParts[k]
    BY <1>1, <2>2, <2>6, SumMoves
  <2>8. VisitParts[k] = Outstanding(k, "visit") + Body[k].off
    BY <2>2 DEF VisitParts
  <2>9. CASE t = "visit"
    <3>1. VisitParts'[k] = Outstanding(k, "visit") - amount + Body[k].off
      BY <2>2, <2>3, <2>4, <2>9 DEF VisitParts
    <3>2. VisitParts[k] <= SumOver(VisitParts)
      BY <1>1, <2>2, SumBounds, SumOverIs, TicketsAssumption
    <3>3. amount \in Nat /\ visit.paid >= amount
      BY <1>1, <2>3, <2>5, <2>8, <2>9, <3>2
    <3>4. visit'.paid = visit.paid - amount
      <4>1. PICK p \in Nat : p = visit.paid - amount
        BY <1>1, <3>3
      <4>2. visit' = LessPaid(p)
        BY <2>4, <2>9, <3>3, <4>1
      <4> QED BY <1>3, <4>1, <4>2 DEF LessPaid
    <3> QED BY <1>1, <2>5, <2>7, <2>8, <3>1, <3>3, <3>4
  <2>10. CASE t # "visit"
    <3>1. VisitParts'[k] = VisitParts[k]
      BY <2>2, <2>3, <2>4, <2>10 DEF VisitParts, Rows
    <3> QED BY <1>1, <2>4, <2>5, <2>7, <2>8, <2>10, <3>1
  <2> QED BY <2>9, <2>10
<1> QED BY <1>4, <1>5, <1>6, WhoWrites

(* amountPaid of the visit is what its payments and the rewards spent on   *)
(* it come to, and never more than it costs: a sale charges it over the    *)
(* very amount its ticket was priced for (recordAppointmentPayment).       *)
THEOREM VisitIsChargedOnce == Spec => []VisitAddsUp
  BY BooksInit, BooksNext, DrawerInit, DrawerNext, VisitInit, VisitNext, PTL DEF Spec

-----------------------------------------------------------------------------
(* Gift cards: what was put on a card, and what each ticket's payments     *)
(* have taken from it.                                                     *)
TakenFrom(b) == [k \in Keys |-> IF Body[k].card = b
                                THEN OutstandingBy(k, "gift") ELSE 0]

PutOn(b) == IF b \in OldCards THEN Face[b] ELSE Outstanding(b, "gift")

CardIsRight(b) == card[b].balance = PutOn(b) - SumOver(TakenFrom(b))

LEMMA ByGiftIs ==
    ASSUME NEW k
    PROVE  /\ OutstandingBy(k, "gift") =
                (IF Method(k, "visit") = "gift" THEN Outstanding(k, "visit") ELSE 0)
                + (IF Method(k, "service") = "gift" THEN Outstanding(k, "service") ELSE 0)
                + (IF Method(k, "product") = "gift" THEN Outstanding(k, "product") ELSE 0)
                + (IF Method(k, "gift") = "gift" THEN Outstanding(k, "gift") ELSE 0)
           /\ PaidBy(k, "gift") =
                (IF Method(k, "visit") = "gift" THEN Amount(k, "visit") ELSE 0)
                + (IF Method(k, "service") = "gift" THEN Amount(k, "service") ELSE 0)
                + (IF Method(k, "product") = "gift" THEN Amount(k, "product") ELSE 0)
                + (IF Method(k, "gift") = "gift" THEN Amount(k, "gift") ELSE 0)
  BY DEF OutstandingBy, PaidBy, Total, Rows

CardsCount == \A b \in Cards : TakenFrom(b) \in [Keys -> Int] /\ PutOn(b) \in Int

LEMMA TakenAreInts == BooksInv => CardsCount
<1> SUFFICES ASSUME BooksInv, NEW b \in Cards
             PROVE  TakenFrom(b) \in [Keys -> Int] /\ PutOn(b) \in Int
  BY DEF CardsCount
<1>1. ASSUME NEW k \in Keys PROVE OutstandingBy(k, "gift") \in Int
  <2>1. \A t \in Rows : Outstanding(k, t) \in Int
    BY OutstandingIsNat
  <2> QED BY <2>1, ByGiftIs DEF Rows
<1>2. PutOn(b) \in Int
  BY OutstandingIsNat, TicketsAssumption DEF PutOn, Cards, Rows
<1> QED BY <1>1, <1>2 DEF TakenFrom

LEMMA CardInit == Init => \A b \in Cards : CardIsRight(b)
<1> SUFFICES ASSUME Init, NEW b \in Cards PROVE CardIsRight(b)
  OBVIOUS
<1>1. sale = {} /\ card[b].balance = IF b \in OldCards THEN Face[b] ELSE 0
  BY DEF Init, LedgerInit
<1>2. \A k, t : Outstanding(k, t) = 0
  BY <1>1 DEF Outstanding
<1>3. \A k \in Keys : OutstandingBy(k, "gift") = 0
  BY <1>2, ByGiftIs
<1>4. SumOver(TakenFrom(b)) = 0
  BY <1>3, SumIsZero DEF TakenFrom
<1>5. b \in OldCards => Face[b] \in Nat
  BY TicketsAssumption
<1> QED BY <1>1, <1>2, <1>4, <1>5 DEF CardIsRight, PutOn

LEMMA CardUntouched ==
    ASSUME Untouched, NEW b \in Cards, CardIsRight(b) PROVE CardIsRight(b)'
<1>1. \A k, t : Outstanding(k, t)' = Outstanding(k, t)
  BY DEF Untouched, Outstanding, Left
<1>2. \A k : OutstandingBy(k, "gift")' = OutstandingBy(k, "gift")
  BY DEF Untouched, OutstandingBy, Outstanding, Left
<1>3. TakenFrom(b)' = TakenFrom(b) /\ PutOn(b)' = PutOn(b)
  BY <1>1, <1>2 DEF TakenFrom, PutOn
<1>4. card'[b].balance = card[b].balance
  BY DEF Untouched
<1> QED BY <1>3, <1>4 DEF CardIsRight

LEMMA CardAtSale ==
    ASSUME DrawerInv, BooksInv, BooksInv', NEW c \in Calls, CommitSale(c),
           NEW b \in Cards, CardIsRight(b)
    PROVE  CardIsRight(b)'
<1>1. PICK k : k = call[c].key
  OBVIOUS
<1>2. /\ k \in Keys /\ k \notin sale /\ RecordSale(k, call[c].session)
      /\ PaidBy(k, "gift") > 0 => CardPays(k) /\ Body[k].card \in Cards \ {k}
  BY <1>1, SaleHolds DEF CommitSale
<1>3. card'[b] = IF b = k /\ Amount(k, "gift") > 0
                 THEN [balance |-> Amount(k, "gift"), active |-> TRUE]
                 ELSE IF b = Body[k].card
                 THEN [card[b] EXCEPT !.balance = @ - PaidBy(k, "gift")]
                 ELSE card[b]
  BY <1>2 DEF RecordSale
<1>4. /\ \A t \in Rows : /\ Outstanding(k, t) = 0
                         /\ Outstanding(k, t)' = Amount(k, t)
      /\ \A j \in Keys \ {k} : \A t \in Rows :
             Outstanding(j, t)' = Outstanding(j, t)
  BY <1>1, SaleAdds
<1>5. /\ OutstandingBy(k, "gift") = 0
      /\ OutstandingBy(k, "gift")' = PaidBy(k, "gift")
  <2>1. OutstandingBy(k, "gift") = 0
    BY <1>4, ByGiftIs DEF Rows
  <2>2. OutstandingBy(k, "gift")' = PaidBy(k, "gift")
    <3>1. \A t \in Rows : Outstanding(k, t)' = Amount(k, t)
      BY <1>4
    <3> QED BY <3>1 DEF OutstandingBy, PaidBy, Rows
  <2> QED BY <2>1, <2>2
<1>6. ASSUME NEW j \in Keys \ {k}
      PROVE  OutstandingBy(j, "gift")' = OutstandingBy(j, "gift")
  BY <1>4 DEF OutstandingBy, Rows
<1>7. b = Body[k].card => PaidBy(k, "gift") > 0 /\ b # k
  BY <1>2, GiftIsPaidByGift, PaymentAssumption, TicketsAssumption
<1>8. /\ TakenFrom(b)[k] = 0
      /\ TakenFrom(b)'[k] = IF Body[k].card = b THEN PaidBy(k, "gift") ELSE 0
      /\ \A j \in Keys \ {k} : TakenFrom(b)'[j] = TakenFrom(b)[j]
  BY <1>2, <1>5, <1>6 DEF TakenFrom
<1>9. /\ SumOver(TakenFrom(b)) \in Int
      /\ SumOver(TakenFrom(b)') = SumOver(TakenFrom(b)) + TakenFrom(b)'[k] - TakenFrom(b)[k]
  <2>1. TakenFrom(b) \in [Keys -> Int]
    BY TakenAreInts DEF CardsCount
  <2>2. TakenFrom(b)' \in [Keys -> Int]
    <3>1. CardsCount'
      BY TakenAreInts, PTL
    <3> QED BY <3>1 DEF CardsCount
  <2> QED BY <1>2, <1>8, <2>1, <2>2, SumMoves
<1>10. PutOn(b) \in Int /\ PaidBy(k, "gift") \in Nat /\ Amount(k, "gift") \in Nat
       /\ card[b] \in [balance : Nat, active : BOOLEAN]
  BY <1>2, TakenAreInts, GiftIsPaidByGift, AmountsAreInts
     DEF CardsCount, Rows, BooksInv, BooksShape
<1>11. CASE b = k
  <2>1. b \notin OldCards /\ card[b].balance = 0
    BY <1>2, <1>11, TicketsAssumption DEF BooksInv, NoTrace
  <2>2. PutOn(b) = 0 /\ PutOn(b)' = Amount(k, "gift")
    BY <1>4, <1>11, <2>1 DEF PutOn, Rows
  <2>3. card'[b].balance = Amount(k, "gift")
    BY <1>3, <1>7, <1>10, <1>11, <2>1
  <2> QED BY <1>7, <1>8, <1>9, <1>10, <1>11, <2>1, <2>2, <2>3 DEF CardIsRight
<1>12. CASE b # k
  <2>1. PutOn(b)' = PutOn(b)
    BY <1>4, <1>12 DEF PutOn, Rows, Cards
  <2>2. card'[b].balance = card[b].balance
                           - (IF b = Body[k].card THEN PaidBy(k, "gift") ELSE 0)
    BY <1>3, <1>10, <1>12
  <2> QED BY <1>8, <1>9, <1>10, <2>1, <2>2 DEF CardIsRight
<1> QED BY <1>11, <1>12

LEMMA CardAtRefund ==
    ASSUME DrawerInv, BooksInv, BooksInv', NEW c \in Calls, CommitRefund(c),
           NEW b \in Cards, CardIsRight(b)
    PROVE  CardIsRight(b)'
<1>1. PICK k, t, amount : /\ k = call[c].key /\ t = call[c].row
                          /\ amount = call[c].amount
  OBVIOUS
<1>2. k \in Keys /\ k \in sale /\ t \in Rows
  BY <1>1, RefundHolds DEF CommitRefund
<1>3. Method(k, t) = "gift" => /\ Body[k].card \in Cards \ {k}
                               /\ t # "gift"
  BY <1>1, RefundHolds DEF CommitRefund
<1>4. card'[b] = IF t = "gift" /\ b = k
                 THEN [card[b] EXCEPT !.balance = @ - amount]
                 ELSE IF Method(k, t) = "gift" /\ b = Body[k].card
                 THEN [balance |-> card[b].balance + amount, active |-> TRUE]
                 ELSE card[b]
  BY <1>1 DEF CommitRefund, RecordRefund
<1>5. /\ Outstanding(k, t)' = Outstanding(k, t) - amount
      /\ amount \in 1..Outstanding(k, t)
      /\ \A z \in Rows \ {t} : Outstanding(k, z)' = Outstanding(k, z)
      /\ \A j \in Keys \ {k} : \A z \in Rows :
             Outstanding(j, z)' = Outstanding(j, z)
  BY <1>1, RefundTakes
<1>6. /\ \A z \in Rows : Outstanding(k, z) \in Nat
      /\ amount \in Int
  BY <1>2, <1>5, OutstandingIsNat
<1>7. OutstandingBy(k, "gift")' = OutstandingBy(k, "gift")
                                  - (IF Method(k, t) = "gift" THEN amount ELSE 0)
  <2>1. PICK o \in [Rows -> Int] : \A z \in Rows : o[z] = Outstanding(k, z)
    <3>1. [z \in Rows |-> Outstanding(k, z)] \in [Rows -> Int]
      BY <1>6
    <3> QED BY <3>1
  <2>2. PICK n : n = [z \in Rows |-> IF z = t THEN o[z] - amount ELSE o[z]]
    OBVIOUS
  <2>3. \A z \in Rows : Outstanding(k, z)' = n[z]
    BY <1>2, <1>5, <2>1, <2>2
  <2>4. OutstandingBy(k, "gift") =
            Total([z \in Rows |-> IF Method(k, z) = "gift" THEN o[z] ELSE 0])
    BY <2>1 DEF OutstandingBy
  <2>5. OutstandingBy(k, "gift")' =
            Total([z \in Rows |-> IF Method(k, z) = "gift" THEN n[z] ELSE 0])
    BY <2>3 DEF OutstandingBy
  <2> HIDE <1>5
  <2> QED BY <1>2, <1>6, <2>1, <2>2, <2>4, <2>5 DEF Total, Rows
<1>8. ASSUME NEW j \in Keys \ {k}
      PROVE  OutstandingBy(j, "gift")' = OutstandingBy(j, "gift")
  BY <1>5 DEF OutstandingBy, Rows
<1>9. /\ TakenFrom(b) \in [Keys -> Int] /\ TakenFrom(b)' \in [Keys -> Int]
      /\ PutOn(b) \in Int
      /\ card[b] \in [balance : Nat, active : BOOLEAN]
  <2>1. CardsCount /\ CardsCount'
    BY TakenAreInts, PTL
  <2> QED BY <2>1 DEF CardsCount, BooksInv, BooksShape
<1>10. /\ TakenFrom(b)'[k] = TakenFrom(b)[k]
              - (IF Body[k].card = b /\ Method(k, t) = "gift" THEN amount ELSE 0)
       /\ \A j \in Keys \ {k} : TakenFrom(b)'[j] = TakenFrom(b)[j]
  <2>1. OutstandingBy(k, "gift") \in Int
    BY <1>6, ByGiftIs DEF Rows
  <2> QED BY <1>2, <1>6, <1>7, <1>8, <2>1 DEF TakenFrom
<1>11. /\ SumOver(TakenFrom(b)) \in Int
       /\ SumOver(TakenFrom(b)') = SumOver(TakenFrom(b)) + TakenFrom(b)'[k] - TakenFrom(b)[k]
       /\ TakenFrom(b)[k] \in Int
  BY <1>2, <1>9, <1>10, SumMoves
<1>12. PutOn(b)' = PutOn(b) - (IF t = "gift" /\ b = k THEN amount ELSE 0)
  <2>1. k \notin OldCards /\ Outstanding(k, "gift") \in Int
    BY <1>2, <1>6, TicketsAssumption DEF Rows
  <2>2. CASE b \in OldCards
    BY <1>9, <2>1, <2>2 DEF PutOn
  <2>3. CASE b \notin OldCards /\ b = k
    BY <1>2, <1>5, <2>1, <2>3 DEF PutOn, Rows
  <2>4. CASE b \notin OldCards /\ b # k
    BY <1>5, <1>9, <2>4 DEF PutOn, Rows, Cards
  <2> QED BY <2>2, <2>3, <2>4
<1>13. card'[b].balance = card[b].balance
           - (IF t = "gift" /\ b = k THEN amount ELSE 0)
           + (IF Method(k, t) = "gift" /\ b = Body[k].card THEN amount ELSE 0)
  <2>1. CASE t = "gift" /\ b = k
    BY <1>3, <1>4, <1>6, <1>9, <2>1
  <2>2. CASE ~(t = "gift" /\ b = k) /\ Method(k, t) = "gift" /\ b = Body[k].card
    BY <1>4, <1>6, <1>9, <2>2
  <2>3. CASE ~(t = "gift" /\ b = k) /\ ~(Method(k, t) = "gift" /\ b = Body[k].card)
    BY <1>4, <1>6, <1>9, <2>3
  <2> QED BY <2>1, <2>2, <2>3
<1> QED BY <1>6, <1>9, <1>10, <1>11, <1>12, <1>13 DEF CardIsRight

CardsAreRight == \A b \in Cards : CardIsRight(b)

LEMMA CardNext ==
    DrawerInv /\ BooksInv /\ BooksInv' /\ CardsAreRight /\ [Next]_vars
        => CardsAreRight'
<1> SUFFICES ASSUME DrawerInv, BooksInv, BooksInv', CardsAreRight, [Next]_vars,
                    NEW b \in Cards
             PROVE  CardIsRight(b)'
  BY DEF CardsAreRight
<1>1. CardIsRight(b)
  BY DEF CardsAreRight
<1> QED BY <1>1, CardUntouched, CardAtSale, CardAtRefund, WhoWrites

(* A gift card holds what was put on it less what payments took from it    *)
(* and refunds have not given back, however sales and refunds of one card  *)
(* overlap: each writes the balance over the locked row (redeemInTx,       *)
(* refundToCard).                                                          *)
THEOREM CardsAreKept == Spec => []CardAddsUp
<1>1. Init => CardsAreRight
  BY CardInit DEF CardsAreRight
<1>2. CardsAreRight /\ BooksInv => CardAddsUp
  <2> SUFFICES ASSUME CardsAreRight, BooksInv, NEW b \in Cards
               PROVE  /\ card[b].balance = PutOn(b) - SumOver(TakenFrom(b))
                      /\ card[b].balance >= 0
    BY DEF CardAddsUp, PutOn, TakenFrom
  <2>1. card[b].balance \in Nat
    BY DEF BooksInv, BooksShape
  <2> QED BY <2>1 DEF CardsAreRight, CardIsRight
<1> QED BY <1>1, <1>2, BooksInit, BooksNext, DrawerInit, DrawerNext, CardNext, PTL
        DEF Spec

-----------------------------------------------------------------------------
(* The calls' records, the locks and the books stay well formed, whatever  *)
(* the calls do to each other.                                             *)
THEOREM TypesHold == Spec => []TypeOK
<1>1. DrawerInv /\ BooksInv => TypeOK
  <2> SUFFICES ASSUME DrawerInv, BooksInv PROVE TypeOK
    OBVIOUS
  <2>1. pay \in [Keys -> [Rows -> [st : {"none", "paid", "refunded"}, back : Nat]]]
    <3>1. pay \in [Keys -> [Rows -> [st : {"none", "paid", "refunded"}, back : Int]]]
      BY DEF DrawerInv, Shapes
    <3>2. ASSUME NEW k \in Keys, NEW t \in Rows
          PROVE  pay[k][t] \in [st : {"none", "paid", "refunded"}, back : Nat]
      <4>1. pay[k][t] \in [st : {"none", "paid", "refunded"}, back : Int]
        BY <3>1
      <4>2. pay[k][t].back \in Nat
        BY AmountsAreInts DEF BooksInv, WithinTicket
      <4> QED BY <4>1, <4>2
    <3> QED BY <3>1, <3>2
  <2>2. line \in [Keys -> [Lines -> Back]]
    <3>1. line \in [Keys -> [Lines -> Returned]]
      BY DEF DrawerInv, Shapes
    <3>2. ASSUME NEW k \in Keys, NEW l \in Lines PROVE line[k][l] \in Back
      <4>1. line[k][l] \in Returned
        BY <3>1
      <4>2. line[k][l].units \in Nat /\ line[k][l].cents \in Nat
        BY AmountsAreInts DEF BooksInv, WithinTicket, Lines, Rows
      <4> QED BY <4>1, <4>2 DEF Returned, Back
    <3> QED BY <3>1, <3>2
  <2>3. visit \in [paid : Nat, st : {"pending", "paid", "refunded"}, live : BOOLEAN]
    <3>1. /\ visit \in [paid : Int, st : {"pending", "paid", "refunded"}, live : BOOLEAN]
          /\ visit.paid \in Nat
      BY DEF DrawerInv, Shapes, BooksInv, BooksShape
    <3> QED BY <3>1
  <2>4. call \in [Calls -> Call]
    <3>1. call \in [Calls -> AnyCall]
      BY DEF DrawerInv, Shapes
    <3>2. ASSUME NEW c \in Calls PROVE call[c] \in Call
      <4>1. PICK q \in AnyCall : q = call[c] /\ Stands(q)
        BY <3>1, <3>2 DEF BooksInv, CallsStand
      <4>2. /\ q.amount \in Nat /\ q.units \in Nat /\ q.seen \in Nat
            /\ q.seenLine \in [Lines -> Back] /\ q.give \in [Lines -> Back]
        BY <4>1 DEF Stands
      <4>3. q \in Call
        BY <4>1, <4>2 DEF AnyCall, Call, StepLists
      <4> QED BY <4>1, <4>3
    <3> QED BY <3>1, <3>2
  <2> QED BY <2>1, <2>2, <2>3, <2>4
          DEF TypeOK, DrawerInv, Shapes, BooksInv, BooksShape
<1> QED BY <1>1, BooksInit, BooksNext, DrawerInit, DrawerNext, PTL DEF Spec

(* A visit cancelled while the till was charging it is not charged: only a *)
(* sale that commits raises what it paid, and that sale holds the visit's  *)
(* row since it found it live (recordAppointmentPayment).                  *)
THEOREM CancelledIsNotCharged == Spec => CancelledVisitNotCharged
<1>1. ASSUME DrawerInv, BooksInv, [Next]_vars
      PROVE  [~visit.live => visit'.paid <= visit.paid]_vars
  <2>1. SUFFICES ASSUME ~visit.live PROVE visit'.paid <= visit.paid
    BY <2>1
  <2>2. /\ visit.paid \in Nat
        /\ visit \in [paid : Int, st : {"pending", "paid", "refunded"}, live : BOOLEAN]
    BY <1>1 DEF BooksInv, BooksShape, DrawerInv, Shapes
  <2>3. CASE Untouched
    BY <2>2, <2>3 DEF Untouched
  <2>4. ASSUME NEW c \in Calls, CommitSale(c) PROVE visit'.paid <= visit.paid
    <3>1. ~PaysVisit(call[c].key)
      BY <1>1, <2>1, <2>4, SaleHolds DEF CommitSale, Chargeable
    <3>2. visit' = visit
      BY <2>4, <3>1 DEF CommitSale, RecordSale
    <3> QED BY <2>2, <3>2
  <2>5. ASSUME NEW c \in Calls, CommitRefund(c) PROVE visit'.paid <= visit.paid
    <3>1. PICK amount \in Nat : amount = call[c].amount
      BY <1>1, <2>5 DEF BooksInv, CallsStand, Stands
    <3>2. visit' = IF call[c].row = "visit"
                   THEN LessPaid(IF visit.paid >= amount THEN visit.paid - amount
                                                         ELSE 0)
                   ELSE visit
      BY <2>5, <3>1 DEF CommitRefund, RecordRefund
    <3>3. PICK p \in Nat : /\ p = IF visit.paid >= amount THEN visit.paid - amount ELSE 0
                           /\ p <= visit.paid
      BY <2>2, <3>1
    <3>4. LessPaid(p).paid = p
      BY <2>2 DEF LessPaid
    <3> QED BY <2>2, <3>2, <3>3, <3>4
  <2> QED BY <1>1, <2>3, <2>4, <2>5, WhoWrites
<1> QED BY <1>1, BooksInit, BooksNext, DrawerInit, DrawerNext, PTL
        DEF Spec, CancelledVisitNotCharged

-----------------------------------------------------------------------------
(* The client's points: those of the sales recorded with a reward and not  *)
(* given back, and those of the sales on their way.                        *)
Spent == {k \in Keys : reward[k] = "spent"}
Redeemed == {c \in Calls : call[c].redeemed}

AllPoints == points + RewardCost * (Cardinality(Spent) + Cardinality(Redeemed))

GiversRedeemed == \A c \in Calls : call[c].pc = "giveBack" => call[c].redeemed

\* No call's redemption changes.
SameRedeemed ==
    \A d \in Calls : /\ call'[d].redeemed = call[d].redeemed
                     /\ call'[d].pc = "giveBack" => call[d].redeemed

LEMMA PointsAreNats ==
    /\ RewardCost \in Nat /\ Points \in Nat
    /\ IsFiniteSet(Spent) /\ IsFiniteSet(Redeemed)
    /\ Cardinality(Spent) \in Nat /\ Cardinality(Redeemed) \in Nat
<1>1. IsFiniteSet(Spent) /\ IsFiniteSet(Redeemed)
  BY TicketsAssumption, CallsAssumption, FS_Subset DEF Spent, Redeemed
<1> QED BY <1>1, CallsAssumption, FS_CardinalityType

\* The three ways a step deals with points.
LEMMA PointsStay ==
    ASSUME UNCHANGED <<points, reward>>, SameRedeemed PROVE AllPoints' = AllPoints
  BY DEF AllPoints, SameRedeemed, Spent, Redeemed

LEMMA PointsMoveBy ==
    ASSUME NEW p \in Nat, NEW q \in Nat, NEW n \in Nat, NEW m \in Nat, NEW d \in Int,
           m = n + d, q = p - RewardCost * d
    PROVE  q + RewardCost * m = p + RewardCost * n
<1>1. RewardCost \in Nat
  BY PointsAreNats
<1>2. \A a, x, y \in Int : a * (x + y) = a * x + a * y
  OBVIOUS
<1>3. RewardCost * m = RewardCost * n + RewardCost * d
  BY <1>1, <1>2
<1>4. RewardCost * n \in Int /\ RewardCost * d \in Int
  BY <1>1
<1> QED BY <1>3, <1>4

LEMMA RollbackKeepsPoints ==
    ASSUME DrawerInv, GiversRedeemed, NEW c \in Calls, Rollback(c)
    PROVE  UNCHANGED <<points, reward>> /\ SameRedeemed
<1> DEFINE q == [call[c] EXCEPT !.pc = "giveBack", !.session = 0, !.todo = <<>>]
<1>1. /\ call' = [call EXCEPT ![c] = IF call[c].redeemed THEN q ELSE Idle]
      /\ UNCHANGED <<points, reward>>
  BY DEF Rollback
<1>2. call[c] \in AnyCall /\ call \in [Calls -> AnyCall]
  BY DEF DrawerInv, Shapes
<1>3. q.redeemed = call[c].redeemed /\ Idle.redeemed = FALSE /\ Idle.pc = "idle"
  BY <1>2 DEF AnyCall, Idle
<1>4. \A d \in Calls \ {c} : call'[d] = call[d]
  BY <1>1, <1>2
<1>5. call'[c] = IF call[c].redeemed THEN q ELSE Idle
  BY <1>1, <1>2
<1>6. call[c].redeemed \in BOOLEAN
  BY <1>2 DEF AnyCall
<1> QED BY <1>1, <1>3, <1>4, <1>5, <1>6 DEF SameRedeemed, GiversRedeemed

\* A call that goes on, or starts, with no redemption of its own.
LEMMA GoesOnWithPoints ==
    ASSUME DrawerInv, GiversRedeemed, NEW c \in Calls, NEW q,
           call' = [call EXCEPT ![c] = q],
           q.redeemed = call[c].redeemed, q.pc # "giveBack"
    PROVE  SameRedeemed
<1>1. call' = [call EXCEPT ![c] = q] /\ call \in [Calls -> AnyCall]
  BY DEF DrawerInv, Shapes
<1>2. call'[c] = q /\ \A d \in Calls \ {c} : call'[d] = call[d]
  BY <1>1
<1> QED BY <1>2 DEF SameRedeemed, GiversRedeemed

LEMMA StartKeepsPoints ==
    ASSUME DrawerInv, GiversRedeemed, NEW c \in Calls,
           StartSale(c) \/ StartRefund(c) \/ StartTakeOut(c)
    PROVE  UNCHANGED <<points, reward>> /\ SameRedeemed
<1>1. ASSUME NEW q, q.redeemed = FALSE, q.pc # "giveBack", Begin(c, q)
      PROVE  UNCHANGED <<points, reward>> /\ SameRedeemed
  <2>1. /\ call[c] = Idle /\ call' = [call EXCEPT ![c] = q]
        /\ UNCHANGED <<points, reward>>
    BY <1>1 DEF Begin
  <2>2. call[c].redeemed = FALSE
    BY <2>1 DEF Idle
  <2> QED BY <1>1, <2>1, <2>2, GoesOnWithPoints
<1>2. CASE StartSale(c)
  <2>1. PICK k \in Keys :
          Begin(c, [Idle EXCEPT
                !.pc = IF Body[k].reward THEN "points" ELSE "tx",
                !.kind = "sale", !.key = k, !.seen = visit.paid,
                !.todo = SaleSteps(k)])
    BY <1>2 DEF StartSale
  <2>2. PICK q : q = [Idle EXCEPT
                !.pc = IF Body[k].reward THEN "points" ELSE "tx",
                !.kind = "sale", !.key = k, !.seen = visit.paid,
                !.todo = SaleSteps(k)]
    OBVIOUS
  <2>3. q.redeemed = FALSE /\ q.pc # "giveBack"
    BY <2>2 DEF Idle
  <2> QED BY <1>1, <2>1, <2>2, <2>3
<1>3. CASE StartRefund(c)
  <2>1. PICK k, t, amount, named, n : Begin(c, RefundCall(k, t, amount, named, n))
    BY <1>3 DEF StartRefund
  <2>2. PICK q : q = RefundCall(k, t, amount, named, n)
    OBVIOUS
  <2>3. q.redeemed = FALSE /\ q.pc # "giveBack"
    BY <2>2 DEF RefundCall, Idle
  <2> QED BY <1>1, <2>1, <2>2, <2>3
<1>4. CASE StartTakeOut(c)
  <2>1. PICK amount : Begin(c, [Idle EXCEPT !.pc = "tx", !.kind = "takeOut",
                                !.amount = amount, !.todo = <<"drawer", "cap">>])
    BY <1>4 DEF StartTakeOut
  <2>2. PICK q : q = [Idle EXCEPT !.pc = "tx", !.kind = "takeOut",
                                  !.amount = amount, !.todo = <<"drawer", "cap">>]
    OBVIOUS
  <2>3. q.redeemed = FALSE /\ q.pc # "giveBack"
    BY <2>2 DEF Idle
  <2> QED BY <1>1, <2>1, <2>2, <2>3
<1> QED BY <1>2, <1>3, <1>4

\* What a call keeps of itself through a statement.
Keeps(q, q0) == /\ q.pc = q0.pc /\ q.kind = q0.kind /\ q.key = q0.key
                /\ q.row = q0.row /\ q.amount = q0.amount /\ q.seen = q0.seen
                /\ q.named = q0.named /\ q.units = q0.units
                /\ q.redeemed = q0.redeemed

(* A statement runs in a transaction: it fails, or the call goes on the    *)
(* same but for what it has read and has left to do.                       *)
LEMMA StatementIs ==
    ASSUME DrawerInv, NEW c \in Calls,
           \/ UpdateRow(c) \/ JoinDrawer(c) \/ ReadLines(c) \/ CountUses(c)
           \/ CheckCap(c)
    PROVE  /\ call[c].pc = "tx"
           /\ UNCHANGED <<ledgerVars, points, reward>>
           /\ \/ Rollback(c)
              \/ \E q : call' = [call EXCEPT ![c] = q] /\ Keeps(q, call[c])
<1>1. call[c] \in AnyCall /\ call \in [Calls -> AnyCall]
  BY DEF DrawerInv, Shapes
<1>2. CASE UpdateRow(c)
  <2>1. PICK s \in RowSteps :
          /\ Running(c, s)
          /\ \/ /\ call' = [call EXCEPT ![c].todo = Tail(@)]
                /\ UNCHANGED <<ledgerVars, points, reward>>
             \/ Rollback(c)
    BY <1>2 DEF UpdateRow
  <2>2. PICK q : q = [call[c] EXCEPT !.todo = Tail(call[c].todo)]
    OBVIOUS
  <2>3. Keeps(q, call[c])
    BY <1>1, <2>2 DEF AnyCall, Keeps
  <2> QED BY <2>1, <2>2, <2>3 DEF Running, Rollback
<1>3. CASE JoinDrawer(c)
  <2>1. PICK q : q = [call[c] EXCEPT !.session = drawer, !.todo = Tail(call[c].todo)]
    OBVIOUS
  <2>2. Keeps(q, call[c])
    BY <1>1, <2>1 DEF AnyCall, Keeps
  <2> QED BY <1>3, <2>1, <2>2 DEF JoinDrawer, Running, Rollback
<1>4. CASE ReadLines(c)
  <2>1. /\ Running(c, "read") /\ UNCHANGED <<ledgerVars, points, reward>>
        /\ \/ Rollback(c)
           \/ \E l, g, r : call' = [call EXCEPT ![c].seenLine = l, ![c].give = g,
                                               ![c].todo = r]
    BY <1>4 DEF ReadLines, Rollback
  <2>2. ASSUME NEW l, NEW g, NEW r,
               call' = [call EXCEPT ![c].seenLine = l, ![c].give = g, ![c].todo = r]
        PROVE  \E q : call' = [call EXCEPT ![c] = q] /\ Keeps(q, call[c])
    <3>1. PICK q : q = [call[c] EXCEPT !.seenLine = l, !.give = g, !.todo = r]
      OBVIOUS
    <3>2. Keeps(q, call[c])
      BY <1>1, <3>1 DEF AnyCall, Keeps
    <3>3. call' = [call EXCEPT ![c] = q]
      BY <1>1, <2>2, <3>1
    <3> QED BY <3>2, <3>3
  <2> QED BY <2>1, <2>2 DEF Running
<1>5. CASE CountUses(c)
  <2>1. /\ Running(c, "uses") /\ UNCHANGED <<ledgerVars, points, reward>>
        /\ \E u, r : call' = [call EXCEPT ![c].release = u, ![c].todo = r]
    BY <1>5 DEF CountUses
  <2>2. ASSUME NEW u, NEW r, call' = [call EXCEPT ![c].release = u, ![c].todo = r]
        PROVE  \E q : call' = [call EXCEPT ![c] = q] /\ Keeps(q, call[c])
    <3>1. PICK q : q = [call[c] EXCEPT !.release = u, !.todo = r]
      OBVIOUS
    <3>2. Keeps(q, call[c])
      BY <1>1, <3>1 DEF AnyCall, Keeps
    <3>3. call' = [call EXCEPT ![c] = q]
      BY <1>1, <2>2, <3>1
    <3> QED BY <3>2, <3>3
  <2> QED BY <2>1, <2>2 DEF Running
<1>6. CASE CheckCap(c)
  <2>1. PICK q : q = [call[c] EXCEPT !.todo = << >>]
    OBVIOUS
  <2>2. Keeps(q, call[c])
    BY <1>1, <2>1 DEF AnyCall, Keeps
  <2> QED BY <1>6, <2>1, <2>2 DEF CheckCap, Running, Rollback
<1> QED BY <1>2, <1>3, <1>4, <1>5, <1>6

LEMMA StatementKeepsPoints ==
    ASSUME DrawerInv, GiversRedeemed, NEW c \in Calls,
           \/ UpdateRow(c) \/ JoinDrawer(c) \/ ReadLines(c) \/ CountUses(c)
           \/ CheckCap(c)
    PROVE  UNCHANGED <<points, reward>> /\ SameRedeemed
<1>1. CASE Rollback(c)
  BY <1>1, RollbackKeepsPoints
<1>2. ASSUME NEW q, call' = [call EXCEPT ![c] = q], Keeps(q, call[c])
      PROVE  SameRedeemed
  <2>1. q.redeemed = call[c].redeemed /\ q.pc # "giveBack"
    BY <1>2, StatementIs DEF Keeps
  <2> QED BY <1>2, <2>1, GoesOnWithPoints
<1> QED BY <1>1, <1>2, StatementIs

\* One call less redeemed, or one more.
LEMMA RedeemedChange ==
    ASSUME DrawerInv, GiversRedeemed, NEW c \in Calls, NEW q,
           call' = [call EXCEPT ![c] = q], q.pc # "giveBack", q.redeemed \in BOOLEAN
    PROVE  /\ GiversRedeemed'
           /\ Redeemed' = IF q.redeemed THEN Redeemed \cup {c} ELSE Redeemed \ {c}
<1>1. call' = [call EXCEPT ![c] = q] /\ call \in [Calls -> AnyCall]
  BY DEF DrawerInv, Shapes
<1>2. call'[c] = q /\ \A d \in Calls \ {c} : call'[d] = call[d]
  BY <1>1
<1> QED BY <1>2 DEF GiversRedeemed, Redeemed

LEMMA RedeemKeepsPoints ==
    ASSUME DrawerInv, BooksInv, GiversRedeemed, NEW c \in Calls, RedeemPoints(c)
    PROVE  AllPoints' = AllPoints /\ GiversRedeemed'
<1>1. /\ call[c] \in AnyCall /\ CallFits(call[c]) /\ Stands(call[c])
      /\ call[c].pc = "points" /\ call[c].redeemed \in BOOLEAN
  BY DEF DrawerInv, Shapes, BooksInv, CallsStand, RedeemPoints, AnyCall
<1>2. call[c].redeemed = FALSE
  <2>1. call[c].kind = "sale"
    BY <1>1 DEF AnyCall, CallFits, CallKinds, Stands, RefundStands
  <2> QED BY <1>1, <2>1 DEF Stands, SaleStands
<1>3. /\ UNCHANGED reward /\ Spent' = Spent
  BY DEF RedeemPoints, Spent
<1>4. CASE points >= RewardCost
  <2>1. PICK q : q = [call[c] EXCEPT !.pc = "tx", !.redeemed = TRUE]
    OBVIOUS
  <2>2. /\ call' = [call EXCEPT ![c] = q] /\ points' = points - RewardCost
    <3>1. call' = [call EXCEPT ![c].pc = "tx", ![c].redeemed = TRUE]
          /\ points' = points - RewardCost /\ call \in [Calls -> AnyCall]
      BY <1>4 DEF RedeemPoints, DrawerInv, Shapes
    <3> QED BY <2>1, <3>1
  <2>3. q.pc = "tx" /\ q.redeemed = TRUE
    BY <1>1, <2>1 DEF AnyCall
  <2>4. GiversRedeemed' /\ Redeemed' = Redeemed \cup {c}
    BY <2>2, <2>3, RedeemedChange
  <2>5. c \notin Redeemed
    BY <1>2 DEF Redeemed
  <2>6. Cardinality(Redeemed') = Cardinality(Redeemed) + 1
    BY <2>4, <2>5, PointsAreNats, FS_AddElement
  <2>7. points' + RewardCost * (Cardinality(Spent) + Cardinality(Redeemed'))
            = points + RewardCost * (Cardinality(Spent) + Cardinality(Redeemed))
    <3>1. points \in Nat /\ points' \in Nat /\ points' = points - RewardCost * 1
      BY <1>4, <2>2, PointsAreNats DEF BooksInv, BooksShape
    <3>2. /\ Cardinality(Spent) + Cardinality(Redeemed') \in Nat
          /\ Cardinality(Spent) + Cardinality(Redeemed) \in Nat
          /\ Cardinality(Spent) + Cardinality(Redeemed')
                = Cardinality(Spent) + Cardinality(Redeemed) + 1
      BY <2>6, PointsAreNats
    <3> QED BY <3>1, <3>2, PointsMoveBy
  <2> QED BY <1>3, <2>4, <2>7 DEF AllPoints
<1>5. CASE ~(points >= RewardCost)
  <2>1. call' = [call EXCEPT ![c] = Idle] /\ UNCHANGED points
    BY <1>5 DEF RedeemPoints
  <2>2. Idle.redeemed = FALSE /\ Idle.pc # "giveBack"
    BY DEF Idle
  <2>3. GiversRedeemed' /\ Redeemed' = Redeemed \ {c}
    BY <2>1, <2>2, RedeemedChange
  <2>4. Redeemed' = Redeemed
    BY <1>2, <2>3 DEF Redeemed
  <2> QED BY <1>3, <2>1, <2>3, <2>4 DEF AllPoints
<1> QED BY <1>4, <1>5

LEMMA SaleKeepsPoints ==
    ASSUME DrawerInv, BooksInv, GiversRedeemed, NEW c \in Calls, CommitSale(c)
    PROVE  AllPoints' = AllPoints /\ GiversRedeemed'
<1>1. PICK k : k = call[c].key
  OBVIOUS
<1>2. /\ k \in Keys /\ k \notin sale /\ Stands(call[c])
      /\ call[c].pc = "tx" /\ call[c].kind = "sale"
  BY <1>1, SaleHolds DEF CommitSale, Committing
<1>3. /\ reward' = [reward EXCEPT ![k] = IF Body[k].reward THEN "spent" ELSE reward[k]]
      /\ call' = [call EXCEPT ![c] = Idle] /\ UNCHANGED points
  BY <1>1 DEF CommitSale
<1>4. /\ reward \in [Keys -> {"none", "spent", "back"}] /\ reward[k] = "none"
      /\ Body[k].reward \in BOOLEAN
  BY <1>2, TicketsAssumption DEF BooksInv, BooksShape, NoTrace, Ticket
<1>5. call[c].redeemed <=> Body[k].reward
  BY <1>1, <1>2 DEF Stands, SaleStands
<1>6. GiversRedeemed' /\ Redeemed' = Redeemed \ {c}
  <2>1. Idle.redeemed = FALSE /\ Idle.pc # "giveBack"
    BY DEF Idle
  <2> QED BY <1>3, <2>1, RedeemedChange
<1>7. Spent' = IF Body[k].reward THEN Spent \cup {k} ELSE Spent
  BY <1>2, <1>3, <1>4 DEF Spent
<1>8. k \notin Spent /\ (c \in Redeemed <=> Body[k].reward)
  BY <1>4, <1>5 DEF Spent, Redeemed
<1>9. Cardinality(Spent') + Cardinality(Redeemed')
          = Cardinality(Spent) + Cardinality(Redeemed)
  <2>1. CASE Body[k].reward
    <3>1. Cardinality(Spent') = Cardinality(Spent) + 1
      BY <1>7, <1>8, <2>1, PointsAreNats, FS_AddElement
    <3>2. Cardinality(Redeemed') = Cardinality(Redeemed) - 1
      BY <1>6, <1>8, <2>1, PointsAreNats, FS_RemoveElement
    <3> QED BY <3>1, <3>2, PointsAreNats
  <2>2. CASE ~Body[k].reward
    BY <1>6, <1>7, <1>8, <2>2
  <2> QED BY <2>1, <2>2
<1> QED BY <1>3, <1>6, <1>9 DEF AllPoints

LEMMA RefundKeepsPoints ==
    ASSUME DrawerInv, BooksInv, GiversRedeemed, NEW c \in Calls,
           CommitRefund(c) \/ CommitTakeOut(c)
    PROVE  UNCHANGED <<points, reward>> /\ SameRedeemed
<1>1. call[c].redeemed = FALSE
  <2>1. /\ Stands(call[c]) /\ call[c].redeemed \in BOOLEAN
        /\ call[c].kind \in {"refund", "takeOut"}
    BY DEF DrawerInv, Shapes, BooksInv, CallsStand, CommitRefund, CommitTakeOut,
           Committing, AnyCall
  <2> QED BY <2>1 DEF Stands, RefundStands
<1>2. /\ UNCHANGED <<points, reward>>
      /\ \E q : /\ call' = [call EXCEPT ![c] = q]
                /\ \/ q = Idle
                   \/ \E k : q = [Idle EXCEPT !.pc = "after", !.kind = "refund",
                                              !.key = k]
  BY DEF CommitRefund, CommitTakeOut
<1>3. PICK q : /\ call' = [call EXCEPT ![c] = q]
               /\ \/ q = Idle
                  \/ \E k : q = [Idle EXCEPT !.pc = "after", !.kind = "refund",
                                             !.key = k]
  BY <1>2
<1>4. q.redeemed = FALSE /\ q.pc # "giveBack"
  <2>1. Idle.redeemed = FALSE /\ Idle.pc # "giveBack"
    BY DEF Idle
  <2>2. ASSUME NEW k, q = [Idle EXCEPT !.pc = "after", !.kind = "refund", !.key = k]
        PROVE  q.redeemed = FALSE /\ q.pc # "giveBack"
    BY <2>2 DEF Idle
  <2> QED BY <1>3, <2>1, <2>2
<1> QED BY <1>1, <1>2, <1>3, <1>4, GoesOnWithPoints

LEMMA GiveBackKeepsPoints ==
    ASSUME DrawerInv, BooksInv, GiversRedeemed, NEW c \in Calls, GiveBackPoints(c)
    PROVE  AllPoints' = AllPoints /\ GiversRedeemed'
<1>1. /\ points' = points + RewardCost /\ call' = [call EXCEPT ![c] = Idle]
      /\ UNCHANGED reward /\ c \in Redeemed
  BY DEF GiveBackPoints, GiversRedeemed, Redeemed
<1>2. Idle.redeemed = FALSE /\ Idle.pc # "giveBack"
  BY DEF Idle
<1>3. GiversRedeemed' /\ Redeemed' = Redeemed \ {c}
  BY <1>1, <1>2, RedeemedChange
<1>4. Cardinality(Redeemed') = Cardinality(Redeemed) - 1
  BY <1>1, <1>3, PointsAreNats, FS_RemoveElement
<1>5. Spent' = Spent
  BY <1>1 DEF Spent
<1>6. points' + RewardCost * (Cardinality(Spent) + Cardinality(Redeemed'))
          = points + RewardCost * (Cardinality(Spent) + Cardinality(Redeemed))
  <2>1. points \in Nat /\ points' \in Nat /\ points' = points - RewardCost * (-1)
    BY <1>1, PointsAreNats DEF BooksInv, BooksShape
  <2>2. IsFiniteSet(Redeemed')
    BY <1>3, PointsAreNats, FS_RemoveElement
  <2>3. /\ Cardinality(Spent) + Cardinality(Redeemed') \in Nat
        /\ Cardinality(Spent) + Cardinality(Redeemed) \in Nat
        /\ Cardinality(Spent) + Cardinality(Redeemed')
              = Cardinality(Spent) + Cardinality(Redeemed) + (-1)
    BY <1>4, <2>2, PointsAreNats, FS_CardinalityType
  <2> QED BY <2>1, <2>3, PointsMoveBy
<1> QED BY <1>3, <1>5, <1>6 DEF AllPoints

LEMMA AfterKeepsPoints ==
    ASSUME DrawerInv, BooksInv, GiversRedeemed, NEW c \in Calls, AfterRefund(c)
    PROVE  AllPoints' = AllPoints /\ GiversRedeemed'
<1> DEFINE k == call[c].key
           due == StillPaid(k) = {} /\ reward[k] = "spent"
<1>1. /\ call[c] \in AnyCall /\ CallFits(call[c]) /\ Stands(call[c])
      /\ call[c].pc = "after"
  BY DEF DrawerInv, Shapes, BooksInv, CallsStand, AfterRefund
<1>2. k \in Keys /\ call[c].redeemed = FALSE
  BY <1>1 DEF AnyCall, CallFits, CallKinds, Stands, SaleStands, RefundStands
<1>3. /\ points' = IF due THEN points + RewardCost ELSE points
      /\ reward' = IF due THEN [reward EXCEPT ![k] = "back"] ELSE reward
      /\ call' = [call EXCEPT ![c] = Idle]
  BY DEF AfterRefund
<1>4. due => reward[k] = "spent"
  OBVIOUS
<1> HIDE DEF k, due
<1>5. GiversRedeemed' /\ Redeemed' = Redeemed
  <2>1. Idle.redeemed = FALSE /\ Idle.pc # "giveBack"
    BY DEF Idle
  <2>2. GiversRedeemed' /\ Redeemed' = Redeemed \ {c}
    BY <1>3, <2>1, RedeemedChange
  <2> QED BY <1>2, <2>2 DEF Redeemed
<1>6. CASE due
  <2>1. Spent' = Spent \ {k} /\ k \in Spent
    BY <1>2, <1>3, <1>4, <1>6 DEF Spent, BooksInv, BooksShape
  <2>2. Cardinality(Spent') = Cardinality(Spent) - 1 /\ IsFiniteSet(Spent')
    BY <2>1, PointsAreNats, FS_RemoveElement
  <2>3. points' + RewardCost * (Cardinality(Spent') + Cardinality(Redeemed))
          = points + RewardCost * (Cardinality(Spent) + Cardinality(Redeemed))
    <3>1. points \in Nat /\ points' \in Nat /\ points' = points - RewardCost * (-1)
      BY <1>3, <1>6, PointsAreNats DEF BooksInv, BooksShape
    <3>2. /\ Cardinality(Spent') + Cardinality(Redeemed) \in Nat
          /\ Cardinality(Spent) + Cardinality(Redeemed) \in Nat
          /\ Cardinality(Spent') + Cardinality(Redeemed)
                = Cardinality(Spent) + Cardinality(Redeemed) + (-1)
      BY <2>2, PointsAreNats, FS_CardinalityType
    <3> QED BY <3>1, <3>2, PointsMoveBy
  <2> QED BY <1>5, <2>3 DEF AllPoints
<1>7. CASE ~due
  BY <1>3, <1>5, <1>7 DEF AllPoints, Spent
<1> QED BY <1>6, <1>7

PointsInv == AllPoints = Points /\ GiversRedeemed

LEMMA PointsInit == Init => PointsInv
<1> SUFFICES ASSUME Init PROVE PointsInv
  OBVIOUS
<1>1. Spent = {} /\ Redeemed = {} /\ GiversRedeemed /\ points = Points
  BY DEF Init, Idle, Spent, Redeemed, GiversRedeemed
<1>2. Cardinality({}) = 0
  BY FS_EmptySet
<1> QED BY <1>1, <1>2, PointsAreNats DEF PointsInv, AllPoints

\* A step that is no crash moves points, and makes and loses none.
LEMMA StepKeepsPoints ==
    ASSUME DrawerInv, BooksInv, GiversRedeemed, [Next]_vars,
           \A c \in Calls : ~Crash(c)
    PROVE  AllPoints' = AllPoints /\ GiversRedeemed'
<1>1. ASSUME UNCHANGED <<points, reward>>, SameRedeemed
      PROVE  AllPoints' = AllPoints /\ GiversRedeemed'
  BY <1>1, PointsStay DEF SameRedeemed, GiversRedeemed
<1>2. CASE UNCHANGED vars \/ Elsewhere
  <2>1. UNCHANGED <<points, reward, call>>
    BY <1>2 DEF vars, Elsewhere
  <2> QED BY <1>1, <2>1 DEF SameRedeemed, GiversRedeemed
<1>3. CASE BreakDeadlock
  <2>1. PICK S \in SUBSET Calls : \E c \in S : Rollback(c)
    BY <1>3 DEF BreakDeadlock
  <2>2. PICK c \in Calls : Rollback(c)
    BY <2>1
  <2> QED BY <1>1, <2>2, RollbackKeepsPoints
<1>4. ASSUME NEW c \in Calls, Proceed(c)
      PROVE  AllPoints' = AllPoints /\ GiversRedeemed'
  BY <1>1, <1>4, RedeemKeepsPoints, StatementKeepsPoints, SaleKeepsPoints,
     RefundKeepsPoints, GiveBackKeepsPoints, AfterKeepsPoints DEF Proceed
<1>5. ASSUME NEW c \in Calls, StartSale(c) \/ StartRefund(c) \/ StartTakeOut(c)
      PROVE  AllPoints' = AllPoints /\ GiversRedeemed'
  BY <1>1, <1>5, StartKeepsPoints
<1> QED BY <1>2, <1>3, <1>4, <1>5 DEF Next

(* While no process dies, points are spent by the sales recorded and not   *)
(* given back, and by no other: every redemption ends in a recorded sale   *)
(* or is undone by processCheckout's catch.                                *)
THEOREM PointsAreKept ==
    ASSUME "crash" \notin Faults PROVE Spec => []PointsAddUp
<1>1. DrawerInv /\ BooksInv /\ PointsInv /\ [Next]_vars => PointsInv'
  BY StepKeepsPoints DEF PointsInv, Crash
<1>2. PointsInv => PointsAddUp
  BY DEF PointsInv, AllPoints, Spent, Redeemed, PointsAddUp
<1> QED BY <1>1, <1>2, PointsInit, BooksInit, BooksNext, DrawerInit, DrawerNext, PTL
        DEF Spec

\* A process that dies may take a call's points with it, and makes none.
LEMMA CrashLosesPoints ==
    ASSUME DrawerInv, BooksInv, GiversRedeemed, NEW c \in Calls, Crash(c)
    PROVE  AllPoints' \in {AllPoints, AllPoints - RewardCost} /\ GiversRedeemed'
<1>1. call' = [call EXCEPT ![c] = Idle] /\ UNCHANGED <<points, reward>>
  BY DEF Crash
<1>2. Idle.redeemed = FALSE /\ Idle.pc # "giveBack"
  BY DEF Idle
<1>3. GiversRedeemed' /\ Redeemed' = Redeemed \ {c}
  BY <1>1, <1>2, RedeemedChange
<1>4. Spent' = Spent
  BY <1>1 DEF Spent
<1>5. CASE c \in Redeemed
  <2>1. Cardinality(Redeemed') = Cardinality(Redeemed) - 1
    BY <1>3, <1>5, PointsAreNats, FS_RemoveElement
  <2>2. PICK n \in Nat : n = Cardinality(Spent) + Cardinality(Redeemed)
    BY PointsAreNats
  <2>3. Cardinality(Spent) + Cardinality(Redeemed') = n + (-1)
    BY <2>1, <2>2, PointsAreNats
  <2>4. RewardCost * (n + (-1)) = RewardCost * n - RewardCost
    <3>1. \A a, x, y \in Int : a * (x + y) = a * x + a * y
      OBVIOUS
    <3>2. RewardCost * (n + (-1)) = RewardCost * n + RewardCost * (-1)
      BY <3>1, PointsAreNats
    <3> QED BY <3>2, PointsAreNats
  <2>5. points \in Nat /\ RewardCost * n \in Int
    BY PointsAreNats DEF BooksInv, BooksShape
  <2>6. AllPoints = points + RewardCost * n
    BY <2>2 DEF AllPoints
  <2>7. AllPoints' = points + RewardCost * (n + (-1))
    BY <1>1, <1>4, <2>3 DEF AllPoints
  <2> QED BY <1>3, <2>4, <2>5, <2>6, <2>7, PointsAreNats
<1>6. CASE c \notin Redeemed
  BY <1>1, <1>3, <1>4, <1>6 DEF AllPoints
<1> QED BY <1>3, <1>5, <1>6

NoneMade == AllPoints \in Int /\ AllPoints <= Points /\ GiversRedeemed

(* Even when processes die no points are made: what the client has, and    *)
(* what the sales recorded hold of it, is never more than it was.          *)
THEOREM NoPointsAreMade ==
    Spec => [](points + RewardCost * Cardinality(Spent) <= Points)
<1>1. DrawerInv /\ BooksInv /\ NoneMade /\ [Next]_vars => NoneMade'
  <2> SUFFICES ASSUME DrawerInv, BooksInv, NoneMade, [Next]_vars PROVE NoneMade'
    OBVIOUS
  <2>1. CASE \A c \in Calls : ~Crash(c)
    BY <2>1, StepKeepsPoints DEF NoneMade
  <2>2. ASSUME NEW c \in Calls, Crash(c) PROVE NoneMade'
    BY <2>2, CrashLosesPoints, PointsAreNats DEF NoneMade
  <2> QED BY <2>1, <2>2
<1>2. Init => NoneMade
  BY PointsInit, PointsAreNats DEF PointsInv, NoneMade
<1>3. BooksInv /\ NoneMade => points + RewardCost * Cardinality(Spent) <= Points
  <2> SUFFICES ASSUME BooksInv, NoneMade
               PROVE  points + RewardCost * Cardinality(Spent) <= Points
    OBVIOUS
  <2>1. PICK n, m \in Nat : n = Cardinality(Spent) /\ m = Cardinality(Redeemed)
    BY PointsAreNats
  <2>2. \A a, x, y \in Nat : a * (x + y) = a * x + a * y /\ a * y \in Nat /\ a * x \in Nat
    OBVIOUS
  <2>3. /\ RewardCost * (n + m) = RewardCost * n + RewardCost * m
        /\ RewardCost * n \in Nat /\ RewardCost * m \in Nat
    BY <2>2, PointsAreNats
  <2>4. points + RewardCost * (n + m) <= Points /\ points \in Nat
    BY <2>1 DEF NoneMade, AllPoints, BooksInv, BooksShape
  <2> QED BY <2>1, <2>3, <2>4, PointsAreNats
<1> QED BY <1>1, <1>2, <1>3, BooksInit, BooksNext, DrawerInit, DrawerNext, PTL DEF Spec

-----------------------------------------------------------------------------
(* A visit that is paid has money or a reward on it: what is paid of it is *)
(* the sum of its parts, and a sum above zero has a part above zero.       *)
PaidMeansMoney == visit.st = "paid" => visit.paid > 0

LEMMA PaidNext ==
    DrawerInv /\ BooksInv /\ PaidMeansMoney /\ [Next]_vars => PaidMeansMoney'
<1> SUFFICES ASSUME DrawerInv, BooksInv, PaidMeansMoney, [Next]_vars
             PROVE  PaidMeansMoney'
  OBVIOUS
<1>1. /\ visit \in [paid : Int, st : {"pending", "paid", "refunded"}, live : BOOLEAN]
      /\ visit.paid \in Nat /\ VisitPrice \in Nat
  BY TicketsAssumption DEF DrawerInv, Shapes, BooksInv, BooksShape
<1>2. CASE Untouched
  BY <1>2 DEF Untouched, PaidMeansMoney
<1>3. ASSUME NEW c \in Calls, CommitSale(c) PROVE PaidMeansMoney'
  <2>1. PICK k : k = call[c].key
    OBVIOUS
  <2>2. /\ k \in Keys /\ RecordSale(k, call[c].session)
        /\ PaysVisit(k) => VisitOwes(k)
    BY <1>3, <2>1, SaleHolds DEF CommitSale
  <2>3. visit' = IF PaysVisit(k)
                 THEN [visit EXCEPT !.paid = VisitPrice, !.st = "paid"] ELSE visit
    BY <2>2 DEF RecordSale
  <2>4. CASE PaysVisit(k)
    <3>1. Amount(k, "visit") \in Nat /\ Body[k].off \in Nat
      BY <2>2, AmountsAreInts, TicketsAssumption DEF Rows, Ticket
    <3>2. VisitPrice > 0
      BY <1>1, <2>2, <2>4, <3>1 DEF PaysVisit, VisitOwes
    <3> QED BY <1>1, <2>3, <2>4, <3>2 DEF PaidMeansMoney
  <2>5. CASE ~PaysVisit(k)
    BY <2>3, <2>5 DEF PaidMeansMoney
  <2> QED BY <2>4, <2>5
<1>4. ASSUME NEW c \in Calls, CommitRefund(c) PROVE PaidMeansMoney'
  <2>1. PICK amount \in Nat : amount = call[c].amount
    BY DEF BooksInv, CallsStand, Stands
  <2>2. PICK p \in Nat : p = IF visit.paid >= amount THEN visit.paid - amount ELSE 0
    BY <1>1, <2>1
  <2>3. visit' = IF call[c].row = "visit" THEN LessPaid(p) ELSE visit
    BY <1>4, <2>1, <2>2 DEF CommitRefund, RecordRefund
  <2>4. LessPaid(p).paid = p /\ (LessPaid(p).st = "paid" => p # 0)
    BY <1>1 DEF LessPaid
  <2> QED BY <2>2, <2>3, <2>4 DEF PaidMeansMoney
<1> QED BY <1>2, <1>3, <1>4, WhoWrites

(* A visit is "paid" only as long as a payment of it stands, or a reward   *)
(* covered part of it: that part stays in amountPaid when all else is      *)
(* given back (recordAppointmentPayment, refundPayment).                   *)
THEOREM PaidVisitHasPayment == Spec => []PaidVisitIsPaid
<1>1. BooksInv /\ VisitAddsUp /\ PaidMeansMoney => PaidVisitIsPaid
  <2> SUFFICES ASSUME BooksInv, VisitAddsUp, PaidMeansMoney, visit.st = "paid"
               PROVE  \E k \in sale : Outstanding(k, "visit") + Body[k].off > 0
    BY DEF PaidVisitIsPaid
  <2>1. SumOver(VisitParts) > 0
    BY DEF VisitAddsUp, VisitParts, PaidMeansMoney
  <2>2. PICK k \in Keys : VisitParts[k] # 0
    BY <2>1, SumIsZero
  <2>3. k \in sale /\ VisitParts[k] = Outstanding(k, "visit") + Body[k].off
    BY <2>2 DEF VisitParts
  <2>4. Outstanding(k, "visit") \in Nat /\ Body[k].off \in Nat
    BY OutstandingIsNat, TicketsAssumption DEF Rows, Ticket
  <2> QED BY <2>2, <2>3, <2>4
<1>2. Init => PaidMeansMoney
  BY DEF Init, LedgerInit, PaidMeansMoney
<1> QED BY <1>1, <1>2, BooksInit, BooksNext, DrawerInit, DrawerNext, VisitInit,
           VisitNext, PaidNext, PTL DEF Spec

-----------------------------------------------------------------------------
(* Refunds of one sale take turns: where any two of its payments are given *)
(* back under the commission lock, what one has read of the sale still     *)
(* holds when it commits, and so every commit is a step of the ledger.     *)

Serial(k) == \A t, z \in Rows :
                t # z /\ Amount(k, t) > 0 /\ Amount(k, z) > 0
                    => Queued(k, t) /\ Queued(k, z)

FullOf(q) == q.amount = Amount(q.key, q.row) - q.seen
LastPaid(q) == StillPaid(q.key) \subseteq {q.row}

\* The refund is through the rows that order it among those of its sale.
Past(q) == {"prof", "pay"} \cap Remaining(q.todo) = {}

HasRead(q) == q.row \in Lines /\ Known(q)
HasAsked(q) == FullOf(q) /\ Known(q) /\ "uses" \notin Remaining(q.todo)

GivesAsRead(q) ==
    /\ q.seenLine = line[q.key]
    /\ q.give = Given(q.key, q.row, q.amount, q.named, q.units, q.seenLine,
                      FullOf(q) /\ LastPaid(q))
    /\ q.named # "none" =>
           q.units <= Quantity(q.key, q.named) - q.seenLine[q.named].units

TurnTaken(q) ==
    /\ HasRead(q) \/ HasAsked(q) => Past(q)
    /\ HasRead(q) => GivesAsRead(q)
    /\ HasAsked(q) => (q.release <=> LastPaid(q) /\ q.key \in uses)
    /\ ~HasAsked(q) => ~q.release
    /\ "uses" \in Remaining(q.todo) => FullOf(q)
    /\ q.named # "none" => q.row \in Lines /\ q.units >= 1

Refunding(q) == q.kind = "refund" /\ q.pc = "tx"

InTurn == \A c \in Calls : Refunding(call[c]) => TurnTaken(call[c])

\* Another sale's business is none of this refund's.
LEMMA TurnStays ==
    ASSUME NEW q, TurnTaken(q), line'[q.key] = line[q.key],
           StillPaid(q.key)' = StillPaid(q.key),
           q.key \in uses' <=> q.key \in uses
    PROVE  TurnTaken(q)'
<1>1. LastPaid(q)' = LastPaid(q)
  BY DEF LastPaid
<1>2. GivesAsRead(q)' = GivesAsRead(q)
  BY <1>1 DEF GivesAsRead
<1> QED BY <1>1, <1>2 DEF TurnTaken, HasRead, HasAsked, Known, Past

LEMMA TurnsChange ==
    ASSUME DrawerInv, InTurn, NEW c \in Calls, NEW q,
           call' = [call EXCEPT ![c] = q], UNCHANGED <<line, pay, uses>>,
           Refunding(q) => TurnTaken(q)
    PROVE  InTurn'
<1>1. call'[c] = q /\ \A d \in Calls \ {c} : call'[d] = call[d]
  BY DEF DrawerInv, Shapes
<1>2. ASSUME NEW d \in Calls, Refunding(call'[d]) PROVE TurnTaken(call[d])'
  <2>1. PICK r : r = call'[d]
    OBVIOUS
  <2>2. Refunding(r) /\ TurnTaken(r)
    BY <1>1, <1>2, <2>1 DEF InTurn
  <2>3. TurnTaken(r)'
    BY <2>2, TurnStays DEF StillPaid
  <2> QED BY <2>1, <2>3
<1> QED BY <1>2 DEF InTurn, Refunding

\* A call that starts, goes on or ends outside a refund's transaction.
LEMMA NoTurn ==
    ASSUME DrawerInv, InTurn, NEW c \in Calls, NEW q,
           call' = [call EXCEPT ![c] = q], UNCHANGED <<line, pay, uses>>,
           ~Refunding(q)
    PROVE  InTurn'
  BY TurnsChange

LEMMA RollbackTurn ==
    ASSUME DrawerInv, InTurn, NEW c \in Calls, Rollback(c) PROVE InTurn'
<1>1. call[c] \in AnyCall
  BY DEF DrawerInv, Shapes
<1>2. PICK q : q = IF call[c].redeemed
                   THEN [call[c] EXCEPT !.pc = "giveBack", !.session = 0, !.todo = <<>>]
                   ELSE Idle
  OBVIOUS
<1>3. q.pc # "tx"
  BY <1>1, <1>2 DEF AnyCall, Idle
<1>4. call' = [call EXCEPT ![c] = q] /\ UNCHANGED <<line, pay, uses>>
  BY <1>2 DEF Rollback, ledgerVars
<1> QED BY <1>3, <1>4, NoTurn DEF Refunding

\* One statement less to go, and none that reads.
LEMMA TurnGoesOn ==
    ASSUME NEW q0 \in AnyCall, TurnTaken(q0), q0.todo # << >>,
           Head(q0.todo) \notin Turns, NEW n, NEW q, q = NextOf(q0, n)
    PROVE  TurnTaken(q)
<1>1. Remaining(q0.todo) = {Head(q0.todo)} \cup Remaining(Tail(q0.todo))
  BY RemainingSplits DEF AnyCall
<1>2. /\ q.key = q0.key /\ q.row = q0.row
      /\ q.amount = q0.amount /\ q.units = q0.units /\ q.seen = q0.seen
      /\ q.seenLine = q0.seenLine /\ q.give = q0.give /\ q.named = q0.named
      /\ q.release = q0.release /\ q.todo = Tail(q0.todo)
  BY DEF AnyCall, NextOf
<1>3. /\ "read" \in Remaining(q.todo) <=> "read" \in Remaining(q0.todo)
      /\ "uses" \in Remaining(q.todo) <=> "uses" \in Remaining(q0.todo)
      /\ Past(q0) => Past(q)
  BY <1>1, <1>2 DEF Turns, Past
<1>4. /\ FullOf(q) = FullOf(q0) /\ LastPaid(q) = LastPaid(q0)
      /\ (HasRead(q) <=> HasRead(q0)) /\ (HasAsked(q) <=> HasAsked(q0))
  BY <1>2, <1>3 DEF FullOf, LastPaid, HasRead, HasAsked, Known
<1>5. GivesAsRead(q) <=> GivesAsRead(q0)
  BY <1>2, <1>4 DEF GivesAsRead
<1> QED BY <1>2, <1>3, <1>4, <1>5 DEF TurnTaken

LEMMA StatementTurn ==
    ASSUME DrawerInv, InTurn, NEW c \in Calls, UpdateRow(c) \/ JoinDrawer(c)
    PROVE  InTurn'
<1>1. CASE Rollback(c)
  BY <1>1, RollbackTurn
<1>2. CASE ~Rollback(c)
  <2>1. call[c] \in AnyCall /\ call \in [Calls -> AnyCall]
    BY DEF DrawerInv, Shapes
  <2>2. /\ call[c].todo # << >> /\ Head(call[c].todo) \notin Turns
        /\ UNCHANGED <<line, pay, uses>>
        /\ \/ call' = [call EXCEPT ![c].todo = Tail(@)]
           \/ call' = [call EXCEPT ![c].session = drawer, ![c].todo = Tail(@)]
    BY <1>2 DEF UpdateRow, JoinDrawer, Running, ledgerVars, Turns, RowSteps, Lines
  <2>3. PICK n : call' = [call EXCEPT ![c] = NextOf(call[c], n)]
    <3>1. NextOf(call[c], call[c].session) = [call[c] EXCEPT !.todo = Tail(call[c].todo)]
      BY <2>1 DEF NextOf, AnyCall
    <3>2. CASE call' = [call EXCEPT ![c].todo = Tail(@)]
      BY <2>1, <3>1, <3>2
    <3>3. CASE call' = [call EXCEPT ![c].session = drawer, ![c].todo = Tail(@)]
      BY <2>1, <3>3 DEF NextOf
    <3> QED BY <2>2, <3>2, <3>3
  <2>4. PICK q : q = NextOf(call[c], n)
    OBVIOUS
  <2>5. Refunding(q) => TurnTaken(q)
    <3>1. q.kind = call[c].kind /\ q.pc = call[c].pc
      BY <2>1, <2>4 DEF AnyCall, NextOf
    <3>2. Refunding(q) => TurnTaken(call[c])
      BY <3>1 DEF InTurn, Refunding
    <3> QED BY <2>1, <2>2, <2>4, <3>2, TurnGoesOn
  <2> QED BY <2>2, <2>3, <2>4, <2>5, TurnsChange
<1> QED BY <1>1, <1>2

LEMMA ReadTurn ==
    ASSUME DrawerInv, BooksInv, InTurn, NEW c \in Calls, ReadLines(c) PROVE InTurn'
<1>1. CASE Rollback(c)
  BY <1>1, RollbackTurn
<1>2. CASE ~Rollback(c)
  <2>1. PICK q0, k, t : q0 = call[c] /\ k = q0.key /\ t = q0.row
    OBVIOUS
  <2>2. /\ q0 \in AnyCall /\ q0.pc = "tx" /\ q0.kind = "refund"
        /\ k \in Keys /\ t \in Lines /\ Remaining(q0.todo) = {"read"}
    <3>1. /\ call[c] \in AnyCall /\ call[c].pc = "tx" /\ call[c].kind = "refund"
          /\ call[c].key \in Keys /\ RefundRuns(call[c])
          /\ Remaining(call[c].todo) = {"read"}
      BY WhoReads DEF ReadLines
    <3> QED BY <2>1, <3>1 DEF RefundRuns
  <2>3. TurnTaken(q0)
    BY <2>1, <2>2 DEF InTurn, Refunding
  <2>4. PICK w : w = (FullOf(q0) /\ LastPaid(q0))
    OBVIOUS
  <2>5. PICK g : g = Given(k, t, q0.amount, q0.named, q0.units, line[k], w)
    OBVIOUS
  <2>6. PICK full \in BOOLEAN : full = FullOf(q0)
    BY DEF FullOf
  <2>7. PICK steps : steps = LinesEnd(g, k, t, full)
    OBVIOUS
  <2>8. /\ call' = [call EXCEPT ![c].seenLine = line[k], ![c].give = g, ![c].todo = steps]
        /\ UNCHANGED <<line, pay, uses>>
        /\ q0.named # "none" =>
               ~(q0.units > Quantity(k, q0.named) - line[k][q0.named].units)
    <3>1. Full(c) = FullOf(q0) /\ (StillPaid(k) \subseteq {t}) = LastPaid(q0)
      BY <2>1 DEF Full, FullOf, LastPaid
    <3> QED BY <1>2, <2>1, <2>4, <2>5, <2>6, <2>7, <3>1
            DEF ReadLines, LinesEnd, Gives, ledgerVars
  <2>9. PICK q : q = [q0 EXCEPT !.seenLine = line[k], !.give = g, !.todo = steps]
    OBVIOUS
  <2>10. call' = [call EXCEPT ![c] = q]
    <3>1. call \in [Calls -> AnyCall]
      BY DEF DrawerInv, Shapes
    <3> QED BY <2>1, <2>8, <2>9, <3>1
  <2>11. /\ q.key = k /\ q.row = t /\ q.amount = q0.amount /\ q.seen = q0.seen
         /\ q.named = q0.named /\ q.units = q0.units /\ q.release = q0.release
         /\ q.seenLine = line[k] /\ q.give = g /\ q.todo = steps
    BY <2>1, <2>2, <2>9 DEF AnyCall
  <2>12. Remaining(steps) \subseteq Lines \cup {"stock", "visit", "card", "sold", "uses"}
         /\ ("uses" \in Remaining(steps) <=> full)
    <3>1. t \in Rows
      BY <2>2 DEF Lines, Rows
    <3>2. Remaining(steps) =
             {l \in Lines : Gives(g[l])}
             \cup (IF g["product"].units > 0 THEN {"stock"} ELSE {})
             \cup (IF t = "visit" THEN {"visit"} ELSE {})
             \cup (IF Method(k, t) = "gift" THEN {"card"} ELSE {})
             \cup (IF t = "gift" THEN {"sold"} ELSE {})
             \cup (IF full THEN {"uses"} ELSE {})
      BY <2>2, <2>7, <3>1, LinesEndIs
    <3> QED BY <3>2 DEF Lines
  <2>13. /\ FullOf(q) = FullOf(q0) /\ LastPaid(q) = LastPaid(q0)
         /\ ~HasAsked(q0) /\ Past(q) /\ HasRead(q) /\ ~HasAsked(q)
         /\ "uses" \in Remaining(q.todo) => FullOf(q)
    BY <2>1, <2>2, <2>6, <2>11, <2>12
       DEF FullOf, LastPaid, HasAsked, Known, Past, HasRead, Lines
  <2>14. GivesAsRead(q)
    <3>1. q.named # "none" => q.units <= Quantity(k, q.named) - line[k][q.named].units
      <4>1. ASSUME q.named # "none"
            PROVE  q.units \in Int /\ Quantity(k, q.named) - line[k][q.named].units \in Int
        <5>1. q.named \in Lines /\ q.units \in Int
          BY <2>2, <2>11, <4>1 DEF AnyCall
        <5>2. Quantity(k, q.named) \in Nat /\ line[k][q.named].units \in Int
          BY <2>2, <5>1, AmountsAreInts DEF DrawerInv, Shapes, Returned
        <5> QED BY <5>1, <5>2
      <4> QED BY <2>8, <2>11, <4>1
    <3> QED BY <2>4, <2>5, <2>11, <2>13, <3>1 DEF GivesAsRead
  <2>15. TurnTaken(q)
    BY <2>3, <2>11, <2>13, <2>14, <2>1 DEF TurnTaken
  <2> QED BY <2>8, <2>10, <2>15, TurnsChange
<1> QED BY <1>1, <1>2

LEMMA UsesTurn ==
    ASSUME DrawerInv, BooksInv, InTurn, NEW c \in Calls, CountUses(c) PROVE InTurn'
<1>1. PICK q0, k, t : q0 = call[c] /\ k = q0.key /\ t = q0.row
  OBVIOUS
<1>2. /\ q0 \in AnyCall /\ q0.pc = "tx" /\ q0.kind = "refund"
      /\ Remaining(q0.todo) = {"uses"}
  BY <1>1, WhoReads DEF CountUses
<1>3. TurnTaken(q0)
  BY <1>1, <1>2 DEF InTurn, Refunding
<1>4. PICK gone \in BOOLEAN : gone = (LastPaid(q0) /\ k \in uses)
  OBVIOUS
<1>5. PICK q : q = [q0 EXCEPT !.release = gone, !.todo = When(gone, "promo")]
  OBVIOUS
<1>6. call' = [call EXCEPT ![c] = q] /\ UNCHANGED <<line, pay, uses>>
  <2>1. (StillPaid(k) \subseteq {t}) = LastPaid(q0)
    BY <1>1 DEF LastPaid
  <2> QED BY <1>1, <1>4, <1>5, <2>1 DEF CountUses, ledgerVars
<1>7. /\ q.key = k /\ q.row = t /\ q.amount = q0.amount /\ q.seen = q0.seen
      /\ q.named = q0.named /\ q.units = q0.units /\ q.release = gone
      /\ q.seenLine = q0.seenLine /\ q.give = q0.give
      /\ q.todo = When(gone, "promo")
  BY <1>1, <1>2, <1>5 DEF AnyCall
<1>8. Remaining(q.todo) \subseteq {"promo"}
  BY <1>4, <1>7, RemainingOfWhen DEF Steps, RowSteps
<1>9. /\ FullOf(q) /\ FullOf(q0) /\ LastPaid(q) = LastPaid(q0)
      /\ Past(q) /\ HasAsked(q) /\ (HasRead(q) <=> HasRead(q0))
  BY <1>1, <1>2, <1>3, <1>7, <1>8
     DEF TurnTaken, FullOf, LastPaid, Past, HasAsked, HasRead, Known
<1>10. GivesAsRead(q) <=> GivesAsRead(q0)
  BY <1>1, <1>7, <1>9 DEF GivesAsRead
<1>11. TurnTaken(q)
  BY <1>1, <1>3, <1>4, <1>7, <1>8, <1>9, <1>10 DEF TurnTaken
<1> QED BY <1>6, <1>11, TurnsChange

LEMMA CapTurn ==
    ASSUME DrawerInv, BooksInv, InTurn, NEW c \in Calls, CheckCap(c) PROVE InTurn'
<1>1. CASE Rollback(c)
  BY <1>1, RollbackTurn
<1>2. CASE ~Rollback(c)
  <2>1. /\ call[c] \in AnyCall /\ CallFits(call[c]) /\ Stands(call[c])
        /\ call[c].pc = "tx" /\ call[c].todo # << >> /\ Head(call[c].todo) = "cap"
    BY DEF DrawerInv, Shapes, BooksInv, CallsStand, Running, CheckCap
  <2>2. "cap" \in Remaining(call[c].todo)
    BY <2>1, RemainingSplits DEF AnyCall
  <2>3. call[c].kind # "refund"
    BY <2>1, <2>2 DEF Stands, RefundStands, RefundRuns, RowSteps, Lines
  <2>4. PICK q : q = [call[c] EXCEPT !.todo = << >>]
    OBVIOUS
  <2>5. q.kind = call[c].kind
    BY <2>1, <2>4 DEF AnyCall
  <2>6. call' = [call EXCEPT ![c] = q] /\ UNCHANGED <<line, pay, uses>>
    BY <1>2, <2>4 DEF CheckCap, ledgerVars
  <2> QED BY <2>3, <2>5, <2>6, NoTurn DEF Refunding
<1> QED BY <1>1, <1>2

\* A refund starts, and has looked at nothing yet that it acts on later.
LEMMA StartRefundTurn ==
    ASSUME DrawerInv, BooksInv, InTurn, NEW c \in Calls, StartRefund(c)
    PROVE  InTurn'
<1>1. PICK k \in sale, t \in Rows : \E amount \in 1..Left(k, t) :
      \E named \in {"none"} \cup (IF t \in Lines THEN Lines ELSE {}) :
        \E n \in IF named = "none" THEN {0}
                 ELSE 1..(Quantity(k, named) - line[k][named].units) :
          Begin(c, RefundCall(k, t, amount, named, n))
  BY RefundArrives
<1>2. PICK amount \in 1..Left(k, t),
           named \in {"none"} \cup (IF t \in Lines THEN Lines ELSE {}) :
        \E n \in IF named = "none" THEN {0}
                 ELSE 1..(Quantity(k, named) - line[k][named].units) :
          Begin(c, RefundCall(k, t, amount, named, n))
  BY <1>1
<1>3. PICK n \in IF named = "none" THEN {0}
                 ELSE 1..(Quantity(k, named) - line[k][named].units) :
          Begin(c, RefundCall(k, t, amount, named, n))
  BY <1>2
<1>4. PICK full \in BOOLEAN : full = (amount = Left(k, t))
  OBVIOUS
<1>5. PICK steps : steps = RefundSteps(k, t)
                           \o IF t \in Lines THEN <<>> ELSE RefundEnd(k, t, full)
  OBVIOUS
<1>6. PICK q : q = RefundCall(k, t, amount, named, n)
  OBVIOUS
<1>7. /\ q.key = k /\ q.row = t /\ q.todo = steps /\ q.seen = pay[k][t].back
      /\ q.release = FALSE /\ q.amount = amount /\ q.units = n /\ q.named = named
  BY <1>4, <1>5, <1>6 DEF RefundCall, Idle
<1>8. /\ k \in Keys
      /\ call' = [call EXCEPT ![c] = q] /\ UNCHANGED <<line, pay, uses>>
  BY <1>3, <1>6 DEF Begin, ledgerVars, DrawerInv, Shapes
<1>9. /\ t \in Lines => {"read"} = Remaining(steps) \cap {"read", "uses"}
      /\ t \notin Lines => /\ "read" \notin Remaining(steps)
                           /\ "uses" \in Remaining(steps) <=> full
  <2>1. /\ RefundSteps(k, t) \in StepLists
        /\ Remaining(RefundSteps(k, t)) =
             {"pay", "drawer"} \cup (IF Queued(k, t) THEN {"prof"} ELSE {})
                               \cup (IF t \in Lines THEN {"read"} ELSE {})
    BY <1>8, RefundStepsAre
  <2>2. CASE t \in Lines
    <3>1. steps = RefundSteps(k, t)
      BY <1>5, <2>1, <2>2 DEF StepLists
    <3> QED BY <2>1, <2>2, <3>1
  <2>3. CASE t \notin Lines
    <3>1. /\ RefundEnd(k, t, full) \in StepLists
          /\ Remaining(RefundEnd(k, t, full)) =
                     (IF t = "visit" THEN {"visit"} ELSE {})
                \cup (IF Method(k, t) = "gift" THEN {"card"} ELSE {})
                \cup (IF t = "gift" THEN {"sold"} ELSE {})
                \cup (IF full THEN {"uses"} ELSE {})
      BY <1>8, RefundEndIs
    <3>2. steps = RefundSteps(k, t) \o RefundEnd(k, t, full)
      BY <1>5, <2>3
    <3>3. Remaining(steps) = Remaining(RefundSteps(k, t))
                             \cup Remaining(RefundEnd(k, t, full))
      BY <2>1, <3>1, <3>2, RemainingOfBoth
    <3> QED BY <2>1, <2>3, <3>1, <3>3
  <2> QED BY <2>2, <2>3
<1>10. FullOf(q) <=> full
  BY <1>4, <1>7 DEF FullOf, Left
<1>11. named # "none" => t \in Lines /\ n >= 1
  <2>1. ASSUME named # "none" PROVE t \in Lines /\ named \in Lines
    BY <2>1, <1>2
  <2>2. ASSUME named # "none" PROVE n >= 1
    <3>1. Quantity(k, named) \in Nat /\ line[k][named].units \in Int
      BY <2>1, <2>2, <1>8, AmountsAreInts DEF BooksInv, WithinTicket
    <3> QED BY <2>2, <3>1, <1>3
  <2> QED BY <2>1, <2>2
<1>12. TurnTaken(q)
  <2>1. ~HasRead(q) /\ ~HasAsked(q)
    BY <1>7, <1>9, <1>10 DEF HasRead, HasAsked, Known
  <2>2. "uses" \in Remaining(q.todo) => FullOf(q)
    BY <1>7, <1>9, <1>10
  <2> QED BY <1>7, <1>11, <2>1, <2>2 DEF TurnTaken
<1> QED BY <1>8, <1>12, TurnsChange

LEMMA SaleTurn ==
    ASSUME DrawerInv, BooksInv, InTurn, NEW c \in Calls, CommitSale(c)
    PROVE  InTurn'
<1>1. PICK k : k = call[c].key
  OBVIOUS
<1>2. k \in Keys /\ k \notin sale
  BY <1>1, SaleHolds DEF CommitSale
<1>3. RecordSale(k, call[c].session) /\ call' = [call EXCEPT ![c] = Idle]
  BY <1>1 DEF CommitSale
<1>4. ASSUME NEW d \in Calls, Refunding(call'[d]) PROVE TurnTaken(call[d])'
  <2>1. PICK r : r = call'[d]
    OBVIOUS
  <2>2. call'[c] = Idle /\ Idle.pc # "tx" /\ (d # c => r = call[d])
    BY <1>3, <2>1 DEF DrawerInv, Shapes, Idle
  <2>3. Refunding(r) /\ r = call[d]
    BY <1>4, <2>1, <2>2 DEF Refunding
  <2>4. r.key \in sale /\ r.key \in Keys /\ TurnTaken(r)
    BY <2>3 DEF BooksInv, CallsStand, Stands, RefundStands, Refunding, InTurn,
                DrawerInv, Shapes
  <2>5. /\ UNCHANGED line /\ pay'[r.key] = pay[r.key]
        /\ r.key \in uses' <=> r.key \in uses
    BY <1>2, <1>3, <2>4 DEF RecordSale, DrawerInv, Shapes
  <2>6. TurnTaken(r)'
    BY <2>4, <2>5, TurnStays DEF StillPaid
  <2> QED BY <2>1, <2>6
<1> QED BY <1>4 DEF InTurn, Refunding

(* A refund commits: another of the same sale is still waiting for the     *)
(* commission lock, and has looked at nothing yet.                         *)
LEMMA RefundTurn ==
    ASSUME \A k \in Keys : Serial(k),
           DrawerInv, BooksInv, InTurn, NEW c \in Calls, CommitRefund(c)
    PROVE  InTurn'
<1>1. PICK k, t, amount : /\ k = call[c].key /\ t = call[c].row
                          /\ amount = call[c].amount
  OBVIOUS
<1>2. /\ k \in Keys /\ t \in Rows /\ amount \in 1..Left(k, t)
      /\ lock[<<"pay", k, t>>] = c
      /\ Queued(k, t) => lock[<<"prof">>] = c
  BY <1>1, RefundHolds DEF CommitRefund
<1>3. /\ RecordRefund(k, t, amount, call[c].give, call[c].release, call[c].session)
      /\ \E q : call' = [call EXCEPT ![c] = q] /\ q.pc # "tx"
  <2>1. PICK q : q = IF Full(c) /\ Body[k].reward
                     THEN [Idle EXCEPT !.pc = "after", !.kind = "refund", !.key = k]
                     ELSE Idle
    OBVIOUS
  <2>2. q.pc # "tx"
    BY <2>1 DEF Idle
  <2> QED BY <1>1, <2>1, <2>2 DEF CommitRefund
<1>4. \A j \in Keys \ {k} : /\ line'[j] = line[j] /\ pay'[j] = pay[j]
                            /\ j \in uses' <=> j \in uses
  BY <1>3 DEF RecordRefund, DrawerInv, Shapes
<1>5. ASSUME NEW d \in Calls \ {c}, NEW r, r = call[d], Refunding(r), r.key = k
      PROVE  ~Past(r)
  <2>1. PICK z : z = r.row
    OBVIOUS
  <2>2. /\ r \in AnyCall /\ r.pc = "tx" /\ r.kind = "refund" /\ RefundRuns(r)
        /\ r.seen \in Nat /\ z \in Rows
    BY <1>5, <2>1 DEF DrawerInv, Shapes, BooksInv, CallsStand, Stands,
                      RefundStands, Refunding, AnyCall
  <2>3. SUFFICES ASSUME Past(r) PROVE FALSE
    OBVIOUS
  <2>4. lock[<<"pay", k, z>>] = d
    <3>1. Done(call[d], "pay")
      BY <1>5, <2>2, <2>3 DEF Done, RowPart, RefundRow, Past
    <3> QED BY <1>5, <2>1, <3>1, OtherHolds DEF RowSteps
  <2>5. z # t
    BY <1>2, <2>4
  <2>6. Amount(k, t) > 0 /\ Amount(k, z) > 0
    <3>1. /\ Amount(k, t) \in Nat /\ Amount(k, z) \in Nat
          /\ pay[k][t].back \in 0..Amount(k, t)
      BY <1>2, <2>2, AmountsAreInts DEF BooksInv, WithinTicket
    <3>2. r.amount \in 1..(Amount(k, z) - r.seen)
      BY <1>5, <2>1, <2>2 DEF RefundRuns
    <3> QED BY <1>2, <2>2, <3>1, <3>2 DEF Left
  <2>7. Queued(k, t) /\ Queued(k, z)
    BY <1>2, <2>2, <2>5, <2>6 DEF Serial
  <2>8. lock[<<"prof">>] = d
    <3>1. Done(call[d], "prof")
      BY <1>5, <2>1, <2>2, <2>3, <2>7 DEF Done, RowPart, RefundRow, Past
    <3>2. lock[RowOf(d, "prof")] = d
      BY <3>1, DoneIsLocked DEF RowSteps
    <3> QED BY <3>2 DEF RowOf, Lines
  <2> QED BY <1>2, <2>7, <2>8
<1>6. ASSUME NEW d \in Calls, Refunding(call'[d]) PROVE TurnTaken(call[d])'
  <2>1. PICK r : r = call'[d]
    OBVIOUS
  <2>2. d # c /\ Refunding(r) /\ r = call[d]
    BY <1>3, <1>6, <2>1 DEF DrawerInv, Shapes, Refunding
  <2>3. r.key \in Keys /\ TurnTaken(r)
    BY <2>2 DEF DrawerInv, Shapes, CallFits, Refunding, InTurn
  <2>4. CASE r.key # k
    <3>1. /\ line'[r.key] = line[r.key] /\ pay'[r.key] = pay[r.key]
          /\ r.key \in uses' <=> r.key \in uses
      BY <1>4, <2>3, <2>4
    <3>2. TurnTaken(r)'
      BY <2>3, <3>1, TurnStays DEF StillPaid
    <3> QED BY <2>1, <3>2
  <2>5. CASE r.key = k
    <3>1. ~HasRead(r) /\ ~HasAsked(r)
      BY <1>5, <2>2, <2>3, <2>5 DEF TurnTaken
    <3>2. TurnTaken(r)'
      BY <2>3, <3>1 DEF TurnTaken, HasRead, HasAsked, Known, Past, FullOf
    <3> QED BY <2>1, <3>2
  <2> QED BY <2>4, <2>5
<1> QED BY <1>6 DEF InTurn, Refunding

\* What starts a sale or a movement, or ends a call, is no refund's turn.
LEMMA OtherTurn ==
    ASSUME DrawerInv, BooksInv, InTurn, NEW c \in Calls,
           \/ StartSale(c) \/ StartTakeOut(c) \/ RedeemPoints(c)
           \/ GiveBackPoints(c) \/ AfterRefund(c) \/ Crash(c)
           \/ CommitTakeOut(c)
    PROVE  InTurn'
<1>1. ~Refunding(Idle)
  BY DEF Refunding, Idle
<1>2. CASE StartSale(c)
  <2>1. PICK k \in Keys : Begin(c, [Idle EXCEPT
                !.pc = IF Body[k].reward THEN "points" ELSE "tx",
                !.kind = "sale", !.key = k, !.seen = visit.paid,
                !.todo = SaleSteps(k)])
    BY <1>2 DEF StartSale
  <2>2. PICK q : q = [Idle EXCEPT
                !.pc = IF Body[k].reward THEN "points" ELSE "tx",
                !.kind = "sale", !.key = k, !.seen = visit.paid,
                !.todo = SaleSteps(k)]
    OBVIOUS
  <2>3. q.kind = "sale"
    BY <2>2 DEF Idle
  <2>4. call' = [call EXCEPT ![c] = q] /\ UNCHANGED <<line, pay, uses>>
    BY <2>1, <2>2 DEF Begin, ledgerVars
  <2> QED BY <2>3, <2>4, NoTurn DEF Refunding
<1>3. CASE StartTakeOut(c)
  <2>1. PICK amount \in 1..Float :
        Begin(c, [Idle EXCEPT !.pc = "tx", !.kind = "takeOut",
                              !.amount = amount, !.todo = <<"drawer", "cap">>])
    BY <1>3 DEF StartTakeOut
  <2>2. PICK q : q = [Idle EXCEPT !.pc = "tx", !.kind = "takeOut",
                              !.amount = amount, !.todo = <<"drawer", "cap">>]
    OBVIOUS
  <2>3. q.kind = "takeOut"
    BY <2>2 DEF Idle
  <2>4. call' = [call EXCEPT ![c] = q] /\ UNCHANGED <<line, pay, uses>>
    BY <2>1, <2>2 DEF Begin, ledgerVars
  <2> QED BY <2>3, <2>4, NoTurn DEF Refunding
<1>4. CASE RedeemPoints(c)
  <2>1. CASE call' = [call EXCEPT ![c] = Idle]
    BY <1>1, <1>4, <2>1, NoTurn DEF RedeemPoints, ledgerVars
  <2>2. CASE call' = [call EXCEPT ![c].pc = "tx", ![c].redeemed = TRUE]
    <3>1. PICK q : q = [call[c] EXCEPT !.pc = "tx", !.redeemed = TRUE]
      OBVIOUS
    <3>2. call' = [call EXCEPT ![c] = q] /\ q.kind = call[c].kind
      BY <2>2, <3>1 DEF DrawerInv, Shapes, AnyCall
    <3>3. q.kind # "refund"
      BY <1>4, <3>2 DEF RedeemPoints, BooksInv, CallsStand, Stands, RefundStands
    <3> QED BY <1>4, <3>2, <3>3, NoTurn DEF RedeemPoints, ledgerVars, Refunding
  <2> QED BY <1>4, <2>1, <2>2 DEF RedeemPoints
<1>5. CASE \/ GiveBackPoints(c) \/ AfterRefund(c) \/ Crash(c) \/ CommitTakeOut(c)
  BY <1>1, <1>5, NoTurn
     DEF GiveBackPoints, AfterRefund, Crash, CommitTakeOut, ledgerVars
<1> QED BY <1>2, <1>3, <1>4, <1>5

LEMMA TurnInit == Init => InTurn
  BY DEF Init, InTurn, Refunding, Idle

LEMMA TurnNext ==
    ASSUME \A k \in Keys : Serial(k), DrawerInv, BooksInv, InTurn, [Next]_vars
    PROVE  InTurn'
<1>1. CASE UNCHANGED <<line, pay, uses, call>>
  <2>1. ASSUME NEW d \in Calls, Refunding(call'[d]) PROVE TurnTaken(call[d])'
    <3>1. PICK r : r = call'[d]
      OBVIOUS
    <3>2. TurnTaken(r)
      BY <1>1, <2>1, <3>1 DEF InTurn
    <3>3. TurnTaken(r)'
      BY <1>1, <3>2, TurnStays DEF StillPaid
    <3> QED BY <3>1, <3>3
  <2> QED BY <2>1 DEF InTurn, Refunding
<1>2. ASSUME NEW c \in Calls, Proceed(c) PROVE InTurn'
  BY <1>2, StatementTurn, ReadTurn, UsesTurn, CapTurn, SaleTurn, RefundTurn,
     OtherTurn DEF Proceed
<1>3. CASE BreakDeadlock
  BY <1>3, RollbackTurn DEF BreakDeadlock
<1>4. CASE Elsewhere \/ UNCHANGED vars
  BY <1>1, <1>4 DEF Elsewhere, OpenDrawer, CloseWhenLeft, CloseDrawer,
                    SwitchCard, CancelVisit, vars, ledgerVars
<1> QED BY <1>2, <1>3, <1>4, StartRefundTurn, OtherTurn DEF Next

-----------------------------------------------------------------------------
(* Every step of the till is a step of the ledger, or none of it.          *)

OfKinds == \A c \in Calls : call[c].kind \in Kinds \cup {"none"}

LEMMA KindsStay ==
    ASSUME DrawerInv, OfKinds, NEW c \in Calls, NEW q,
           call' = [call EXCEPT ![c] = q], q.kind \in {call[c].kind, "none"} \cup Kinds
    PROVE  OfKinds'
  BY DEF DrawerInv, Shapes, OfKinds

LEMMA KindsNext == DrawerInv /\ BooksInv /\ OfKinds /\ [Next]_vars => OfKinds'
<1> SUFFICES ASSUME DrawerInv, BooksInv, OfKinds, [Next]_vars PROVE OfKinds'
  OBVIOUS
<1>1. Idle.kind = "none"
  BY DEF Idle
<1>2. ASSUME NEW c \in Calls, Rollback(c) PROVE OfKinds'
  <2>1. PICK q : q = IF call[c].redeemed
                     THEN [call[c] EXCEPT !.pc = "giveBack", !.session = 0, !.todo = <<>>]
                     ELSE Idle
    OBVIOUS
  <2>2. q.kind \in {call[c].kind, "none"}
    BY <1>1, <2>1 DEF DrawerInv, Shapes, AnyCall
  <2>3. call' = [call EXCEPT ![c] = q]
    BY <1>2, <2>1 DEF Rollback
  <2> QED BY <2>2, <2>3, KindsStay
<1>3. ASSUME NEW c \in Calls, NEW q, Begin(c, q) PROVE OfKinds'
  BY <1>3, KindsStay DEF Begin
<1>4. ASSUME NEW c \in Calls, StartSale(c) \/ StartTakeOut(c) \/ StartRefund(c)
      PROVE  OfKinds'
  <2>1. StartSale(c) => \E q : Begin(c, q)
    BY DEF StartSale
  <2>2. StartTakeOut(c) => \E q : Begin(c, q)
    BY DEF StartTakeOut
  <2>3. StartRefund(c) => \E q : Begin(c, q)
    BY DEF StartRefund
  <2> QED BY <1>3, <1>4, <2>1, <2>2, <2>3
<1>5. ASSUME NEW c \in Calls,
             \/ UpdateRow(c) \/ JoinDrawer(c) \/ ReadLines(c) \/ CountUses(c)
             \/ CheckCap(c)
      PROVE  OfKinds'
  <2>1. ASSUME NEW q, call' = [call EXCEPT ![c] = q], Keeps(q, call[c])
        PROVE  OfKinds'
    BY <2>1, KindsStay DEF Keeps
  <2> QED BY <1>2, <1>5, <2>1, StatementIs
<1>6. ASSUME NEW c \in Calls, RedeemPoints(c) PROVE OfKinds'
  <2>1. PICK q : q = [call[c] EXCEPT !.pc = "tx", !.redeemed = TRUE]
    OBVIOUS
  <2>2. /\ q.kind = call[c].kind
        /\ call' \in {[call EXCEPT ![c] = q], [call EXCEPT ![c] = Idle]}
    BY <1>6, <2>1 DEF DrawerInv, Shapes, AnyCall, RedeemPoints
  <2> QED BY <1>1, <2>2, KindsStay
<1>7. ASSUME NEW c \in Calls,
             \/ CommitSale(c) \/ CommitTakeOut(c) \/ GiveBackPoints(c)
             \/ AfterRefund(c) \/ Crash(c)
      PROVE  OfKinds'
  BY <1>1, <1>7, KindsStay
     DEF CommitSale, CommitTakeOut, GiveBackPoints, AfterRefund, Crash
<1>8. ASSUME NEW c \in Calls, CommitRefund(c) PROVE OfKinds'
  <2>1. PICK k : k = call[c].key
    OBVIOUS
  <2>2. PICK q : q = IF Full(c) /\ Body[k].reward
                     THEN [Idle EXCEPT !.pc = "after", !.kind = "refund", !.key = k]
                     ELSE Idle
    OBVIOUS
  <2>3. q.kind \in {"refund", "none"} /\ call[c].kind = "refund"
    BY <1>8, <2>2 DEF Idle, CommitRefund, Committing
  <2>4. call' = [call EXCEPT ![c] = q]
    BY <1>8, <2>1, <2>2 DEF CommitRefund
  <2> QED BY <2>3, <2>4, KindsStay
<1>9. CASE Elsewhere \/ UNCHANGED vars
  BY <1>9 DEF Elsewhere, vars, OfKinds
<1> QED BY <1>2, <1>4, <1>5, <1>6, <1>7, <1>8, <1>9
        DEF Next, Proceed, BreakDeadlock

\* A transaction that takes no cash may join no session, the ledger's any.
LEMMA SameDrawer ==
    ASSUME DrawerInv, NEW s, s # 0 => s = drawer, NEW n \in Int, s = 0 => n = 0,
           InDrawer(s, n)
    PROVE  InDrawer(drawer, n)
<1>1. cash \in [Sessions -> Int] /\ drawer \in 0..opened /\ opened \in 0..MaxSessions
  BY DEF DrawerInv, Shapes
<1>2. CASE s # 0
  BY <1>2
<1>3. CASE s = 0
  <2>1. cash' = cash /\ n = 0
    BY <1>3 DEF InDrawer
  <2>2. drawer # 0 => cash[drawer] \in Int
    BY <1>1, TicketsAssumption DEF Sessions
  <2>3. [cash EXCEPT ![drawer] = cash[drawer] + n] = cash \/ drawer = 0
    BY <1>1, <2>1, <2>2
  <2> QED BY <2>1, <2>3 DEF InDrawer
<1> QED BY <1>2, <1>3

LEMMA SaleIsSold ==
    ASSUME DrawerInv, BooksInv, NEW c \in Calls, CommitSale(c)
    PROVE  LedgerNext
<1>1. PICK k : k = call[c].key
  OBVIOUS
<1>2. /\ call[c] \in AnyCall /\ CallFits(call[c])
      /\ k \in Keys /\ k \notin sale
      /\ Body[k].promo => PromotionLeft
      /\ PaidBy(k, "gift") > 0 => CardPays(k)
      /\ Body[k].units > 0 => StockLasts(k)
      /\ PaysVisit(k) => Chargeable /\ VisitOwes(k)
      /\ TakesCash(k) => call[c].session # 0
  BY <1>1, SaleHolds DEF CommitSale
<1>3. call[c].session # 0 => call[c].session = drawer
  BY <1>2 DEF CallFits
<1>4. StockLasts(k)
  <2>1. stock \in Nat /\ Body[k].units \in Nat
    BY <1>2, AmountsAreInts DEF BooksInv, BooksShape
  <2> QED BY <1>2, <2>1 DEF StockLasts
<1>5. RecordSale(k, call[c].session)
  BY <1>1 DEF CommitSale
<1>6. InDrawer(drawer, PaidBy(k, "cash"))
  <2>1. PaidBy(k, "cash") \in Nat
    BY <1>2, GiftIsPaidByGift
  <2>2. call[c].session = 0 => PaidBy(k, "cash") = 0
    BY <1>2, <2>1 DEF TakesCash
  <2> QED BY <1>3, <1>5, <2>1, <2>2, SameDrawer DEF RecordSale
<1>7. RecordSale(k, drawer)
  BY <1>5, <1>6 DEF RecordSale
<1>8. Sellable(k)
  BY <1>2, <1>3, <1>4 DEF Sellable
<1> QED BY <1>2, <1>7, <1>8 DEF LedgerNext, Sell

\* Without a line named, no units count.
LEMMA NoneNamed ==
    \A k, t, amount, n, given, whole :
        Given(k, t, amount, "none", n, given, whole)
            = Given(k, t, amount, "none", 0, given, whole)
  BY DEF Given, Lines

(* A refund that commits gives back what it would by the books as they are *)
(* now, and releases the promotion when it would now.                      *)
LEMMA RefundIsWhole ==
    ASSUME DrawerInv, BooksInv, InTurn, NEW c \in Calls, CommitRefund(c),
           NEW k, k = call[c].key, NEW t, t = call[c].row,
           NEW amount, amount = call[c].amount,
           NEW named, named = call[c].named, NEW n, n = call[c].units,
           NEW whole, whole = (amount = Left(k, t) /\ StillPaid(k) \subseteq {t}),
           NEW give, give = IF t \in Lines
                            THEN Given(k, t, amount, named, n, line[k], whole)
                            ELSE NothingGiven
    PROVE  /\ RecordRefund(k, t, amount, give, whole, drawer)
           /\ named # "none" =>
                  /\ t \in Lines /\ named \in Lines
                  /\ n \in 1..(Quantity(k, named) - line[k][named].units)
                  /\ n \in 1..Body[k].units + 1
           /\ Method(k, t) = "cash" => drawer # 0
<1>1. PICK q : q = call[c]
  OBVIOUS
<1>2. /\ q \in AnyCall /\ CallFits(q) /\ RefundRuns(q) /\ Known(q)
      /\ k \in Keys /\ t \in Rows
      /\ pay[k][t].back = q.seen
      /\ amount \in 1..Left(k, t)
      /\ Method(k, t) = "cash" => q.session # 0
  BY <1>1, RefundHolds DEF CommitRefund
<1>3. TurnTaken(q) /\ Remaining(q.todo) = {}
  BY <1>1, RemainingOfEmpty DEF InTurn, Refunding, CommitRefund, Committing
<1>4. RecordRefund(k, t, amount, q.give, q.release, q.session)
  BY <1>1 DEF CommitRefund
<1>5. /\ whole = (FullOf(q) /\ LastPaid(q))
      /\ HasAsked(q) <=> FullOf(q)
      /\ HasRead(q) <=> t \in Lines
  BY <1>1, <1>2, <1>3 DEF FullOf, LastPaid, Left, HasAsked, HasRead
<1>6. (IF whole THEN uses \ {k} ELSE uses) = (IF q.release THEN uses \ {k} ELSE uses)
  <2>1. q.release => whole
    BY <1>1, <1>3, <1>5 DEF TurnTaken
  <2>2. whole /\ ~q.release => k \notin uses
    BY <1>1, <1>3, <1>5 DEF TurnTaken
  <2> QED BY <2>1, <2>2
<1>7. q.give = give
  BY <1>1, <1>2, <1>3, <1>5 DEF TurnTaken, GivesAsRead, RefundRuns
<1>8. q.session # 0 => q.session = drawer
  BY <1>2 DEF CallFits
<1>9. InDrawer(drawer, IF Method(k, t) = "cash" THEN -amount ELSE 0)
  <2>1. PICK m : m = IF Method(k, t) = "cash" THEN -amount ELSE 0
    OBVIOUS
  <2>2. m \in Int /\ (q.session = 0 => m = 0)
    BY <1>1, <1>2, <2>1 DEF AnyCall
  <2>3. InDrawer(q.session, m)
    BY <1>4, <2>1 DEF RecordRefund
  <2> QED BY <1>8, <2>1, <2>2, <2>3, SameDrawer
<1>10. RecordRefund(k, t, amount, give, whole, drawer)
  BY <1>4, <1>6, <1>7, <1>9 DEF RecordRefund
<1>11. ASSUME named # "none"
       PROVE  /\ t \in Lines /\ named \in Lines
              /\ n \in 1..(Quantity(k, named) - line[k][named].units)
              /\ n \in 1..Body[k].units + 1
  <2>1. t \in Lines /\ named \in Lines /\ n \in Int /\ n >= 1
    BY <1>1, <1>2, <1>3, <1>11 DEF TurnTaken, AnyCall
  <2>2. n <= Quantity(k, named) - line[k][named].units
    BY <1>1, <1>3, <1>5, <1>11, <2>1 DEF TurnTaken, GivesAsRead
  <2>3. /\ Quantity(k, named) \in Nat /\ Body[k].units \in Nat
        /\ line[k][named].units \in 0..Quantity(k, named)
        /\ Quantity(k, named) <= Body[k].units + 1
    BY <1>2, <2>1, AmountsAreInts DEF BooksInv, WithinTicket, Quantity
  <2> QED BY <2>1, <2>2, <2>3
<1> QED BY <1>2, <1>8, <1>10, <1>11

LEMMA RefundIsGiven ==
    ASSUME DrawerInv, BooksInv, InTurn, NEW c \in Calls, CommitRefund(c)
    PROVE  LedgerNext
<1>1. PICK k, t, amount, named, n :
          /\ k = call[c].key /\ t = call[c].row /\ amount = call[c].amount
          /\ named = call[c].named /\ n = call[c].units
  OBVIOUS
<1>2. /\ k \in sale /\ t \in StillPaid(k) /\ pay[k][t].st = "paid"
      /\ amount \in 1..Left(k, t)
      /\ t = "gift" => SoldCardHas(k, amount)
      /\ Method(k, t) = "gift" => CardTakesBack(Body[k].card)
  BY <1>1, RefundHolds DEF CommitRefund, StillPaid
<1>3. PICK whole : whole = (amount = Left(k, t) /\ StillPaid(k) \subseteq {t})
  OBVIOUS
<1>4. PICK give : give = IF t \in Lines
                         THEN Given(k, t, amount, named, n, line[k], whole)
                         ELSE NothingGiven
  OBVIOUS
<1>5. /\ RecordRefund(k, t, amount, give, whole, drawer)
      /\ named # "none" =>
             /\ t \in Lines /\ named \in Lines
             /\ n \in 1..(Quantity(k, named) - line[k][named].units)
             /\ n \in 1..Body[k].units + 1
      /\ Method(k, t) = "cash" => drawer # 0
  <2>1. RecordRefund(k, t, amount, give, whole, drawer)
    BY <1>1, <1>3, <1>4, RefundIsWhole
  <2>2. named # "none" => /\ t \in Lines /\ named \in Lines
                          /\ n \in 1..(Quantity(k, named) - line[k][named].units)
                          /\ n \in 1..Body[k].units + 1
    BY <1>1, RefundIsWhole
  <2>3. Method(k, t) = "cash" => drawer # 0
    BY <1>1, RefundIsWhole
  <2> QED BY <2>1, <2>2, <2>3
<1>6. CASE named = "none"
  <2>1. give = IF t \in Lines
               THEN Given(k, t, amount, "none", 0, line[k], whole)
               ELSE NothingGiven
    BY <1>4, <1>6, NoneNamed
  <2>2. Refund(k, t, amount, "none", 0)
    BY <1>2, <1>3, <1>5, <2>1 DEF Refund
  <2> QED BY <1>2, <2>2 DEF LedgerNext
<1>7. CASE named # "none"
  <2>1. Refund(k, t, amount, named, n)
    BY <1>2, <1>3, <1>4, <1>5, <1>7 DEF Refund
  <2> QED BY <1>2, <1>5, <1>7, <2>1 DEF LedgerNext
<1> QED BY <1>6, <1>7

LEMMA StepIsLedgerStep ==
    ASSUME "takeOut" \notin Kinds,
           DrawerInv, BooksInv, InTurn, OfKinds, [Next]_vars
    PROVE  [LedgerNext]_ledgerVars
<1>1. ASSUME NEW c \in Calls, Proceed(c) PROVE [LedgerNext]_ledgerVars
  <2>1. CASE RedeemPoints(c) \/ GiveBackPoints(c) \/ AfterRefund(c)
    BY <2>1 DEF RedeemPoints, GiveBackPoints, AfterRefund
  <2>2. CASE \/ UpdateRow(c) \/ JoinDrawer(c) \/ ReadLines(c) \/ CountUses(c)
             \/ CheckCap(c)
    BY <2>2, StatementIs
  <2>3. CASE CommitTakeOut(c)
    BY <2>3 DEF CommitTakeOut, Committing, OfKinds
  <2> QED BY <1>1, <2>1, <2>2, <2>3, SaleIsSold, RefundIsGiven DEF Proceed
<1>2. ASSUME NEW c \in Calls,
             StartSale(c) \/ StartRefund(c) \/ StartTakeOut(c) \/ Crash(c)
      PROVE  UNCHANGED ledgerVars
  <2>1. ASSUME NEW q, Begin(c, q) PROVE UNCHANGED ledgerVars
    BY <2>1 DEF Begin
  <2>2. StartSale(c) => UNCHANGED ledgerVars
    BY <2>1 DEF StartSale
  <2>3. StartRefund(c) => UNCHANGED ledgerVars
    BY <2>1 DEF StartRefund
  <2>4. StartTakeOut(c) => UNCHANGED ledgerVars
    BY <2>1 DEF StartTakeOut
  <2> QED BY <1>2, <2>2, <2>3, <2>4 DEF Crash
<1>3. CASE BreakDeadlock
  BY <1>3 DEF BreakDeadlock, Rollback
<1>4. CASE Elsewhere
  BY <1>4, CallsAssumption DEF Elsewhere, CloseWhenLeft, LedgerNext
<1>5. CASE UNCHANGED vars
  BY <1>5 DEF vars
<1> QED BY <1>1, <1>2, <1>3, <1>4, <1>5 DEF Next

(* The code's transactions amount to the ledger: each sale and each refund *)
(* that commits is written whole against the books as they are then,       *)
(* though it read them long before.  It holds where any two payments of a  *)
(* sale are given back under the commission lock, and without the manual   *)
(* movements, whose cap is read before they commit; a lock on the row      *)
(* alone is not enough (processCheckout, refundPayment).                   *)
THEOREM TillImplementsLedger ==
    ASSUME \A k \in Keys : Serial(k), "takeOut" \notin Kinds
    PROVE  Spec => LedgerSpec
<1>1. Init => LedgerInit /\ OfKinds
  BY DEF Init, OfKinds, Idle
<1>2. DrawerInv /\ BooksInv /\ InTurn /\ [Next]_vars => InTurn'
  BY TurnNext
<1>3. DrawerInv /\ BooksInv /\ InTurn /\ OfKinds /\ [Next]_vars
          => [LedgerNext]_ledgerVars
  BY StepIsLedgerStep
<1>4. [LedgerNext]_ledgerVars => [ledgerVars' # ledgerVars /\ LedgerNext]_ledgerVars
  OBVIOUS
<1> QED BY <1>1, <1>2, <1>3, <1>4, TurnInit, KindsNext, BooksInit, BooksNext,
           DrawerInit, DrawerNext, PTL DEF Spec, LedgerSpec

-----------------------------------------------------------------------------
(* The whole sale comes back: the last refund of it gives back all that is *)
(* left, and its call is not over before the points are.                   *)

\* A sale of services and products, some of it paid.
OfLines(k) == /\ Amount(k, "visit") = 0 /\ Amount(k, "gift") = 0
              /\ \E l \in Lines : Amount(k, l) > 0

AllBack(k) == /\ \A l \in Lines : line[k][l].units = Quantity(k, l)
              /\ k \notin uses
              /\ reward[k] = "spent" =>
                     \E c \in Calls : call[c].pc = "after" /\ call[c].key = k

WholeInv == \A k \in Keys : /\ GivenBack(k) => AllBack(k)
                            /\ reward[k] = "spent" => Body[k].reward

\* Nothing happens to sale k.
LEMMA WholeStays ==
    ASSUME NEW k \in Keys, GivenBack(k) => AllBack(k),
           k \in sale' <=> k \in sale, k \in uses' <=> k \in uses,
           pay'[k] = pay[k], line'[k] = line[k], reward'[k] = reward[k],
           \A d \in Calls : call[d].pc = "after" /\ call[d].key = k
                                => call'[d] = call[d]
    PROVE  GivenBack(k)' => AllBack(k)'
<1> SUFFICES ASSUME GivenBack(k)' PROVE AllBack(k)'
  OBVIOUS
<1>1. AllBack(k)
  BY DEF GivenBack, StillPaid
<1>2. \A l \in Lines : line'[k][l].units = Quantity(k, l)
  BY <1>1 DEF AllBack
<1>3. ASSUME reward'[k] = "spent"
      PROVE  \E d \in Calls : call'[d].pc = "after" /\ call'[d].key = k
  <2>1. PICK d \in Calls : call[d].pc = "after" /\ call[d].key = k
    BY <1>1, <1>3 DEF AllBack
  <2> QED BY <2>1
<1> QED BY <1>1, <1>2, <1>3 DEF AllBack

LEMMA WholeKept ==
    ASSUME DrawerInv, WholeInv, UNCHANGED <<sale, pay, line, uses, reward>>,
           \A d \in Calls : call[d].pc = "after" => call'[d] = call[d]
    PROVE  WholeInv'
  BY WholeStays DEF WholeInv

LEMMA WholeAtSale ==
    ASSUME \A k \in Keys : OfLines(k),
           DrawerInv, BooksInv, WholeInv, NEW c \in Calls, CommitSale(c)
    PROVE  WholeInv'
<1>1. PICK k : k = call[c].key
  OBVIOUS
<1>2. k \in Keys /\ k \notin sale /\ call[c].pc = "tx"
  BY <1>1, SaleHolds DEF CommitSale, Committing
<1>3. /\ RecordSale(k, call[c].session)
      /\ reward' = [reward EXCEPT ![k] = IF Body[k].reward THEN "spent" ELSE @]
      /\ call' = [call EXCEPT ![c] = Idle]
  BY <1>1 DEF CommitSale
<1>4. reward \in [Keys -> {"none", "spent", "back"}] /\ reward[k] = "none"
  BY <1>2 DEF BooksInv, BooksShape, NoTrace
<1>5. ~GivenBack(k)'
  <2>1. PICK l \in Lines : Amount(k, l) > 0
    BY <1>2 DEF OfLines
  <2>2. pay'[k] = [t \in Rows |-> IF Amount(k, t) > 0
                                  THEN [st |-> "paid", back |-> 0] ELSE NoPayment]
    BY <1>2, <1>3 DEF RecordSale, DrawerInv, Shapes
  <2>3. l \in StillPaid(k)'
    BY <2>1, <2>2 DEF StillPaid, Lines, Rows
  <2> QED BY <2>3 DEF GivenBack
<1>6. ASSUME NEW j \in Keys \ {k} PROVE GivenBack(j)' => AllBack(j)'
  <2>1. /\ j \in sale' <=> j \in sale
        /\ j \in uses' <=> j \in uses
        /\ pay'[j] = pay[j] /\ line'[j] = line[j]
    BY <1>2, <1>3 DEF RecordSale, DrawerInv, Shapes
  <2>2. reward'[j] = reward[j] /\ \A d \in Calls \ {c} : call'[d] = call[d]
    BY <1>3, <1>4 DEF DrawerInv, Shapes
  <2> QED BY <1>2, <2>1, <2>2, WholeStays DEF WholeInv
<1>7. \A j \in Keys : reward'[j] = "spent" => Body[j].reward
  BY <1>2, <1>3, <1>4 DEF WholeInv
<1> QED BY <1>5, <1>6, <1>7 DEF WholeInv

LEMMA WholeAtRefund ==
    ASSUME \A k \in Keys : OfLines(k),
           DrawerInv, BooksInv, InTurn, WholeInv, NEW c \in Calls, CommitRefund(c)
    PROVE  WholeInv'
<1>1. PICK k, t, amount, named, n :
          /\ k = call[c].key /\ t = call[c].row /\ amount = call[c].amount
          /\ named = call[c].named /\ n = call[c].units
  OBVIOUS
<1>2. /\ k \in Keys /\ t \in Rows /\ call[c].pc = "tx"
      /\ pay[k][t].back = call[c].seen /\ amount \in 1..Left(k, t)
  BY <1>1, RefundHolds DEF CommitRefund, Committing
<1>3. PICK whole : whole = (amount = Left(k, t) /\ StillPaid(k) \subseteq {t})
  OBVIOUS
<1>4. t \in Lines
  <2>1. Amount(k, t) \in Nat /\ pay[k][t].back \in 0..Amount(k, t)
    BY <1>2, AmountsAreInts DEF BooksInv, WithinTicket
  <2>2. Amount(k, t) > 0
    BY <1>2, <2>1 DEF Left
  <2> QED BY <1>2, <2>2 DEF OfLines, Rows, Lines
<1>5. RecordRefund(k, t, amount, Given(k, t, amount, named, n, line[k], whole),
                   whole, drawer)
  <2>1. PICK give : give = Given(k, t, amount, named, n, line[k], whole)
    OBVIOUS
  <2>2. give = IF t \in Lines
               THEN Given(k, t, amount, named, n, line[k], whole)
               ELSE NothingGiven
    BY <1>4, <2>1
  <2> QED BY <1>1, <1>3, <2>1, <2>2, RefundIsWhole
<1>6. PICK q : /\ call' = [call EXCEPT ![c] = q]
               /\ q = IF Full(c) /\ Body[k].reward
                      THEN [Idle EXCEPT !.pc = "after", !.kind = "refund", !.key = k]
                      ELSE Idle
  BY <1>1 DEF CommitRefund
<1>7. /\ call'[c] = q /\ \A d \in Calls \ {c} : call'[d] = call[d]
      /\ UNCHANGED <<sale, reward>>
  BY <1>5, <1>6 DEF RecordRefund, CommitRefund, DrawerInv, Shapes
<1>8. ASSUME NEW j \in Keys \ {k} PROVE GivenBack(j)' => AllBack(j)'
  <2>1. /\ j \in uses' <=> j \in uses
        /\ pay'[j] = pay[j] /\ line'[j] = line[j]
    BY <1>2, <1>5 DEF RecordRefund, DrawerInv, Shapes
  <2> QED BY <1>2, <1>7, <2>1, WholeStays DEF WholeInv
<1>9. ASSUME GivenBack(k)' PROVE AllBack(k)'
  <2>1. PICK p : p = [st   |-> IF amount = Left(k, t) THEN "refunded" ELSE "paid",
                      back |-> pay[k][t].back + amount]
    OBVIOUS
  <2>2. pay'[k][t] = p /\ \A z \in Rows \ {t} : pay'[k][z] = pay[k][z]
    <3>1. pay' = [pay EXCEPT ![k][t] = p]
      BY <1>5, <2>1 DEF RecordRefund
    <3> QED BY <1>2, <3>1 DEF DrawerInv, Shapes
  <2>3. p.st = "paid" <=> amount # Left(k, t)
    BY <2>1
  <2>4. whole
    BY <1>2, <1>3, <1>9, <2>2, <2>3 DEF GivenBack, StillPaid
  <2>5. ASSUME NEW l \in Lines PROVE line'[k][l].units = Quantity(k, l)
    <3>1. line'[k][l].units = line[k][l].units + (Quantity(k, l) - line[k][l].units)
      <4>1. PICK g : g = Given(k, t, amount, named, n, line[k], whole)
        OBVIOUS
      <4>2. g[l].units = Quantity(k, l) - line[k][l].units
        BY <2>4, <4>1 DEF Given
      <4>3. line'[k][l].units = line[k][l].units + g[l].units
        BY <1>2, <1>5, <4>1 DEF RecordRefund, DrawerInv, Shapes
      <4> QED BY <4>2, <4>3
    <3>2. Quantity(k, l) \in Nat /\ line[k][l].units \in 0..Quantity(k, l)
      BY <1>2, AmountsAreInts DEF BooksInv, WithinTicket
    <3> QED BY <3>1, <3>2
  <2>6. k \notin uses'
    BY <1>5, <2>4 DEF RecordRefund
  <2>7. ASSUME reward'[k] = "spent"
        PROVE  call'[c].pc = "after" /\ call'[c].key = k
    <3>1. Body[k].reward
      BY <1>2, <1>7, <2>7 DEF WholeInv
    <3>2. Full(c)
      BY <1>1, <1>2, <1>3, <2>4 DEF Full, Left
    <3>3. q = [Idle EXCEPT !.pc = "after", !.kind = "refund", !.key = k]
      BY <1>6, <3>1, <3>2
    <3>4. q.pc = "after" /\ q.key = k
      BY <3>3 DEF Idle
    <3> QED BY <1>7, <3>4
  <2> QED BY <2>5, <2>6, <2>7 DEF AllBack
<1>10. \A j \in Keys : reward'[j] = "spent" => Body[j].reward
  BY <1>7 DEF WholeInv
<1> QED BY <1>8, <1>9, <1>10 DEF WholeInv

LEMMA WholeAfter ==
    ASSUME DrawerInv, BooksInv, WholeInv, NEW c \in Calls, AfterRefund(c)
    PROVE  WholeInv'
<1>1. PICK k : k = call[c].key
  OBVIOUS
<1>2. /\ UNCHANGED <<sale, pay, line, uses>>
      /\ call' = [call EXCEPT ![c] = Idle]
      /\ \A d \in Calls \ {c} : call'[d] = call[d]
      /\ IF StillPaid(k) = {} /\ reward[k] = "spent"
         THEN reward' = [reward EXCEPT ![k] = "back"] ELSE reward' = reward
  BY <1>1 DEF AfterRefund, ledgerVars, DrawerInv, Shapes
<1>3. reward \in [Keys -> {"none", "spent", "back"}]
  BY DEF BooksInv, BooksShape
<1>4. ASSUME NEW j \in Keys, j # k PROVE GivenBack(j)' => AllBack(j)'
  <2>1. reward'[j] = reward[j]
    BY <1>2, <1>3, <1>4
  <2>2. \A d \in Calls : call[d].key = j => call'[d] = call[d]
    BY <1>1, <1>2, <1>4
  <2> QED BY <1>2, <2>1, <2>2, WholeStays DEF WholeInv
<1>5. ASSUME k \in Keys, GivenBack(k)' PROVE AllBack(k)'
  <2>1. GivenBack(k) /\ StillPaid(k) = {}
    BY <1>2, <1>5 DEF GivenBack, StillPaid
  <2>2. AllBack(k)
    BY <1>5, <2>1 DEF WholeInv
  <2>3. reward'[k] # "spent"
    BY <1>2, <1>3, <1>5, <2>1
  <2> QED BY <1>2, <2>2, <2>3 DEF AllBack
<1>6. ASSUME NEW j \in Keys, reward'[j] = "spent" PROVE Body[j].reward
  BY <1>2, <1>3, <1>6 DEF WholeInv
<1> QED BY <1>4, <1>5, <1>6 DEF WholeInv

LEMMA WholeNext ==
    ASSUME \A k \in Keys : OfLines(k), "crash" \notin Faults,
           DrawerInv, BooksInv, InTurn, WholeInv, [Next]_vars
    PROVE  WholeInv'
<1>1. ASSUME NEW c \in Calls, call[c].pc # "after",
             UNCHANGED <<sale, pay, line, uses, reward>>,
             \E q : call' = [call EXCEPT ![c] = q]
      PROVE  WholeInv'
  <2>1. \A d \in Calls : call[d].pc = "after" => call'[d] = call[d]
    BY <1>1 DEF DrawerInv, Shapes
  <2> QED BY <1>1, <2>1, WholeKept
<1>2. ASSUME NEW c \in Calls, NEW q, Begin(c, q) PROVE WholeInv'
  <2>1. call[c].pc # "after"
    BY <1>2 DEF Begin, Idle
  <2> QED BY <1>1, <1>2, <2>1 DEF Begin, ledgerVars
<1>3. ASSUME NEW c \in Calls, StartSale(c) \/ StartRefund(c) \/ StartTakeOut(c)
      PROVE  WholeInv'
  <2>1. StartSale(c) => \E q : Begin(c, q)
    BY DEF StartSale
  <2>2. StartRefund(c) => \E q : Begin(c, q)
    BY DEF StartRefund
  <2>3. StartTakeOut(c) => \E q : Begin(c, q)
    BY DEF StartTakeOut
  <2> QED BY <1>2, <1>3, <2>1, <2>2, <2>3
<1>4. ASSUME NEW c \in Calls, Rollback(c), call[c].pc = "tx" PROVE WholeInv'
  BY <1>1, <1>4 DEF Rollback, ledgerVars
<1>5. ASSUME NEW c \in Calls, Proceed(c) PROVE WholeInv'
  <2>1. CASE \/ UpdateRow(c) \/ JoinDrawer(c) \/ ReadLines(c) \/ CountUses(c)
             \/ CheckCap(c)
    <3>1. /\ call[c].pc = "tx"
          /\ UNCHANGED <<ledgerVars, points, reward>>
          /\ Rollback(c) \/ \E q : call' = [call EXCEPT ![c] = q]
      BY <2>1, StatementIs
    <3> QED BY <1>1, <1>4, <3>1 DEF ledgerVars
  <2>2. CASE RedeemPoints(c)
    <3>1. PICK q : q = [call[c] EXCEPT !.pc = "tx", !.redeemed = TRUE]
      OBVIOUS
    <3>2. call' \in {[call EXCEPT ![c] = q], [call EXCEPT ![c] = Idle]}
      BY <2>2, <3>1 DEF DrawerInv, Shapes, RedeemPoints
    <3> QED BY <1>1, <2>2, <3>2 DEF RedeemPoints, ledgerVars
  <2>3. CASE CommitTakeOut(c)
    BY <1>1, <2>3 DEF CommitTakeOut, Committing
  <2>4. CASE GiveBackPoints(c)
    BY <1>1, <2>4 DEF GiveBackPoints, ledgerVars
  <2> QED BY <1>5, <2>1, <2>2, <2>3, <2>4, WholeAtSale, WholeAtRefund,
             WholeAfter DEF Proceed
<1>6. CASE BreakDeadlock
  <2>1. PICK S \in SUBSET Calls : Circle(S) /\ \E c \in S : Rollback(c)
    BY <1>6 DEF BreakDeadlock
  <2>2. PICK c \in S : Rollback(c)
    BY <2>1
  <2>3. c \in Calls /\ call[c].pc = "tx"
    BY <2>1 DEF Circle, Waiting, Running
  <2> QED BY <1>4, <2>2, <2>3
<1>7. CASE Elsewhere \/ UNCHANGED vars
  <2>1. UNCHANGED <<sale, pay, line, uses, reward, call>>
    BY <1>7 DEF Elsewhere, OpenDrawer, CloseWhenLeft, CloseDrawer, SwitchCard,
                CancelVisit, vars, ledgerVars
  <2> QED BY <2>1, WholeKept
<1>8. \A c \in Calls : ~Crash(c)
  BY DEF Crash
<1> QED BY <1>3, <1>5, <1>6, <1>7, <1>8 DEF Next

(* Once no payment of a sale is left paid and its calls are over, every    *)
(* unit, the points and the promotion's use came back, whichever refund    *)
(* was the last: it saw that it was, because the others were through or    *)
(* waited for it.  It takes sales of lines alone, given back under the     *)
(* commission lock, and no process that dies between the last refund and   *)
(* the points (refundPayment, giveBackLines, onPaymentRefunded).           *)
THEOREM WholeSaleReturns ==
    ASSUME \A k \in Keys : Serial(k) /\ OfLines(k), "crash" \notin Faults
    PROVE  Spec => []WholeSaleComesBack
<1>1. Init => WholeInv
  BY DEF Init, LedgerInit, WholeInv, GivenBack
<1>2. DrawerInv /\ BooksInv /\ InTurn /\ [Next]_vars => InTurn'
  BY TurnNext
<1>3. DrawerInv /\ BooksInv /\ InTurn /\ WholeInv /\ [Next]_vars => WholeInv'
  BY WholeNext
<1>4. DrawerInv /\ WholeInv => WholeSaleComesBack
  <2> SUFFICES ASSUME DrawerInv, WholeInv, NEW k \in Keys, GivenBack(k), ~Busy(k)
               PROVE  /\ \A l \in Lines : line[k][l].units = Quantity(k, l)
                      /\ reward[k] # "spent"
                      /\ k \notin uses
    BY DEF WholeSaleComesBack
  <2>1. AllBack(k)
    BY DEF WholeInv
  <2>2. reward[k] # "spent"
    <3>1. SUFFICES ASSUME NEW c \in Calls, call[c].pc = "after", call[c].key = k
                   PROVE  FALSE
      BY <2>1 DEF AllBack
    <3>2. call[c] # Idle
      BY <3>1 DEF Idle
    <3> QED BY <3>1, <3>2 DEF Busy
  <2> QED BY <2>1, <2>2 DEF AllBack
<1> QED BY <1>1, <1>2, <1>3, <1>4, TurnInit, BooksInit, BooksNext,
           DrawerInit, DrawerNext, PTL DEF Spec
=============================================================================
