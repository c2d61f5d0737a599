----------------------------- MODULE TillProofs -----------------------------
(***************************************************************************)
(* Proofs about Till, for every number of tills, tickets, cards, sessions  *)
(* and amounts: what is counted when the drawer closes is never changed.   *)
(***************************************************************************)
EXTENDS Till, TLAPS

Returned == [units : Int, cents : Int]

StepLists == Seq(Steps)

\* The shape of a call, whatever its amounts.
AnyCall == [pc : PCs, kind : CallKinds \cup {"none"}, key : Keys \cup {NoKey},
            row : Rows, amount : Int, named : Lines \cup {"none"},
            units : Int, seen : Int, seenLine : [Lines -> Returned],
            give : [Lines -> Returned], session : 0..MaxSessions,
            redeemed : BOOLEAN, release : BOOLEAN, todo : StepLists]

Shapes == /\ call \in [Calls -> AnyCall]
          /\ line \in [Keys -> [Lines -> Returned]]
          /\ pay \in [Keys -> [Rows -> [st : {"none", "paid", "refunded"},
                                        back : Int]]]
          /\ visit \in [paid : Int, st : {"pending", "paid", "refunded"},
                        live : BOOLEAN]
          /\ cash \in [Sessions -> Int]
          /\ counted \in [Sessions -> Int]
          /\ opened \in 0..MaxSessions
          /\ drawer \in 0..opened
          /\ sale \subseteq Keys

\* What is left to do of a movement.
TakeOutSteps == {<<"drawer", "cap">>, <<"cap">>, << >>}

\* A sale or refund is of a ticket, and a transaction that joined a cash
\* session runs while that session is open.
CallFits(q) == /\ q.kind \in {"sale", "refund"} => q.key \in Keys
               /\ q.pc # "idle" => q.kind # "none"
               /\ q.kind = "takeOut" => q.todo \in TakeOutSteps
               /\ q.session # 0 => q.pc = "tx" /\ q.session = drawer

DrawerInv == /\ Shapes
             /\ \A c \in Calls : CallFits(call[c])
             /\ DrawerCountStands

-----------------------------------------------------------------------------
LEMMA IdleIsCall == Idle \in AnyCall /\ CallFits(Idle)
<1>1. MaxSessions \in Nat
  BY TicketsAssumption
<1>2. NothingGiven \in [Lines -> Returned]
  BY DEF NothingGiven, Returned
<1>3. << >> \in StepLists
  BY DEF StepLists
<1> QED BY <1>1, <1>2, <1>3 DEF Idle, AnyCall, PCs, Rows, CallFits

LEMMA WhenIsSteps ==
    ASSUME NEW p, NEW s \in Steps PROVE When(p, s) \in StepLists
<1>1. CASE p BY <1>1 DEF When, StepLists
<1>2. CASE ~p BY <1>2 DEF When, StepLists
<1> QED BY <1>1, <1>2

LEMMA SaleStepsAreSteps ==
    ASSUME NEW k PROVE SaleSteps(k) \in StepLists
<1>1. <<"drawer", "key">> \in StepLists
  BY DEF StepLists, Steps, RowSteps, ReadSteps
<1>2. \A p : \A s \in {"promo", "card", "stock", "visit"} : When(p, s) \in StepLists
  BY WhenIsSteps DEF Steps, RowSteps
<1> QED BY <1>1, <1>2 DEF SaleSteps, StepLists

LEMMA RefundStepsAreSteps ==
    ASSUME NEW k, NEW t, NEW full
    PROVE  /\ RefundSteps(k, t) \in StepLists
           /\ RefundEnd(k, t, full) \in StepLists
<1>1. <<"pay", "drawer">> \in StepLists
  BY DEF StepLists, Steps, RowSteps, ReadSteps
<1>2. \A p : \A s \in {"prof", "read", "visit", "card", "sold", "uses"} :
        When(p, s) \in StepLists
  BY WhenIsSteps DEF Steps, RowSteps, ReadSteps
<1> QED BY <1>1, <1>2 DEF RefundSteps, RefundEnd, StepLists

LEMMA TailIsSteps ==
    ASSUME NEW s \in StepLists, s # << >> PROVE Tail(s) \in StepLists
  BY DEF StepLists

LEMMA MovementGoesOn ==
    /\ <<"drawer", "cap">> \in TakeOutSteps
    /\ << >> \in TakeOutSteps
    /\ \A s \in TakeOutSteps : s # << >> => Tail(s) \in TakeOutSteps
<1>1. ASSUME NEW s \in TakeOutSteps, s # << >> PROVE Tail(s) \in TakeOutSteps
  <2>1. CASE s = <<"drawer", "cap">>
    <3>1. Tail(s) = <<"cap">>
      BY <2>1
    <3> QED BY <3>1 DEF TakeOutSteps
  <2>2. CASE s = <<"cap">>
    <3>1. Tail(s) = << >>
      BY <2>2
    <3> QED BY <3>1 DEF TakeOutSteps
  <2> QED BY <1>1, <2>1, <2>2 DEF TakeOutSteps
<1> QED BY <1>1 DEF TakeOutSteps

LEMMA AmountsAreInts ==
    ASSUME NEW k \in Keys
    PROVE  /\ \A t \in Rows : Amount(k, t) \in Nat
           /\ \A m : PaidBy(k, m) \in Int
           /\ Body[k].units \in Nat
           /\ \A l \in Lines : Quantity(k, l) \in Nat
<1>1. Body[k] \in Ticket
  BY TicketsAssumption
<1>2. \A t \in Rows : Amount(k, t) \in Nat
  BY <1>1 DEF Ticket, Amount
<1>3. ASSUME NEW m PROVE PaidBy(k, m) \in Int
  BY <1>2 DEF PaidBy, Total, Rows
<1>4. Body[k].units \in Nat
  BY <1>1 DEF Ticket
<1> QED BY <1>2, <1>3, <1>4 DEF Quantity

(* What a refund gives back is in money and units.                         *)
LEMMA GivenIsGiven ==
    ASSUME NEW k \in Keys, NEW t, NEW amount \in Int,
           NEW named \in Lines \cup {"none"}, NEW n \in Int,
           NEW given \in [Lines -> Returned], NEW whole
    PROVE  Given(k, t, amount, named, n, given, whole) \in [Lines -> Returned]
<1>1. \A l \in Lines : /\ given[l].units \in Int /\ given[l].cents \in Int
                       /\ Quantity(k, l) \in Int /\ Amount(k, l) \in Int
  BY AmountsAreInts DEF Returned, Lines, Rows
<1>2. \A l \in Lines : Least(amount, Amount(k, l) - given[l].cents) \in Int
  BY <1>1 DEF Least
<1> QED BY <1>1, <1>2 DEF Given, Returned

-----------------------------------------------------------------------------
(* A step that changes one call and none of the books.                     *)
LEMMA CallStep ==
    ASSUME DrawerInv, NEW c \in Calls, NEW q \in AnyCall, CallFits(q),
           call' = [call EXCEPT ![c] = q], UNCHANGED ledgerVars
    PROVE  DrawerInv'
<1>1. Shapes'
  BY DEF DrawerInv, Shapes, ledgerVars
<1>2. \A d \in Calls : CallFits(call[d])'
  BY DEF DrawerInv, Shapes, CallFits, ledgerVars
<1>3. DrawerCountStands'
  BY DEF DrawerInv, DrawerCountStands, ledgerVars
<1> QED BY <1>1, <1>2, <1>3 DEF DrawerInv

LEMMA RollbackStep ==
    ASSUME DrawerInv, NEW c \in Calls, call[c].pc = "tx", Rollback(c)
    PROVE  DrawerInv'
<1> DEFINE q == IF call[c].redeemed
                THEN [call[c] EXCEPT !.pc = "giveBack",
                                     !.session = 0, !.todo = <<>>]
                ELSE Idle
<1>1. call' = [call EXCEPT ![c] = q] /\ UNCHANGED ledgerVars
  BY DEF Rollback
<1>2. call[c] \in AnyCall /\ CallFits(call[c]) /\ MaxSessions \in Nat
  BY TicketsAssumption DEF DrawerInv, Shapes
<1>3. << >> \in StepLists
  BY DEF StepLists
<1>4. CASE call[c].redeemed
  <2>1. [call[c] EXCEPT !.pc = "giveBack", !.session = 0, !.todo = <<>>] \in AnyCall
    <3>1. 0 \in 0..MaxSessions /\ "giveBack" \in PCs
      BY <1>2 DEF PCs
    <3> QED BY <1>2, <1>3, <3>1 DEF AnyCall
  <2>2. CallFits([call[c] EXCEPT !.pc = "giveBack", !.session = 0, !.todo = <<>>])
    BY <1>2, MovementGoesOn DEF AnyCall, CallFits, PCs
  <2> QED BY <1>4, <2>1, <2>2, <1>1, CallStep
<1>5. CASE ~call[c].redeemed
  BY <1>5, <1>1, IdleIsCall, CallStep
<1> QED BY <1>4, <1>5

LEMMA StartSaleStep ==
    ASSUME DrawerInv, NEW c \in Calls, StartSale(c) PROVE DrawerInv'
<1>1. PICK k \in Keys \ sale :
        Begin(c, [Idle EXCEPT
                !.pc = IF Body[k].reward THEN "points" ELSE "tx",
                !.kind = "sale", !.key = k, !.seen = visit.paid,
                !.todo = SaleSteps(k)])
  BY DEF StartSale
<1> DEFINE p == IF Body[k].reward THEN "points" ELSE "tx"
           q == [Idle EXCEPT !.pc = p, !.kind = "sale", !.key = k,
                             !.seen = visit.paid, !.todo = SaleSteps(k)]
<1>2. p \in PCs /\ "sale" \in CallKinds /\ visit.paid \in Int
  BY DEF PCs, CallKinds, DrawerInv, Shapes
<1>3. q \in AnyCall
  BY <1>2, IdleIsCall, SaleStepsAreSteps DEF AnyCall
<1>4. CallFits(q)
  BY DEF Idle, CallFits
<1> QED BY <1>1, <1>3, <1>4, CallStep DEF Begin

LEMMA StartRefundStep ==
    ASSUME DrawerInv, NEW c \in Calls, StartRefund(c) PROVE DrawerInv'
<1>1. PICK k \in sale, t \in Rows : \E amount \in 1..Left(k, t) :
      \E named \in {"none"} \cup (IF t \in Lines THEN Lines ELSE {}) :
        \E n \in IF named = "none" THEN {0}
                 ELSE 1..(Quantity(k, named) - line[k][named].units) :
          Begin(c, RefundCall(k, t, amount, named, n))
  BY DEF StartRefund
<1>2. PICK amount \in 1..Left(k, t),
           named \in {"none"} \cup (IF t \in Lines THEN Lines ELSE {}) :
        \E n \in IF named = "none" THEN {0}
                 ELSE 1..(Quantity(k, named) - line[k][named].units) :
          Begin(c, RefundCall(k, t, amount, named, n))
  BY <1>1
<1>3. PICK n \in IF named = "none" THEN {0}
                 ELSE 1..(Quantity(k, named) - line[k][named].units) :
          Begin(c, RefundCall(k, t, amount, named, n))
  BY <1>2
<1> DEFINE steps == RefundSteps(k, t)
                    \o IF t \in Lines THEN <<>>
                       ELSE RefundEnd(k, t, amount = Left(k, t))
<1>4. /\ k \in Keys
      /\ "tx" \in PCs /\ "refund" \in CallKinds
      /\ amount \in Int /\ n \in Int
      /\ named \in Lines \cup {"none"}
      /\ pay[k][t].back \in Int
  BY DEF PCs, CallKinds, DrawerInv, Shapes
<1>5. steps \in StepLists
  BY RefundStepsAreSteps DEF StepLists
<1>6. RefundCall(k, t, amount, named, n) \in AnyCall
  BY <1>4, <1>5, IdleIsCall DEF AnyCall, RefundCall
<1>7. CallFits(RefundCall(k, t, amount, named, n))
  BY <1>4 DEF Idle, CallFits, RefundCall
<1> QED BY <1>3, <1>6, <1>7, CallStep DEF Begin

LEMMA StartTakeOutStep ==
    ASSUME DrawerInv, NEW c \in Calls, StartTakeOut(c) PROVE DrawerInv'
<1>1. PICK amount \in 1..Float :
        Begin(c, [Idle EXCEPT !.pc = "tx", !.kind = "takeOut",
                              !.amount = amount, !.todo = <<"drawer", "cap">>])
  BY DEF StartTakeOut
<1> DEFINE q == [Idle EXCEPT !.pc = "tx", !.kind = "takeOut",
                             !.amount = amount, !.todo = <<"drawer", "cap">>]
<1>2. "tx" \in PCs /\ "takeOut" \in CallKinds /\ amount \in Int
  BY DEF PCs, CallKinds
<1>3. <<"drawer", "cap">> \in StepLists
  BY DEF StepLists, Steps, ReadSteps
<1>4. q \in AnyCall
  BY <1>2, <1>3, IdleIsCall DEF AnyCall
<1>5. CallFits(q)
  BY MovementGoesOn DEF Idle, CallFits
<1> QED BY <1>1, <1>4, <1>5, CallStep DEF Begin

-----------------------------------------------------------------------------
(* The statements of a transaction.                                        *)

LEMMA NextStatement ==
    ASSUME DrawerInv, NEW c \in Calls, call[c].todo # << >>
    PROVE  /\ [call[c] EXCEPT !.todo = Tail(call[c].todo)] \in AnyCall
           /\ CallFits([call[c] EXCEPT !.todo = Tail(call[c].todo)])
<1>1. call[c] \in AnyCall /\ CallFits(call[c])
  BY DEF DrawerInv, Shapes
<1>2. Tail(call[c].todo) \in StepLists
  BY <1>1, TailIsSteps DEF AnyCall
<1>3. call[c].todo \in TakeOutSteps => Tail(call[c].todo) \in TakeOutSteps
  BY MovementGoesOn
<1> QED BY <1>1, <1>2, <1>3 DEF AnyCall, CallFits

LEMMA UpdateRowStep ==
    ASSUME DrawerInv, NEW c \in Calls, UpdateRow(c) PROVE DrawerInv'
<1>1. CASE Rollback(c)
  BY <1>1, RollbackStep DEF UpdateRow, Running
<1>2. CASE ~Rollback(c)
  <2>1. /\ call' = [call EXCEPT ![c].todo = Tail(@)]
        /\ UNCHANGED ledgerVars
        /\ call[c].todo # << >>
    BY <1>2 DEF UpdateRow, Running
  <2> QED BY <2>1, NextStatement, CallStep
<1> QED BY <1>1, <1>2

LEMMA JoinDrawerStep ==
    ASSUME DrawerInv, NEW c \in Calls, JoinDrawer(c) PROVE DrawerInv'
<1>1. CASE Rollback(c)
  BY <1>1, RollbackStep DEF JoinDrawer, Running
<1>2. CASE ~Rollback(c)
  <2> DEFINE q == [call[c] EXCEPT !.session = drawer,
                                  !.todo = Tail(call[c].todo)]
  <2>1. call' = [call EXCEPT ![c] = q] /\ UNCHANGED ledgerVars
        /\ call[c].todo # << >>
    BY <1>2 DEF JoinDrawer, Running
  <2>2. /\ call[c] \in AnyCall /\ CallFits(call[c])
        /\ call[c].pc = "tx" /\ drawer \in 0..MaxSessions
    BY TicketsAssumption DEF DrawerInv, Shapes, JoinDrawer, Running
  <2>3. Tail(call[c].todo) \in StepLists
    BY <2>1, <2>2, TailIsSteps DEF AnyCall
  <2>4. q \in AnyCall /\ CallFits(q)
    BY <2>1, <2>2, <2>3, MovementGoesOn DEF AnyCall, CallFits
  <2> QED BY <2>1, <2>4, CallStep
<1> QED BY <1>1, <1>2

LEMMA ReadLinesStep ==
    ASSUME DrawerInv, NEW c \in Calls, ReadLines(c) PROVE DrawerInv'
<1>1. CASE Rollback(c)
  BY <1>1, RollbackStep DEF ReadLines, Running
<1>2. CASE ~Rollback(c)
  <2> DEFINE k == call[c].key
             t == call[c].row
             whole == Full(c) /\ StillPaid(k) \subseteq {t}
             g == Given(k, t, call[c].amount, call[c].named, call[c].units,
                        line[k], whole)
             gives(l) == g[l].units > 0 \/ g[l].cents > 0
             steps == When(gives("service"), "service")
                      \o When(gives("product"), "product")
                      \o When(g["product"].units > 0, "stock")
                      \o RefundEnd(k, t, Full(c))
             q == [call[c] EXCEPT !.seenLine = line[k], !.give = g,
                                  !.todo = steps]
  <2>1. call' = [call EXCEPT ![c] = q] /\ UNCHANGED ledgerVars
    BY <1>2 DEF ReadLines
  <2>2. call[c] \in AnyCall /\ CallFits(call[c])
    BY DEF DrawerInv, Shapes
  <2>3. steps \in StepLists
    <3>1. \A p : \A s \in {"service", "product", "stock"} : When(p, s) \in StepLists
      BY WhenIsSteps DEF Steps, RowSteps, Lines
    <3> QED BY <3>1, RefundStepsAreSteps DEF StepLists
  <2>4. k \in Keys => line[k] \in [Lines -> Returned]
    BY DEF DrawerInv, Shapes
  <2>5. k \in Keys => g \in [Lines -> Returned]
    BY <2>2, <2>4, GivenIsGiven DEF AnyCall
  <2>6. k \in Keys
    <3>1. call[c].todo # << >> /\ Head(call[c].todo) = "read" /\ call[c].pc = "tx"
      BY DEF ReadLines, Running
    <3>2. call[c].kind # "takeOut"
      BY <2>2, <3>1 DEF CallFits, TakeOutSteps
    <3> QED BY <2>2, <3>1, <3>2 DEF CallFits, AnyCall, CallKinds
  <2>7. call[c].kind # "takeOut"
    <3>1. call[c].todo # << >> /\ Head(call[c].todo) = "read"
      BY DEF ReadLines, Running
    <3> QED BY <2>2, <3>1 DEF CallFits, TakeOutSteps
  <2>8. q \in AnyCall
    <3> HIDE DEF g, steps, k
    <3> QED BY <2>2, <2>3, <2>4, <2>5, <2>6 DEF AnyCall
  <2>9. CallFits(q)
    <3> HIDE DEF g, steps, k
    <3> QED BY <2>2, <2>7 DEF AnyCall, CallFits
  <2> QED BY <2>1, <2>8, <2>9, CallStep
<1> QED BY <1>1, <1>2

LEMMA CountUsesStep ==
    ASSUME DrawerInv, NEW c \in Calls, CountUses(c) PROVE DrawerInv'
<1> DEFINE gone == /\ StillPaid(call[c].key) \subseteq {call[c].row}
                   /\ call[c].key \in uses
           q == [call[c] EXCEPT !.release = gone, !.todo = When(gone, "promo")]
<1>1. call' = [call EXCEPT ![c] = q] /\ UNCHANGED ledgerVars
  BY DEF CountUses
<1>2. call[c] \in AnyCall /\ CallFits(call[c])
  BY DEF DrawerInv, Shapes
<1>3. When(gone, "promo") \in StepLists /\ gone \in BOOLEAN
  BY WhenIsSteps DEF Steps, RowSteps
<1>4. call[c].kind # "takeOut"
  <2>1. call[c].todo # << >> /\ Head(call[c].todo) = "uses"
    BY DEF CountUses, Running
  <2> QED BY <1>2, <2>1 DEF CallFits, TakeOutSteps
<1>5. q \in AnyCall
  <2> HIDE DEF gone
  <2> QED BY <1>2, <1>3 DEF AnyCall
<1>6. CallFits(q)
  <2> HIDE DEF gone
  <2> QED BY <1>2, <1>4 DEF AnyCall, CallFits
<1> QED BY <1>1, <1>5, <1>6, CallStep

LEMMA CheckCapStep ==
    ASSUME DrawerInv, NEW c \in Calls, CheckCap(c) PROVE DrawerInv'
<1>1. CASE Rollback(c)
  BY <1>1, RollbackStep DEF CheckCap, Running
<1>2. CASE ~Rollback(c)
  <2> DEFINE q == [call[c] EXCEPT !.todo = << >>]
  <2>1. call' = [call EXCEPT ![c] = q] /\ UNCHANGED ledgerVars
    BY <1>2 DEF CheckCap
  <2>2. call[c] \in AnyCall /\ CallFits(call[c])
    BY DEF DrawerInv, Shapes
  <2>3. << >> \in StepLists
    BY DEF StepLists
  <2>4. q \in AnyCall /\ CallFits(q)
    BY <2>2, <2>3, MovementGoesOn DEF AnyCall, CallFits
  <2> QED BY <2>1, <2>4, CallStep
<1> QED BY <1>1, <1>2

\* A call that ends, or dies, leaves the books as they are.
LEMMA CallEnds ==
    ASSUME DrawerInv, NEW c \in Calls,
           call' = [call EXCEPT ![c] = Idle], UNCHANGED ledgerVars
    PROVE  DrawerInv'
  BY IdleIsCall, CallStep

LEMMA RedeemPointsStep ==
    ASSUME DrawerInv, NEW c \in Calls, RedeemPoints(c) PROVE DrawerInv'
<1>1. CASE points >= RewardCost
  <2> DEFINE q == [call[c] EXCEPT !.pc = "tx", !.redeemed = TRUE]
  <2>1. /\ call' = [call EXCEPT ![c] = q]
        /\ UNCHANGED ledgerVars
        /\ call[c].pc = "points"
    BY <1>1 DEF RedeemPoints
  <2>2. call[c] \in AnyCall /\ CallFits(call[c])
    BY DEF DrawerInv, Shapes
  <2>3. q \in AnyCall /\ CallFits(q)
    BY <2>1, <2>2 DEF AnyCall, CallFits, PCs
  <2> QED BY <2>1, <2>3, CallStep
<1>2. CASE ~(points >= RewardCost)
  BY <1>2, CallEnds DEF RedeemPoints
<1> QED BY <1>1, <1>2

-----------------------------------------------------------------------------
(* The commits: only the open session takes money.                         *)

LEMMA MoneyIsCounted ==
    ASSUME DrawerInv, NEW s, s # 0 => s = drawer, NEW n \in Int,
           InDrawer(s, n), UNCHANGED <<drawer, opened, counted>>
    PROVE  DrawerCountStands' /\ cash' \in [Sessions -> Int]
<1>1. cash \in [Sessions -> Int]
  BY DEF DrawerInv, Shapes
<1>2. cash' \in [Sessions -> Int]
  <2>1. CASE s = 0
    BY <1>1, <2>1 DEF InDrawer
  <2>2. CASE s # 0
    <3>1. cash' = [cash EXCEPT ![s] = @ + n]
      BY <2>2 DEF InDrawer
    <3>2. \A z \in Sessions : cash'[z] = IF z = s THEN cash[z] + n ELSE cash[z]
      BY <1>1, <3>1
    <3>3. \A z \in Sessions : cash'[z] \in Int
      BY <1>1, <3>2
    <3> QED BY <1>1, <3>1, <3>3
  <2> QED BY <2>1, <2>2
<1>3. \A z \in Sessions : z # drawer => cash'[z] = cash[z]
  BY <1>1 DEF InDrawer
<1>4. 1..opened \subseteq Sessions
  BY TicketsAssumption DEF DrawerInv, Shapes, Sessions
<1> QED BY <1>2, <1>3, <1>4 DEF DrawerInv, DrawerCountStands

LEMMA CommitStep ==
    ASSUME DrawerInv, NEW c \in Calls, NEW q \in AnyCall, CallFits(q)',
           call' = [call EXCEPT ![c] = q],
           NEW s, s # 0 => s = drawer, NEW n \in Int,
           InDrawer(s, n), UNCHANGED <<drawer, opened, counted>>,
           line' \in [Keys -> [Lines -> Returned]],
           pay' \in [Keys -> [Rows -> [st : {"none", "paid", "refunded"},
                                       back : Int]]],
           visit' \in [paid : Int, st : {"pending", "paid", "refunded"},
                       live : BOOLEAN],
           sale' \subseteq Keys
    PROVE  DrawerInv'
<1>1. DrawerCountStands' /\ cash' \in [Sessions -> Int]
  BY MoneyIsCounted
<1>2. Shapes'
  BY <1>1 DEF DrawerInv, Shapes
<1>3. \A d \in Calls : CallFits(call[d])'
  BY DEF DrawerInv, Shapes, CallFits
<1> QED BY <1>1, <1>2, <1>3 DEF DrawerInv

LEMMA CommitTakeOutStep ==
    ASSUME DrawerInv, NEW c \in Calls, CommitTakeOut(c) PROVE DrawerInv'
<1>1. call[c] \in AnyCall /\ CallFits(call[c]) /\ call[c].pc = "tx"
  BY DEF DrawerInv, Shapes, CommitTakeOut, Committing
<1>2. /\ call[c].session # 0 => call[c].session = drawer
      /\ -call[c].amount \in Int
  BY <1>1 DEF CallFits, AnyCall
<1>3. CallFits(Idle)'
  BY DEF CallFits, Idle
<1>4. /\ line' \in [Keys -> [Lines -> Returned]]
      /\ pay' \in [Keys -> [Rows -> [st : {"none", "paid", "refunded"},
                                     back : Int]]]
      /\ visit' \in [paid : Int, st : {"pending", "paid", "refunded"},
                     live : BOOLEAN]
      /\ sale' \subseteq Keys
  BY DEF CommitTakeOut, DrawerInv, Shapes
<1> QED BY <1>2, <1>3, <1>4, IdleIsCall, CommitStep DEF CommitTakeOut

LEMMA CommitSaleStep ==
    ASSUME DrawerInv, NEW c \in Calls, CommitSale(c) PROVE DrawerInv'
<1> DEFINE k == call[c].key
<1>1. /\ call[c] \in AnyCall /\ CallFits(call[c])
      /\ call[c].pc = "tx" /\ call[c].kind = "sale"
  BY DEF DrawerInv, Shapes, CommitSale, Committing
<1>2. k \in Keys /\ (call[c].session # 0 => call[c].session = drawer)
  BY <1>1 DEF CallFits
<1>3. PaidBy(k, "cash") \in Int
  BY <1>2, AmountsAreInts
<1>4. CallFits(Idle)'
  BY DEF CallFits, Idle
<1>5. RecordSale(k, call[c].session) /\ call' = [call EXCEPT ![c] = Idle]
  BY DEF CommitSale
<1>6. line' \in [Keys -> [Lines -> Returned]]
  BY <1>5 DEF RecordSale, DrawerInv, Shapes
<1>7. pay' \in [Keys -> [Rows -> [st : {"none", "paid", "refunded"}, back : Int]]]
  <2> DEFINE P == [st : {"none", "paid", "refunded"}, back : Int]
  <2>1. [st |-> "paid", back |-> 0] \in P /\ NoPayment \in P
    BY DEF NoPayment
  <2>2. pay \in [Keys -> [Rows -> P]]
    BY DEF DrawerInv, Shapes
  <2> HIDE DEF P
  <2>3. pay' \in [Keys -> [Rows -> P]]
    BY <1>5, <2>1, <2>2 DEF RecordSale
  <2> QED BY <2>3 DEF P
<1>8. visit' \in [paid : Int, st : {"pending", "paid", "refunded"}, live : BOOLEAN]
  <2>1. visit \in [paid : Int, st : {"pending", "paid", "refunded"}, live : BOOLEAN]
        /\ VisitPrice \in Int
    BY TicketsAssumption DEF DrawerInv, Shapes
  <2>2. CASE PaysVisit(k)
    <3>1. visit' = [visit EXCEPT !.paid = VisitPrice, !.st = "paid"]
      BY <1>5, <2>2 DEF RecordSale
    <3> QED BY <2>1, <3>1
  <2>3. CASE ~PaysVisit(k)
    BY <1>5, <2>1, <2>3 DEF RecordSale
  <2> QED BY <2>2, <2>3
<1>9. sale' \subseteq Keys
  BY <1>2, <1>5 DEF RecordSale, DrawerInv, Shapes
<1>10. /\ InDrawer(call[c].session, PaidBy(k, "cash"))
       /\ UNCHANGED <<drawer, opened, counted>>
  BY <1>5 DEF RecordSale
<1> QED BY <1>2, <1>3, <1>4, <1>5, <1>6, <1>7, <1>8, <1>9, <1>10,
           IdleIsCall, CommitStep

LEMMA CommitRefundStep ==
    ASSUME DrawerInv, NEW c \in Calls, CommitRefund(c) PROVE DrawerInv'
<1> DEFINE k == call[c].key
           t == call[c].row
           amount == call[c].amount
           goesOn == Full(c) /\ Body[k].reward
           after(key) == [Idle EXCEPT !.pc = "after", !.kind = "refund",
                                      !.key = key]
           out == IF Method(k, t) = "cash" THEN -amount ELSE 0
<1>1. /\ call[c] \in AnyCall /\ CallFits(call[c])
      /\ call[c].pc = "tx" /\ call[c].kind = "refund"
  BY DEF DrawerInv, Shapes, CommitRefund, Committing
<1>2. /\ k \in Keys /\ t \in Rows /\ amount \in Int
      /\ call[c].session # 0 => call[c].session = drawer
      /\ call[c].give \in [Lines -> Returned]
  BY <1>1 DEF CallFits, AnyCall
<1>3. /\ RecordRefund(k, t, amount, call[c].give, call[c].release, call[c].session)
      /\ call' = [call EXCEPT ![c] = IF goesOn THEN after(k) ELSE Idle]
  BY DEF CommitRefund
<1>4. PICK key \in Keys : key = k
  BY <1>2
<1>5. /\ after(key) \in AnyCall /\ CallFits(after(key))'
      /\ CallFits(Idle)'
  <2>1. after(key) \in AnyCall
    BY IdleIsCall DEF AnyCall, PCs, CallKinds
  <2>2. /\ after(key).kind = "refund" /\ after(key).key = key
        /\ after(key).session = 0 /\ after(key).pc = "after"
    BY DEF Idle
  <2>3. CallFits(after(key))'
    BY <2>2 DEF CallFits
  <2> QED BY <2>1, <2>3 DEF CallFits, Idle
<1>6. line' \in [Keys -> [Lines -> Returned]]
  <2>1. line \in [Keys -> [Lines -> Returned]]
    BY DEF DrawerInv, Shapes
  <2>2. \A l \in Lines : [units |-> line[k][l].units + call[c].give[l].units,
                          cents |-> line[k][l].cents + call[c].give[l].cents]
                             \in Returned
    BY <1>2, <2>1 DEF Returned
  <2>3. line' = [line EXCEPT ![k] =
                   [l \in Lines |-> [units |-> line[k][l].units + call[c].give[l].units,
                                     cents |-> line[k][l].cents + call[c].give[l].cents]]]
    BY <1>3 DEF RecordRefund
  <2> QED BY <2>1, <2>2, <2>3
<1>7. pay' \in [Keys -> [Rows -> [st : {"none", "paid", "refunded"}, back : Int]]]
  <2> DEFINE P == [st : {"none", "paid", "refunded"}, back : Int]
             p == [st   |-> IF amount = Left(k, t) THEN "refunded" ELSE "paid",
                   back |-> pay[k][t].back + amount]
  <2>1. pay \in [Keys -> [Rows -> P]]
    BY DEF DrawerInv, Shapes
  <2>2. pay[k][t].back \in Int
    BY <1>2, <2>1
  <2>3. p \in P
    BY <1>2, <2>2
  <2>4. pay' = [pay EXCEPT ![k][t] = p]
    BY <1>3 DEF RecordRefund
  <2> HIDE DEF P, p
  <2>5. pay' \in [Keys -> [Rows -> P]]
    BY <1>2, <2>1, <2>3, <2>4
  <2> QED BY <2>5 DEF P
<1>8. visit' \in [paid : Int, st : {"pending", "paid", "refunded"}, live : BOOLEAN]
  <2>1. visit \in [paid : Int, st : {"pending", "paid", "refunded"}, live : BOOLEAN]
    BY DEF DrawerInv, Shapes
  <2> DEFINE paid == IF visit.paid >= amount THEN visit.paid - amount ELSE 0
  <2>2. paid \in Int
    BY <1>2, <2>1
  <2>3. visit' = IF t = "visit" THEN LessPaid(paid) ELSE visit
    BY <1>3 DEF RecordRefund
  <2> HIDE DEF paid
  <2> QED BY <2>1, <2>2, <2>3 DEF LessPaid
<1>9. sale' \subseteq Keys
  BY <1>3 DEF RecordRefund, DrawerInv, Shapes
<1>10. InDrawer(call[c].session, out) /\ UNCHANGED <<drawer, opened, counted>>
  BY <1>3 DEF RecordRefund
<1>11. out \in Int
  BY <1>2
<1> HIDE DEF out, after
<1>12. CASE goesOn
  <2>1. call' = [call EXCEPT ![c] = after(key)]
    BY <1>3, <1>4, <1>12
  <2> QED BY <1>2, <1>5, <1>6, <1>7, <1>8, <1>9, <1>10, <1>11, <2>1, CommitStep
<1>13. CASE ~goesOn
  <2>1. call' = [call EXCEPT ![c] = Idle]
    BY <1>3, <1>13
  <2> QED BY <1>2, <1>5, <1>6, <1>7, <1>8, <1>9, <1>10, <1>11, <2>1,
             IdleIsCall, CommitStep
<1> QED BY <1>12, <1>13

-----------------------------------------------------------------------------
(* The drawer opens and closes; the rest leaves it alone.                  *)

LEMMA ElsewhereStep ==
    ASSUME DrawerInv, Elsewhere PROVE DrawerInv'
<1>1. MaxSessions \in Nat /\ Float \in Nat
  BY TicketsAssumption
<1>2. UNCHANGED call
  BY DEF Elsewhere
<1>3. CASE OpenDrawer
  <2>1. /\ opened < MaxSessions /\ opened' = opened + 1
        /\ drawer = 0 /\ drawer' = opened + 1
        /\ cash' = [cash EXCEPT ![opened + 1] = Float]
        /\ UNCHANGED <<line, pay, visit, sale, counted>>
    BY <1>3 DEF OpenDrawer
  <2>2. opened \in Nat /\ cash \in [Sessions -> Int]
    BY <1>1 DEF DrawerInv, Shapes
  <2>3. Shapes'
    <3>1. cash' \in [Sessions -> Int]
      <4>1. Float \in Int /\ cash' = [cash EXCEPT ![opened + 1] = Float]
        BY <1>1, <2>1
      <4> QED BY <2>2, <4>1
    <3>2. opened' \in 0..MaxSessions /\ drawer' \in 0..opened'
      BY <1>1, <2>1, <2>2
    <3> QED BY <1>2, <2>1, <3>1, <3>2 DEF DrawerInv, Shapes
  <2>4. \A c \in Calls : CallFits(call[c])'
    BY <1>2, <2>1 DEF DrawerInv, Shapes, CallFits
  <2>5. DrawerCountStands'
    BY <1>1, <2>1, <2>2 DEF DrawerInv, DrawerCountStands, Sessions
  <2> QED BY <2>3, <2>4, <2>5 DEF DrawerInv
<1>4. CASE CloseWhenLeft
  <2>1. /\ drawer # 0 /\ drawer' = 0
        /\ counted' = [counted EXCEPT ![drawer] = cash[drawer]]
        /\ UNCHANGED <<line, pay, visit, sale, opened, cash>>
        /\ Joined(drawer) = {}
    BY <1>4 DEF CloseWhenLeft, CloseDrawer
  <2>2. /\ drawer \in Sessions /\ opened \in 0..MaxSessions
        /\ cash \in [Sessions -> Int] /\ counted \in [Sessions -> Int]
    BY <1>1, <2>1 DEF DrawerInv, Shapes, Sessions
  <2>3. Shapes'
    <3>1. counted' \in [Sessions -> Int]
      BY <2>1, <2>2
    <3>2. drawer' \in 0..opened'
      BY <2>1, <2>2
    <3> QED BY <1>2, <2>1, <3>1, <3>2 DEF DrawerInv, Shapes
  <2>4. \A c \in Calls : call[c].session = 0
    BY <2>1 DEF DrawerInv, CallFits, Joined
  <2>5. \A c \in Calls : CallFits(call[c])'
    BY <1>2, <2>1, <2>4 DEF DrawerInv, CallFits
  <2>6. DrawerCountStands'
    BY <1>1, <2>1, <2>2 DEF DrawerInv, DrawerCountStands, Sessions
  <2> QED BY <2>3, <2>5, <2>6 DEF DrawerInv
<1>5. CASE (\E c \in Toggles : SwitchCard(c)) \/ CancelVisit
  <2>1. UNCHANGED <<line, pay, sale, cash, counted, drawer, opened>>
    BY <1>5 DEF SwitchCard, CancelVisit
  <2>2. visit' \in [paid : Int, st : {"pending", "paid", "refunded"}, live : BOOLEAN]
    BY <1>5 DEF SwitchCard, CancelVisit, DrawerInv, Shapes
  <2>3. Shapes'
    BY <1>2, <2>1, <2>2 DEF DrawerInv, Shapes
  <2>4. \A c \in Calls : CallFits(call[c])'
    BY <1>2, <2>1 DEF DrawerInv, CallFits
  <2>5. DrawerCountStands'
    BY <2>1 DEF DrawerInv, DrawerCountStands
  <2> QED BY <2>3, <2>4, <2>5 DEF DrawerInv
<1> QED BY <1>3, <1>4, <1>5 DEF Elsewhere

LEMMA BreakDeadlockStep ==
    ASSUME DrawerInv, BreakDeadlock PROVE DrawerInv'
<1>1. PICK S \in SUBSET Calls : Circle(S) /\ \E c \in S : Rollback(c)
  BY DEF BreakDeadlock
<1>2. PICK c \in S : Rollback(c)
  BY <1>1
<1>3. c \in Calls /\ call[c].pc = "tx"
  BY <1>1 DEF Circle, Waiting, Running
<1> QED BY <1>2, <1>3, RollbackStep

LEMMA ProceedStep ==
    ASSUME DrawerInv, NEW c \in Calls, Proceed(c) PROVE DrawerInv'
<1>1. CASE GiveBackPoints(c)
  BY <1>1, CallEnds DEF GiveBackPoints
<1>2. CASE AfterRefund(c)
  BY <1>2, CallEnds DEF AfterRefund
<1> QED BY <1>1, <1>2, RedeemPointsStep, UpdateRowStep, JoinDrawerStep,
           ReadLinesStep, CountUsesStep, CheckCapStep, CommitSaleStep,
           CommitRefundStep, CommitTakeOutStep DEF Proceed

LEMMA DrawerInit == Init => DrawerInv
<1> SUFFICES ASSUME Init PROVE DrawerInv
  OBVIOUS
<1>1. MaxSessions \in Nat
  BY TicketsAssumption
<1>2. NothingGiven \in [Lines -> Returned]
  BY DEF NothingGiven, Returned
<1>3. Shapes
  BY <1>1, <1>2, IdleIsCall DEF Init, LedgerInit, Shapes, NoPayment
<1>4. \A c \in Calls : CallFits(call[c])
  BY IdleIsCall DEF Init
<1>5. DrawerCountStands
  BY DEF Init, LedgerInit, DrawerCountStands
<1> QED BY <1>3, <1>4, <1>5 DEF DrawerInv

LEMMA DrawerNext == DrawerInv /\ [Next]_vars => DrawerInv'
<1> SUFFICES ASSUME DrawerInv, [Next]_vars PROVE DrawerInv'
  OBVIOUS
<1>1. ASSUME NEW c \in Calls, Crash(c) PROVE DrawerInv'
  BY <1>1, CallEnds DEF Crash
<1>2. CASE UNCHANGED vars
  BY <1>2 DEF vars, ledgerVars, DrawerInv, Shapes, CallFits, DrawerCountStands
<1> QED BY <1>1, <1>2, StartSaleStep, StartRefundStep, StartTakeOutStep,
           ProceedStep, BreakDeadlockStep, ElsewhereStep DEF Next

(* What was counted when a cash session closed is what its rows add up to  *)
(* for ever after (cash-session-lock.ts), whatever tills, tickets, refunds *)
(* and movements there are: the session a transaction joined cannot close  *)
(* before it ends, so money only ever enters the session that is open.     *)
THEOREM DrawerCountIsFinal == Spec => []DrawerCountStands
<1>1. DrawerInv => DrawerCountStands
  BY DEF DrawerInv
<1> QED BY <1>1, DrawerInit, DrawerNext, PTL DEF Spec
=============================================================================
