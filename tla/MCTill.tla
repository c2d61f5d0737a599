------------------------------- MODULE MCTill -------------------------------
(* Small tills for TLC: which tickets there are is what a run is about.    *)
EXTENDS Till, TLC

CONSTANTS k1, k2, k3, c1, c2

OneCard == {"old"}
FaceOf == [c \in OneCard |-> 2]

By(n, m) == [amount |-> n, method |-> m]
Nil == By(0, "card")

Plain == [pays |-> [visit |-> Nil, service |-> Nil, product |-> Nil,
                    gift |-> Nil],
          card |-> NoCard, units |-> 0, off |-> 0, reward |-> FALSE,
          promo |-> FALSE, prof |-> FALSE]

\* Two units on the gift card and a service by card, on a promotion.
Mixed == [Plain EXCEPT !.pays.service = By(1, "card"),
                       !.pays.product = By(2, "gift"),
                       !.card = "old", !.units = 2, !.promo = TRUE,
                       !.prof = TRUE]
\* One unit, on the gift card.
OnCard == [Plain EXCEPT !.pays.product = By(1, "gift"), !.card = "old",
                        !.units = 1]
\* A service on the promotion.
Promoted == [Plain EXCEPT !.pays.service = By(1, "card"), !.promo = TRUE]
\* A service and a unit with points, on a promotion, done by a professional.
Reward == [Plain EXCEPT !.pays.service = By(1, "card"),
                        !.pays.product = By(1, "card"), !.units = 1,
                        !.reward = TRUE, !.promo = TRUE, !.prof = TRUE]
\* The visit: in cash, with a gift card sold; with points, and the rest on
\* that gift card.
VisitAndGift == [Plain EXCEPT !.pays.visit = By(2, "cash"),
                              !.pays.gift = By(2, "card")]
VisitOnGift == [Plain EXCEPT !.pays.visit = By(1, "gift"), !.card = k2,
                             !.off = 1, !.reward = TRUE]

Two(a, b) == [k \in {k1, k2} |-> IF k = k1 THEN a ELSE b]

\* Two of them want one card and one shelf, and two the last use of the promotion.
BookBodies == Two(Mixed, OnCard) @@ (k3 :> Promoted)
VisitBodies == Two(VisitOnGift, VisitAndGift)
RowBodies == Two([Reward EXCEPT !.pays.product = By(1, "gift"), !.card = "old"],
                 OnCard)

Symmetric == Permutations(Calls)
=============================================================================
