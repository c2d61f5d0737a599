--------------------------- MODULE BillingProofs ---------------------------
(***************************************************************************)
(* Proofs about Billing, for every number of subscriptions, handlers,      *)
(* bundles and faults, and whatever kinds of event and calls a scene has.  *)
(***************************************************************************)
EXTENDS Billing, TLAPS

PCs == {"free", "read", "ask", "askOther", "duplicate", "write", "close",
        "recover", "credit", "late", "answer"}

HandlerType ==
    [pc : PCs, event : Events \cup {<<"none", NoSub>>},
     status : {"none", "trialing", "active", "past_due", "suspended", "cancelled"},
     stored : Subs \cup {NoSub}, to : {"none", "trialing", "active"},
     ending : BOOLEAN, line : 1..Lines]

\* What a busy handler handles is an event, and what it writes a live status.
HandlerOK(r) ==
    /\ r \in HandlerType
    /\ r.pc # "free" => r.event \in Events
    /\ r.pc \in {"askOther", "write"} => r.to # "none"
    /\ r.pc \in {"recover", "credit"} => r.event[1] = "paid"
    /\ r.pc # "credit" => r.line = 1

\* The event a handler is busy with was taken from Stripe's queue...
Taken == \A h \in Handlers :
             ~At(h, "free") => event[handler[h].event] \in {"claimed", "answered"}

\* ... by it alone...
Alone == \A g, h \in Handlers :
             (g # h /\ ~At(g, "free") /\ ~At(h, "free"))
                 => handler[g].event # handler[h].event

\* The bundles of s given by a handling that has come to line k: those before
\* it by this one, and each of them by those that failed between two lines.
Reached(s, k) ==
    \A n \in 1..Lines :
       credits[s][n] <= IF n = Lines THEN 0
                        ELSE torn[s] + (IF n < k THEN 1 ELSE 0)

\* ... and an invoice is credited as far as its handler has come.
Uncredited ==
    /\ \A s \in Subs : event[<<"paid", s>>] = "sent" => Reached(s, 1)
    /\ \A h \in Handlers :
          (handler[h].pc \notin {"free", "answer"} /\ Kind(h) = "paid")
              => Reached(Of(h), handler[h].line)

Work ==
    /\ scene \in Scenes
    /\ event \in [Events -> {"quiet", "sent", "claimed", "answered"}]
    /\ credits \in [Subs -> [1..Lines -> Nat]]
    /\ torn \in [Subs -> Nat]
    /\ handler \in [Handlers -> HandlerType]
    /\ \A h \in Handlers : HandlerOK(handler[h])
    /\ Taken /\ Alone /\ Uncredited /\ CreditedUnlessTorn

CreditInv == TypeOK /\ Work

-----------------------------------------------------------------------------
(* What a step may do to Stripe's queue without touching one being handled: *)
(* send events that were quiet, of invoices not credited.                  *)
Kept(s) == /\ credits'[s] = credits[s] /\ torn'[s] = torn[s]
           /\ event'[<<"paid", s>>] = event[<<"paid", s>>]

Fresh(s) == /\ event[<<"paid", s>>] = "quiet"
            /\ credits'[s] = NoCredit /\ torn'[s] = 0

Queues ==
    /\ scene' = scene
    /\ event' \in [Events -> {"quiet", "sent", "claimed", "answered"}]
    /\ credits' \in [Subs -> [1..Lines -> Nat]]
    /\ torn' \in [Subs -> Nat]
    /\ \A e \in Events : \/ event'[e] = event[e]
                         \/ event[e] = "quiet" /\ event'[e] = "sent"
    /\ \A s \in Subs : Kept(s) \/ Fresh(s)

LEMMA FirstLine == 1 \in 1..Lines
  BY LinesAssumption

LEMMA FreeIsOK ==
    Free \in HandlerType /\ HandlerOK(Free) /\ Free.pc = "free" /\ Free.line = 1
  BY FirstLine DEF Free, HandlerType, HandlerOK, PCs

\* A handler with a new event, or with its event over.
LEMMA FreshHandler ==
    ASSUME NEW e \in Events, NEW pc \in {"read", "answer"}
    PROVE  LET r == [Free EXCEPT !.pc = pc, !.event = e]
           IN  r \in HandlerType /\ HandlerOK(r) /\ r.pc = pc /\ r.event = e /\ r.line = 1
<1> DEFINE r == [Free EXCEPT !.pc = pc, !.event = e]
<1>1. r \in HandlerType /\ r.pc = pc /\ r.event = e /\ r.line = 1
  BY FreeIsOK DEF HandlerType, PCs
<1> HIDE DEF r
<1>2. HandlerOK(r)
  BY <1>1 DEF HandlerOK
<1> QED BY <1>1, <1>2 DEF r

LEMMA SendQueues ==
    ASSUME Work, NEW kinds, NEW s, Send(kinds, s) PROVE Queues
<1> USE DEF Work, Send, Sent, wallet
<1>1. event' \in [Events -> {"quiet", "sent", "claimed", "answered"}]
  OBVIOUS
<1>2. \A e \in Events : \/ event'[e] = event[e]
                        \/ event[e] = "quiet" /\ event'[e] = "sent"
  OBVIOUS
<1>3. /\ credits' \in [Subs -> [1..Lines -> Nat]]
      /\ torn' \in [Subs -> Nat]
  <2>1. NoCredit \in [1..Lines -> Nat]
    BY DEF NoCredit
  <2>2. CASE "paid" \in kinds /\ event[<<"paid", s>>] = "quiet"
    <3>1. credits' = [credits EXCEPT ![s] = NoCredit] /\ torn' = [torn EXCEPT ![s] = 0]
      BY <2>2
    <3>2. credits' \in [Subs -> [1..Lines -> Nat]]
      BY <2>1, <3>1
    <3>3. torn' \in [Subs -> Nat]
      BY <3>1
    <3> QED BY <3>2, <3>3
  <2>3. CASE ~("paid" \in kinds /\ event[<<"paid", s>>] = "quiet")
    BY <2>3
  <2> QED BY <2>2, <2>3
<1>4. ASSUME NEW t \in Subs PROVE Kept(t) \/ Fresh(t)
  <2>1. <<"paid", t>> \in Events
    BY DEF Events
  <2>2. CASE t = s /\ "paid" \in kinds /\ event[<<"paid", s>>] = "quiet"
    BY <2>2 DEF Fresh
  <2>3. CASE ~(t = s /\ "paid" \in kinds /\ event[<<"paid", s>>] = "quiet")
    BY <2>1, <2>3 DEF Kept
  <2> QED BY <2>2, <2>3
<1> QED BY <1>1, <1>2, <1>3, <1>4 DEF Queues

LEMMA StillQueues ==
    ASSUME Work, UNCHANGED <<scene, event, wallet>> PROVE Queues
  BY DEF Work, Queues, Kept, wallet

(* A handler goes on, or answers, with the event it has.                   *)
GoesOn(h, r) ==
    /\ ~At(h, "free") /\ r.pc # "free"
    /\ HandlerOK(r) /\ r.event = handler[h].event
    /\ At(h, "answer") => r.pc = "answer"
    /\ r.pc # "answer" => r.line = handler[h].line

LEMMA HandlersKept ==
    ASSUME Work, Queues,
           \/ UNCHANGED handler
           \/ \E h \in Handlers, r \in HandlerType :
                 GoesOn(h, r) /\ handler' = [handler EXCEPT ![h] = r]
    PROVE  Work'
<1>1. /\ handler' \in [Handlers -> HandlerType]
      /\ \A h \in Handlers : HandlerOK(handler'[h])
  BY DEF Work, GoesOn
<1>2. \A h \in Handlers :
         /\ handler'[h].pc = "free" <=> handler[h].pc = "free"
         /\ handler[h].pc = "answer" => handler'[h].pc = "answer"
         /\ handler'[h].event = handler[h].event
         /\ handler'[h].pc # "answer" => handler'[h].line = handler[h].line
  BY DEF Work, GoesOn, At
<1>3. \A h \in Handlers : handler[h].pc # "free" => handler[h].event \in Events
  BY DEF Work, HandlerOK
<1>4. Taken'
  BY <1>2, <1>3 DEF Work, Queues, Taken, At
<1>5. Alone'
  BY <1>2 DEF Work, Alone, At
<1>6. \A s \in Subs : <<"paid", s>> \in Events
  BY DEF Events
<1>7. Uncredited'
  <2>1. ASSUME NEW s \in Subs, event'[<<"paid", s>>] = "sent" PROVE Reached(s, 1)'
    <3>1. CASE Kept(s)
      BY <2>1, <3>1 DEF Work, Uncredited, Kept, Reached
    <3>2. CASE Fresh(s)
      BY <3>2, LinesAssumption DEF Fresh, Reached, NoCredit
    <3> QED BY <3>1, <3>2 DEF Queues
  <2>2. ASSUME NEW h \in Handlers, handler'[h].pc \notin {"free", "answer"},
               handler'[h].event[1] = "paid"
        PROVE  Reached(Of(h), handler[h].line)'
    <3>1. PICK s \in Subs : handler[h].event = <<"paid", s>>
      BY <1>2, <1>3, <2>2 DEF Events
    <3>2. Reached(s, handler[h].line)
      BY <1>2, <2>2, <3>1 DEF Work, Uncredited, Kind, Of
    <3>3. event[<<"paid", s>>] # "quiet"
      BY <1>2, <2>2, <3>1 DEF Work, Taken, At
    <3>4. Kept(s)
      BY <3>3 DEF Queues, Fresh
    <3>5. handler'[h].event = <<"paid", s>> /\ handler'[h].line = handler[h].line
      BY <1>2, <2>2, <3>1
    <3> QED BY <3>2, <3>4, <3>5 DEF Kept, Reached, Of
  <2> QED BY <2>1, <2>2 DEF Uncredited, Kind
<1>8. CreditedUnlessTorn'
  <2>1. ASSUME NEW s \in Subs, NEW n \in 1..Lines
        PROVE  credits'[s][n] <= 1 + (IF n < Lines THEN torn'[s] ELSE 0)
    <3>1. CASE Kept(s)
      BY <3>1 DEF Work, CreditedUnlessTorn, Kept
    <3>2. CASE Fresh(s)
      BY <3>2 DEF Fresh, NoCredit
    <3> QED BY <3>1, <3>2 DEF Queues
  <2> QED BY <2>1 DEF CreditedUnlessTorn
<1> QED BY <1>1, <1>4, <1>5, <1>7, <1>8 DEF Work, Queues

-----------------------------------------------------------------------------
(* The steps of a handler.                                                 *)

LEMMA OverGoesOn ==
    ASSUME Work, NEW h \in Handlers, ~At(h, "free")
    PROVE  Over(h) \in HandlerType /\ GoesOn(h, Over(h))
<1>1. handler[h] \in HandlerType /\ handler[h].event \in Events
  BY DEF Work, HandlerOK, At
<1>2. /\ Over(h) \in HandlerType /\ HandlerOK(Over(h))
      /\ Over(h).pc = "answer" /\ Over(h).event = handler[h].event
  BY <1>1, FreshHandler DEF Over
<1> QED BY <1>2 DEF GoesOn

LEMMA ReadKeeps ==
    ASSUME CreditInv, NEW h \in Handlers, Read(h) PROVE Work'
<1>1. Queues
  BY StillQueues DEF CreditInv, Read, stripe
<1>2. ~At(h, "free") /\ ~At(h, "answer")
  BY DEF Read, At
<1>3. handler[h] \in HandlerType /\ HandlerOK(handler[h]) /\ handler[h].line = 1
  BY DEF CreditInv, Work, Read, At, HandlerOK
<1>4. Kind(h) \in {"checkout", "live", "ended", "paid", "failed"}
  BY <1>2, <1>3 DEF HandlerOK, Events, Kind, At
<1>5. PICK pc \in PCs :
        /\ pc \notin {"free", "askOther", "write"}
        /\ pc \in {"recover", "credit"} => Kind(h) = "paid"
        /\ handler' = [handler EXCEPT ![h] =
                          IF pc = "answer" THEN Over(h)
                          ELSE [@ EXCEPT !.pc = pc, !.status = status, !.stored = stored]]
  <2>1. CASE Kind(h) \in {"checkout", "live"}
    BY <2>1 DEF Read, PCs
  <2>2. CASE Kind(h) = "paid"
    BY <2>2 DEF Read, PCs, PaidGoesOn
  <2>3. CASE Kind(h) = "failed"
    BY <2>3 DEF Read, PCs
  <2>4. CASE Kind(h) = "ended"
    BY <2>4 DEF Read, PCs
  <2> QED BY <1>4, <2>1, <2>2, <2>3, <2>4
<1>6. CASE pc = "answer"
  BY <1>1, <1>2, <1>5, <1>6, OverGoesOn, HandlersKept DEF CreditInv
<1>7. CASE pc # "answer"
  <2> DEFINE r == [handler[h] EXCEPT !.pc = pc, !.status = status, !.stored = stored]
  <2>1. r \in HandlerType
    BY <1>3 DEF CreditInv, TypeOK, HandlerType
  <2>2. r.pc = pc /\ r.event = handler[h].event /\ r.line = 1
    BY <1>3 DEF HandlerType
  <2>3. GoesOn(h, r)
    <3> HIDE DEF r
    <3> QED BY <1>2, <1>3, <1>5, <2>1, <2>2 DEF GoesOn, HandlerOK, Kind, At
  <2>4. handler' = [handler EXCEPT ![h] = r]
    BY <1>5, <1>7
  <2> HIDE DEF r
  <2> QED BY <1>1, <2>1, <2>3, <2>4, HandlersKept DEF CreditInv
<1> QED BY <1>6, <1>7

LEMMA LiveStatusIsLive ==
    ASSUME NEW h, NEW st PROVE LiveStatus(h, st) \in {"trialing", "active"}
  BY DEF LiveStatus

LEMMA AskKeeps ==
    ASSUME CreditInv, NEW h \in Handlers, Ask(h) PROVE Work'
<1>1. Queues
  BY StillQueues DEF CreditInv, Ask, stripe
<1>2. ~At(h, "free") /\ ~At(h, "answer")
  BY DEF Ask, At
<1>3. handler[h] \in HandlerType /\ HandlerOK(handler[h]) /\ handler[h].line = 1
  BY DEF CreditInv, Work, Ask, At, HandlerOK
<1>4. Of(h) \in Subs
  BY <1>2, <1>3 DEF HandlerOK, Events, Of, At
<1>5. CASE handler' = [handler EXCEPT ![h] = Over(h)]
  BY <1>1, <1>2, <1>5, OverGoesOn, HandlersKept DEF CreditInv
<1>6. CASE handler' # [handler EXCEPT ![h] = Over(h)]
  <2> DEFINE to == LiveStatus(h, sub[Of(h)].st)
             pc == IF HasAnother(h) THEN "askOther" ELSE "write"
             r == [handler[h] EXCEPT !.pc = pc, !.ending = sub[Of(h)].ending, !.to = to]
  <2>1. to \in {"trialing", "active"} /\ pc \in {"askOther", "write"}
    BY LiveStatusIsLive
  <2>2. sub[Of(h)].ending \in BOOLEAN
    BY <1>4 DEF CreditInv, TypeOK
  <2>3. handler' = [handler EXCEPT ![h] = r]
    BY <1>6 DEF Ask
  <2> HIDE DEF to, pc
  <2>4. r \in HandlerType
    BY <1>3, <2>1, <2>2 DEF HandlerType, PCs
  <2>5. r.pc = pc /\ r.event = handler[h].event /\ r.to = to /\ r.line = 1
    BY <1>3 DEF HandlerType
  <2> HIDE DEF r
  <2>6. GoesOn(h, r)
    BY <1>2, <1>3, <2>1, <2>4, <2>5 DEF GoesOn, HandlerOK, At
  <2> QED BY <1>1, <2>3, <2>4, <2>6, HandlersKept DEF CreditInv
<1> QED BY <1>5, <1>6

LEMMA AskOtherKeeps ==
    ASSUME CreditInv, NEW h \in Handlers, AskOther(h) PROVE Work'
<1>1. Queues
  BY StillQueues DEF CreditInv, AskOther, stripe
<1>2. At(h, "askOther")
  BY DEF AskOther
<1>3. handler[h] \in HandlerType /\ HandlerOK(handler[h]) /\ handler[h].line = 1
  BY DEF CreditInv, Work, AskOther, At, HandlerOK
<1> DEFINE pc == IF Live(handler[h].stored) THEN "duplicate" ELSE "write"
           to == IF trialOver THEN "active" ELSE handler[h].to
           r == [handler[h] EXCEPT !.pc = pc, !.to = to]
<1>4. to \in {"trialing", "active"} /\ pc \in {"duplicate", "write"}
  BY <1>2, <1>3 DEF HandlerOK, HandlerType, At
<1>5. handler' = [handler EXCEPT ![h] = r]
  BY DEF AskOther
<1> HIDE DEF to, pc
<1>6. r \in HandlerType
  BY <1>3, <1>4 DEF HandlerType, PCs
<1>7. r.pc = pc /\ r.event = handler[h].event /\ r.to = to /\ r.line = 1
  BY <1>3 DEF HandlerType
<1> HIDE DEF r
<1>8. GoesOn(h, r)
  BY <1>2, <1>3, <1>4, <1>6, <1>7 DEF GoesOn, HandlerOK, At
<1> QED BY <1>1, <1>5, <1>6, <1>8, HandlersKept DEF CreditInv

(* The steps that finish an event, and the one that goes on to its credit. *)
LEMMA FinishKeeps ==
    ASSUME CreditInv, NEW h \in Handlers,
           CancelDuplicate(h) \/ Write(h) \/ Close(h) \/ Late(h)
    PROVE  Work'
<1>1. Queues
  <2>1. CASE CancelDuplicate(h)
    BY <2>1, SendQueues, StillQueues DEF CreditInv, CancelDuplicate, stripe
  <2>2. CASE Write(h) \/ Close(h) \/ Late(h)
    BY <2>2, StillQueues DEF CreditInv, Write, Close, Late, stripe
  <2> QED BY <2>1, <2>2
<1>2. ~At(h, "free") /\ handler' = [handler EXCEPT ![h] = Over(h)]
  BY DEF CancelDuplicate, Write, Close, Late, Finish, At
<1> QED BY <1>1, <1>2, OverGoesOn, HandlersKept DEF CreditInv

LEMMA RecoverKeeps ==
    ASSUME CreditInv, NEW h \in Handlers, Recover(h) PROVE Work'
<1>1. Queues
  BY StillQueues DEF CreditInv, Recover, stripe
<1>2. handler[h] \in HandlerType /\ HandlerOK(handler[h]) /\ At(h, "recover")
  BY DEF CreditInv, Work, Recover
<1> DEFINE r == [handler[h] EXCEPT !.pc = "credit"]
<1>3. handler' = [handler EXCEPT ![h] = r]
  BY DEF Recover, Goto
<1>4. /\ r \in HandlerType /\ r.pc = "credit"
      /\ r.event = handler[h].event /\ r.line = handler[h].line
  BY <1>2 DEF HandlerType, PCs
<1> HIDE DEF r
<1>5. GoesOn(h, r)
  BY <1>2, <1>4 DEF GoesOn, HandlerOK, At
<1> QED BY <1>1, <1>3, <1>4, <1>5, HandlersKept DEF CreditInv

(* The credit of a line: no other handler has the invoice.                 *)
LEMMA CreditKeeps ==
    ASSUME CreditInv, NEW h \in Handlers, Credit(h) PROVE Work'
<1> USE DEF At, Kind, Of
<1>1. handler[h] \in HandlerType /\ HandlerOK(handler[h]) /\ handler[h].pc = "credit"
  BY DEF CreditInv, Work, Credit
<1>2. PICK s \in Subs : handler[h].event = <<"paid", s>>
  BY <1>1 DEF HandlerOK, Events
<1>3. PICK k \in 1..Lines : k = handler[h].line
  BY <1>1 DEF HandlerType
<1>4. Reached(s, k)
  <2>1. Reached(Of(h), handler[h].line)
    BY <1>1, <1>2 DEF CreditInv, Work, Uncredited
  <2> QED BY <1>2, <1>3, <2>1
<1>5. credits \in [Subs -> [1..Lines -> Nat]] /\ torn \in [Subs -> Nat] /\ Lines \in Nat
  BY LinesAssumption DEF CreditInv, Work
<1> DEFINE q == IF k = Lines THEN Over(h) ELSE [handler[h] EXCEPT !.line = k + 1]
<1>6. /\ credits' = [credits EXCEPT ![s][k] = @ + 1]
      /\ handler' = [handler EXCEPT ![h] = q]
      /\ scene' = scene /\ event' = event /\ torn' = torn
  BY <1>2, <1>3 DEF Credit, Finish
<1>7. /\ q \in HandlerType /\ HandlerOK(q)
      /\ q.event = handler[h].event /\ q.pc # "free"
      /\ q.pc # "answer" => k < Lines /\ q.line = k + 1
  <2>1. CASE k = Lines
    BY <1>1, <2>1, OverGoesOn DEF GoesOn, CreditInv, Over, Free
  <2>2. CASE k # Lines
    <3>1. q = [handler[h] EXCEPT !.line = k + 1] /\ k + 1 \in 1..Lines /\ k < Lines
      BY <1>5, <2>2
    <3>2. /\ q \in HandlerType /\ q.line = k + 1
          /\ q.pc = "credit" /\ q.event = handler[h].event
      BY <1>1, <3>1 DEF HandlerType
    <3> HIDE DEF q
    <3> QED BY <1>1, <3>1, <3>2 DEF HandlerOK
  <2> QED BY <2>1, <2>2
<1> HIDE DEF q
<1>8. \A g \in Handlers : handler'[g] = IF g = h THEN q ELSE handler[g]
  BY <1>6 DEF CreditInv, Work
<1>9. handler' \in [Handlers -> HandlerType] /\ \A g \in Handlers : HandlerOK(handler'[g])
  BY <1>6, <1>7, <1>8 DEF CreditInv, Work
<1>10. \A g \in Handlers : /\ handler'[g].event = handler[g].event
                           /\ handler'[g].pc = "free" <=> handler[g].pc = "free"
  BY <1>1, <1>7, <1>8
<1>11. Taken' /\ Alone'
  BY <1>6, <1>10 DEF CreditInv, Work, Taken, Alone
<1>12. /\ credits' \in [Subs -> [1..Lines -> Nat]]
       /\ \A u \in Subs \ {s} : credits'[u] = credits[u]
       /\ \A n \in 1..Lines :
             credits'[s][n] = IF n = k THEN credits[s][k] + 1 ELSE credits[s][n]
  BY <1>5, <1>6
<1>13. credits[s][k] <= IF k = Lines THEN 0 ELSE torn[s]
  BY <1>4, <1>5 DEF Reached
<1>14. CreditedUnlessTorn'
  <2>1. ASSUME NEW u \in Subs, NEW n \in 1..Lines
        PROVE  credits'[u][n] <= 1 + (IF n < Lines THEN torn[u] ELSE 0)
    <3>1. credits[u][n] <= 1 + (IF n < Lines THEN torn[u] ELSE 0)
      BY DEF CreditInv, Work, CreditedUnlessTorn
    <3>2. CASE u = s /\ n = k
      <4>1. credits'[u][n] = credits[s][k] + 1 /\ credits[s][k] \in Nat /\ torn[s] \in Nat
        BY <1>5, <1>12, <3>2
      <4>2. k < Lines \/ k = Lines
        BY <1>5
      <4> QED BY <1>13, <3>2, <4>1, <4>2
    <3>3. CASE ~(u = s /\ n = k)
      BY <1>12, <3>1, <3>3
    <3> QED BY <3>2, <3>3
  <2> QED BY <1>6, <2>1 DEF CreditedUnlessTorn
<1>15. k < Lines => Reached(s, k + 1)'
  <2> SUFFICES ASSUME k < Lines, NEW n \in 1..Lines
               PROVE  credits'[s][n] <= IF n = Lines THEN 0
                                        ELSE torn[s] + (IF n < k + 1 THEN 1 ELSE 0)
    BY <1>6 DEF Reached
  <2>1. credits[s][n] <= IF n = Lines THEN 0 ELSE torn[s] + (IF n < k THEN 1 ELSE 0)
    BY <1>4 DEF Reached
  <2>2. credits[s][n] \in Nat /\ torn[s] \in Nat
    BY <1>5
  <2>3. CASE n = k
    BY <1>5, <1>12, <1>13, <2>2, <2>3
  <2>4. CASE n # k
    <3>1. credits'[s][n] = credits[s][n] /\ (n < k + 1 <=> n < k)
      BY <1>12, <2>4
    <3> QED BY <2>1, <3>1
  <2> QED BY <2>3, <2>4
<1>16. Uncredited'
  <2>1. event[<<"paid", s>>] \in {"claimed", "answered"}
    BY <1>1, <1>2 DEF CreditInv, Work, Taken
  <2>2. ASSUME NEW u \in Subs, event'[<<"paid", u>>] = "sent" PROVE Reached(u, 1)'
    <3>1. u # s /\ Reached(u, 1)
      BY <1>6, <2>1, <2>2 DEF CreditInv, Work, Uncredited
    <3> QED BY <1>6, <1>12, <3>1 DEF Reached
  <2>3. ASSUME NEW g \in Handlers, handler'[g].pc \notin {"free", "answer"},
               handler'[g].event[1] = "paid"
        PROVE  Reached(Of(g), handler[g].line)'
    <3>1. CASE g = h
      <4>1. handler'[g] = q /\ k < Lines /\ q.line = k + 1 /\ q.event = <<"paid", s>>
        BY <1>2, <1>7, <1>8, <2>3, <3>1
      <4> QED BY <1>15, <4>1 DEF Reached
    <3>2. CASE g # h
      <4>1. /\ handler'[g] = handler[g]
            /\ handler[g].pc \notin {"free", "answer"} /\ handler[g].event[1] = "paid"
        BY <1>8, <2>3, <3>2
      <4>2. handler[g].event \in Events /\ handler[g].event # handler[h].event
        BY <1>1, <3>2, <4>1 DEF CreditInv, Work, HandlerOK, Alone
      <4>3. PICK u \in Subs : handler[g].event = <<"paid", u>>
        BY <4>1, <4>2 DEF Events
      <4>4. u # s /\ Reached(u, handler[g].line)
        BY <1>2, <4>1, <4>2, <4>3 DEF CreditInv, Work, Uncredited
      <4> QED BY <1>6, <1>12, <4>1, <4>3, <4>4 DEF Reached
    <3> QED BY <3>1, <3>2
  <2> QED BY <2>2, <2>3 DEF Uncredited
<1> QED BY <1>6, <1>9, <1>11, <1>12, <1>14, <1>16 DEF CreditInv, Work

(* An event taken, put back or answered: its handler is the only one.      *)
LEMMA ClaimKeeps ==
    ASSUME CreditInv, NEW h \in Handlers, NEW e \in Events, Claim(h, e) PROVE Work'
<1> DEFINE r == [Free EXCEPT !.pc = "read", !.event = e]
<1>1. /\ event[e] = "sent" /\ handler[h].pc = "free"
      /\ event' = [event EXCEPT ![e] = "claimed"]
      /\ handler' = [handler EXCEPT ![h] = r]
      /\ scene' = scene /\ credits' = credits /\ torn' = torn
  BY DEF Claim, Unclaimed, At, wallet
<1>2. /\ r \in HandlerType /\ HandlerOK(r)
      /\ r.pc = "read" /\ r.event = e /\ r.line = 1
  BY FreshHandler
<1> HIDE DEF r
<1> USE DEF CreditInv, Work, At, Kind, Of
<1>3. \A g \in Handlers : handler'[g] = IF g = h THEN r ELSE handler[g]
  BY <1>1
<1>4. \A f \in Events : event'[f] = IF f = e THEN "claimed" ELSE event[f]
  BY <1>1
<1>5. \A g \in Handlers : handler[g].pc # "free" => handler[g].event \in Events \ {e}
  BY <1>1 DEF Taken, HandlerOK
<1>6. handler' \in [Handlers -> HandlerType] /\ \A g \in Handlers : HandlerOK(handler'[g])
  BY <1>1, <1>2, <1>3
<1>7. Taken'
  BY <1>2, <1>3, <1>4, <1>5 DEF Taken
<1>8. Alone'
  BY <1>2, <1>3, <1>5 DEF Alone
<1>9. Uncredited'
  <2>1. \A s \in Subs : <<"paid", s>> \in Events
    BY DEF Events
  <2>2. ASSUME NEW s \in Subs, event'[<<"paid", s>>] = "sent" PROVE Reached(s, 1)'
    <3>1. Reached(s, 1)
      BY <1>4, <2>1, <2>2 DEF Uncredited
    <3> QED BY <1>1, <3>1 DEF Reached
  <2>3. ASSUME NEW g \in Handlers, handler'[g].pc \notin {"free", "answer"},
               handler'[g].event[1] = "paid"
        PROVE  Reached(Of(g), handler[g].line)'
    <3>1. CASE g = h
      <4>1. handler'[g].event = e /\ handler'[g].line = 1
        BY <1>2, <1>3, <3>1
      <4>2. PICK s \in Subs : e = <<"paid", s>>
        BY <2>3, <4>1 DEF Events
      <4>3. Reached(s, 1)
        BY <1>1, <4>2 DEF Uncredited
      <4> QED BY <1>1, <4>1, <4>2, <4>3 DEF Reached
    <3>2. CASE g # h
      <4>1. handler'[g] = handler[g] /\ Reached(Of(g), handler[g].line)
        BY <1>3, <2>3, <3>2 DEF Uncredited
      <4> QED BY <1>1, <4>1 DEF Reached
    <3> QED BY <3>1, <3>2
  <2> QED BY <2>2, <2>3 DEF Uncredited
<1> HIDE DEF CreditInv
<1>10. event' \in [Events -> {"quiet", "sent", "claimed", "answered"}]
  BY <1>1 DEF CreditInv
<1>11. CreditedUnlessTorn'
  BY <1>1 DEF CreditInv, CreditedUnlessTorn
<1> QED BY <1>1, <1>6, <1>7, <1>8, <1>9, <1>10, <1>11 DEF CreditInv

\* A handler lets go of its event: put back halfway, it counts as torn.
LetsGo(h, to) ==
    /\ ~At(h, "free")
    /\ to = "sent" => ~At(h, "answer")
    /\ torn' \in [Subs -> Nat] /\ \A s \in Subs : torn'[s] >= torn[s]
    /\ to = "sent" /\ Halfway(h) => torn'[Of(h)] > torn[Of(h)]
    /\ event' = [event EXCEPT ![handler[h].event] = to]
    /\ handler' = [handler EXCEPT ![h] = Free]
    /\ UNCHANGED <<scene, credits>>

LEMMA LetsGoKeeps ==
    ASSUME CreditInv, NEW h \in Handlers, NEW to \in {"sent", "quiet"}, LetsGo(h, to)
    PROVE  Work'
<1> USE DEF CreditInv, Work, At, Kind, Of
<1>1. Free \in HandlerType /\ HandlerOK(Free) /\ Free.pc = "free"
  BY FreeIsOK
<1>2. \A g \in Handlers : handler'[g] = IF g = h THEN Free ELSE handler[g]
  BY DEF LetsGo
<1>3. handler[h].event \in Events
  BY DEF LetsGo, HandlerOK
<1>4. \A f \in Events : event'[f] = IF f = handler[h].event THEN to ELSE event[f]
  BY <1>3 DEF LetsGo
<1>5. handler' \in [Handlers -> HandlerType] /\ \A g \in Handlers : HandlerOK(handler'[g])
  BY <1>1, <1>2 DEF LetsGo
<1>6. \A g \in Handlers : handler'[g].pc # "free" =>
         /\ g # h /\ handler'[g] = handler[g]
         /\ handler[g].event \in Events /\ handler[g].event # handler[h].event
  BY <1>1, <1>2 DEF LetsGo, Alone, HandlerOK
<1>7. Taken'
  BY <1>4, <1>6 DEF Taken
<1>8. Alone'
  BY <1>6 DEF Alone
<1>9. Uncredited'
  <2>1. ASSUME NEW s \in Subs, NEW k \in 1..Lines, Reached(s, k)
        PROVE  Reached(s, k)'
    <3>1. torn'[s] >= torn[s] /\ torn[s] \in Nat /\ torn'[s] \in Nat
          /\ credits'[s] \in [1..Lines -> Nat] /\ credits'[s] = credits[s]
      BY DEF LetsGo
    <3> QED BY <2>1, <3>1 DEF Reached
  <2>2. 1 \in 1..Lines /\ \A g \in Handlers : handler[g].line \in 1..Lines
    BY LinesAssumption DEF HandlerType
  <2>3. ASSUME NEW s \in Subs, event'[<<"paid", s>>] = "sent" PROVE Reached(s, 1)'
    <3>1. <<"paid", s>> \in Events
      BY DEF Events
    <3>2. CASE <<"paid", s>> = handler[h].event
      <4>1. /\ handler[h].event[1] = "paid" /\ handler[h].event[2] = s
            /\ to = "sent" /\ handler[h].pc \notin {"free", "answer"}
        BY <1>4, <2>3, <3>1, <3>2 DEF LetsGo
      <4>2. Reached(s, handler[h].line)
        BY <4>1 DEF Uncredited
      <4>3. CASE handler[h].line = 1
        BY <2>1, <2>2, <4>2, <4>3
      <4>4. CASE handler[h].line # 1
        <5>1. torn'[s] >= torn[s] + 1 /\ torn[s] \in Nat /\ torn'[s] \in Nat
          BY <2>2, <4>1, <4>4 DEF LetsGo, Halfway, HandlerOK
        <5> SUFFICES ASSUME NEW n \in 1..Lines
                     PROVE  credits'[s][n] <= IF n = Lines THEN 0
                                              ELSE torn'[s] + (IF n < 1 THEN 1 ELSE 0)
          BY DEF Reached
        <5>2. credits[s][n] <= IF n = Lines THEN 0 ELSE torn[s] + 1
          <6>1. credits[s][n] <= IF n = Lines THEN 0
                                 ELSE torn[s] + (IF n < handler[h].line THEN 1 ELSE 0)
            BY <4>2 DEF Reached
          <6>2. CASE n < handler[h].line
            BY <6>1, <6>2
          <6>3. CASE ~(n < handler[h].line)
            <7>1. n # Lines => credits[s][n] <= torn[s]
              BY <5>1, <6>1, <6>3
            <7>2. credits[s][n] \in Nat
              OBVIOUS
            <7> QED BY <5>1, <6>1, <7>1, <7>2
          <6> QED BY <6>2, <6>3
        <5>3. credits'[s][n] = credits[s][n] /\ credits[s][n] \in Nat
          BY DEF LetsGo
        <5> QED BY <5>1, <5>2, <5>3
      <4> QED BY <4>3, <4>4
    <3>3. CASE <<"paid", s>> # handler[h].event
      BY <1>4, <2>1, <2>2, <2>3, <3>1, <3>3 DEF Uncredited
    <3> QED BY <3>2, <3>3
  <2>4. ASSUME NEW g \in Handlers, handler'[g].pc \notin {"free", "answer"},
               handler'[g].event[1] = "paid"
        PROVE  Reached(Of(g), handler[g].line)'
    <3>1. handler'[g] = handler[g] /\ handler[g].event \in Events
      BY <1>6, <2>4
    <3>2. PICK s \in Subs : handler[g].event = <<"paid", s>>
      BY <2>4, <3>1 DEF Events
    <3>3. PICK k \in 1..Lines : k = handler[g].line
      BY <2>2
    <3>4. Reached(s, k)
      BY <2>4, <3>1, <3>2, <3>3 DEF Uncredited
    <3>5. Reached(s, k)'
      BY <2>1, <3>4
    <3> QED BY <3>1, <3>2, <3>3, <3>5 DEF Reached
  <2> QED BY <2>3, <2>4 DEF Uncredited
<1>10. event' \in [Events -> {"quiet", "sent", "claimed", "answered"}]
  BY DEF LetsGo
<1>11. CreditedUnlessTorn'
  <2>1. ASSUME NEW s \in Subs, NEW n \in 1..Lines
        PROVE  credits'[s][n] <= 1 + (IF n < Lines THEN torn'[s] ELSE 0)
    <3>1. torn'[s] >= torn[s] /\ torn[s] \in Nat /\ torn'[s] \in Nat
          /\ credits'[s][n] = credits[s][n] /\ credits[s][n] \in Nat
      BY DEF LetsGo
    <3>2. credits[s][n] <= 1 + (IF n < Lines THEN torn[s] ELSE 0)
      BY DEF CreditedUnlessTorn
    <3> QED BY <3>1, <3>2
  <2> QED BY <2>1 DEF CreditedUnlessTorn
<1>12. scene' = scene /\ credits' = credits /\ torn' \in [Subs -> Nat]
  BY DEF LetsGo
<1> QED BY <1>5, <1>7, <1>8, <1>9, <1>10, <1>11, <1>12

LEMMA EndOfEventKeeps ==
    ASSUME CreditInv, NEW h \in Handlers, Answer(h) \/ Fail(h) \/ Die(h) PROVE Work'
<1>1. torn \in [Subs -> Nat]
  BY DEF CreditInv, Work
<1>2. CASE Answer(h) \/ Die(h)
  <2>1. LetsGo(h, "quiet")
    BY <1>1, <1>2 DEF Answer, Die, LetsGo, At, wallet
  <2> QED BY <2>1, LetsGoKeeps
<1>3. CASE Fail(h)
  <2>1. handler[h].event \in Events /\ Of(h) \in Subs
    BY <1>3 DEF Fail, CreditInv, Work, HandlerOK, Of, Events
  <2>2. /\ torn' \in [Subs -> Nat] /\ \A s \in Subs : torn'[s] >= torn[s]
        /\ Halfway(h) => torn'[Of(h)] > torn[Of(h)]
    <3>1. CASE Halfway(h)
      BY <1>1, <1>3, <2>1, <3>1 DEF Fail
    <3>2. CASE ~Halfway(h)
      BY <1>1, <1>3, <3>2 DEF Fail
    <3> QED BY <3>1, <3>2
  <2>3. LetsGo(h, IF event[handler[h].event] = "claimed" THEN "sent" ELSE "quiet")
    BY <1>3, <2>1, <2>2 DEF Fail, LetsGo, At, CreditInv, Work
  <2> QED BY <2>3, LetsGoKeeps
<1> QED BY <1>2, <1>3

LEMMA SendAgainKeeps ==
    ASSUME CreditInv, NEW e \in Events, SendAgain(e) PROVE Work'
<1>1. /\ event[e] = "claimed" /\ event' = [event EXCEPT ![e] = "answered"]
      /\ scene' = scene /\ credits' = credits /\ torn' = torn /\ handler' = handler
  BY DEF SendAgain, work, wallet
<1> USE DEF CreditInv, Work
<1>2. Taken' /\ Alone'
  BY <1>1 DEF Taken, Alone, At, HandlerOK
<1>3. Uncredited'
  <2>1. \A s \in Subs : event'[<<"paid", s>>] = "sent" => event[<<"paid", s>>] = "sent"
    BY <1>1 DEF Events
  <2> QED BY <1>1, <2>1 DEF Uncredited, Reached, Kind, Of
<1>4. CreditedUnlessTorn'
  BY <1>1 DEF CreditedUnlessTorn
<1> QED BY <1>1, <1>2, <1>3, <1>4

-----------------------------------------------------------------------------
(* Every other step leaves the handlers alone, or Stripe's queue only.     *)

LEMMA StripeKeeps ==
    ASSUME CreditInv, NEW s \in Subs, InStripe(s) PROVE Work'
<1>1. UNCHANGED handler
  BY DEF InStripe, Pay, Renew, ChargeFails, Expire, work
<1>2. \E kinds : Send(kinds, s)
  BY DEF InStripe, Pay, Renew, ChargeFails, Expire
<1> QED BY <1>1, <1>2, SendQueues, HandlersKept DEF CreditInv

LEMMA OwnerKeeps ==
    ASSUME CreditInv, Owner PROVE Work'
<1> USE DEF Owner, stripe, salon
<1>1. UNCHANGED handler
  BY DEF Begin, OpenCheckout, CancelAtEnd, NoteEnd, CancelNow, CloseSalon,
         RenewInStripe, NoteRenewal, BackInTrial, HangUp
<1>2. Queues
  <2>1. CASE CancelNow
    BY <2>1, SendQueues, StillQueues DEF CreditInv, CancelNow
  <2>2. CASE ~CancelNow
    <3>1. UNCHANGED <<scene, event, wallet>>
      BY <2>2 DEF Begin, OpenCheckout, CancelAtEnd, NoteEnd, CloseSalon,
                  RenewInStripe, NoteRenewal, BackInTrial, HangUp
    <3> QED BY <3>1, StillQueues DEF CreditInv
  <2> QED BY <2>1, <2>2
<1> QED BY <1>1, <1>2, HandlersKept DEF CreditInv

LEMMA ClockAndJobsKeep ==
    ASSUME CreditInv, Time \/ Jobs \/ UNCHANGED vars PROVE Work'
<1>1. UNCHANGED <<scene, event, wallet, handler>>
  BY DEF Time, Jobs, ListTrial, EndTrial, ListGrace, Suspend, vars, stripe, work
<1> QED BY <1>1, StillQueues, HandlersKept DEF CreditInv

LEMMA HandleKeeps ==
    ASSUME CreditInv, NEW h \in Handlers, Handle(h) \/ Fail(h) \/ Die(h) PROVE Work'
  BY ReadKeeps, AskKeeps, AskOtherKeeps, FinishKeeps, RecoverKeeps, CreditKeeps,
     EndOfEventKeeps DEF Handle

LEMMA WorkStep ==
    ASSUME CreditInv, [Next]_vars PROVE Work'
<1>1. CASE \E s \in Subs : InStripe(s)
  BY <1>1, StripeKeeps
<1>2. CASE \E e \in Events : SendAgain(e)
  BY <1>2, SendAgainKeeps
<1>3. CASE \E e \in Events : \E h \in scene.handlers : Claim(h, e)
  <2>1. scene.handlers \subseteq Handlers
    BY ScenesAssumption DEF CreditInv, Work
  <2> QED BY <1>3, <2>1, ClaimKeeps
<1>4. CASE \E h \in Handlers : Handle(h) \/ Fail(h) \/ Die(h)
  BY <1>4, HandleKeeps
<1>5. CASE Time \/ Owner \/ Jobs \/ UNCHANGED vars
  BY <1>5, OwnerKeeps, ClockAndJobsKeep
<1> QED BY <1>1, <1>2, <1>3, <1>4, <1>5 DEF Next

-----------------------------------------------------------------------------
(* Types: what the handlers, the owner and the jobs write.                 *)

SubType == [st : {"none", "open", "trialing", "active", "past_due", "canceled"},
            ending : BOOLEAN]
Subscriptions == [Subs -> SubType]

LEMMA SubChanged ==
    ASSUME CreditInv, NEW s, NEW r \in SubType
    PROVE  [sub EXCEPT ![s] = r] \in Subscriptions
  BY DEF CreditInv, TypeOK, Subscriptions, SubType

LEMMA SubEnds ==
    ASSUME CreditInv, NEW s PROVE Ended(s) \in Subscriptions
  BY SubChanged DEF Ended, SubType

LEMMA SubField ==
    ASSUME CreditInv, NEW s \in Subs,
           NEW st \in {"none", "open", "trialing", "active", "past_due", "canceled"}
    PROVE  [sub EXCEPT ![s].st = st] \in Subscriptions
  BY DEF CreditInv, TypeOK, Subscriptions, SubType

LEMMA TypeStripe ==
    ASSUME CreditInv, NEW s \in Subs, InStripe(s) PROVE TypeOK'
<1>1. UNCHANGED <<status, stored, grace, cancelAt>>
  BY DEF InStripe, Pay, Renew, ChargeFails, Expire, salon
<1>2. sub' \in Subscriptions
  <2>1. CASE Pay(s)
    <3>1. PICK st \in {"trialing", "active"} : sub' = [sub EXCEPT ![s].st = st]
      BY <2>1 DEF Pay
    <3> QED BY <3>1, SubField
  <2>2. CASE Renew(s) \/ ChargeFails(s)
    BY <2>2, SubField DEF Renew, ChargeFails
  <2>3. CASE Expire(s)
    BY <2>3, SubEnds DEF Expire
  <2> QED BY <2>1, <2>2, <2>3 DEF InStripe
<1> QED BY <1>1, <1>2, StripeKeeps DEF CreditInv, TypeOK, Work, Subscriptions, SubType

LEMMA TypeHandle ==
    ASSUME CreditInv, NEW h \in Handlers, Handle(h) \/ Fail(h) \/ Die(h) PROVE TypeOK'
<1>1. handler[h].pc # "free" => handler[h].event[2] \in Subs
  BY DEF CreditInv, Work, HandlerOK, Events
<1>2. handler[h].pc = "write" => handler[h].to \in {"trialing", "active"}
  BY DEF CreditInv, Work, HandlerOK, HandlerType
<1>3. sub' \in Subscriptions
  <2>1. sub' = sub \/ sub' = Ended(Of(h))
    BY DEF Handle, Read, Ask, AskOther, CancelDuplicate, Write, Close, Recover, Credit,
           Late, Answer, Fail, Die, stripe
  <2> QED BY <2>1, SubEnds DEF CreditInv, TypeOK, Subscriptions, SubType
<1>4. /\ status' \in {"trialing", "active", "past_due", "suspended", "cancelled"}
      /\ stored' \in Subs \cup {NoSub}
      /\ grace' \in {"none", "open", "over"} /\ cancelAt' \in {"none", "ahead", "past"}
  <2> USE DEF CreditInv, TypeOK, salon, At, Of
  <2>1. CASE Write(h)
    BY <1>1, <1>2, <2>1 DEF Write
  <2>2. CASE Close(h) \/ Recover(h) \/ Late(h)
    BY <2>2 DEF Close, Recover, Late
  <2>3. CASE ~Write(h) /\ ~Close(h) /\ ~Recover(h) /\ ~Late(h)
    <3>1. UNCHANGED salon
      BY <2>3 DEF Handle, Read, Ask, AskOther, CancelDuplicate, Credit, Answer, Fail, Die
    <3> QED BY <3>1
  <2> QED BY <2>1, <2>2, <2>3
<1> QED BY <1>3, <1>4, HandleKeeps DEF TypeOK, Work, Subscriptions, SubType

LEMMA TypeOwner ==
    ASSUME CreditInv, Owner PROVE TypeOK'
<1>1. sub' \in Subscriptions
  <2> USE DEF CreditInv, TypeOK, Subscriptions, SubType
  <2>1. CASE OpenCheckout
    BY <2>1 DEF OpenCheckout
  <2>2. CASE CancelAtEnd \/ RenewInStripe
    <3>1. PICK b \in BOOLEAN : \/ sub' = sub
                               \/ sub' = [sub EXCEPT ![panel.stored].ending = b]
      BY <2>2 DEF CancelAtEnd, RenewInStripe
    <3>2. CASE sub' = [sub EXCEPT ![panel.stored].ending = b]
      BY <3>2
    <3> QED BY <3>1, <3>2
  <2>3. CASE CancelNow
    BY <2>3, SubEnds DEF CancelNow, stripe
  <2>4. CASE Owner /\ ~OpenCheckout /\ ~CancelAtEnd /\ ~CancelNow /\ ~RenewInStripe
    <3>1. UNCHANGED sub
      BY <2>4 DEF Owner, Begin, NoteEnd, CloseSalon, NoteRenewal, BackInTrial, HangUp, stripe
    <3> QED BY <3>1
  <2> QED BY <2>1, <2>2, <2>3, <2>4
<1>2. /\ status' \in {"trialing", "active", "past_due", "suspended", "cancelled"}
      /\ stored' \in Subs \cup {NoSub}
      /\ grace' \in {"none", "open", "over"} /\ cancelAt' \in {"none", "ahead", "past"}
  BY DEF Owner, Begin, OpenCheckout, CancelAtEnd, NoteEnd, CancelNow, CloseSalon,
         CancelledWord, RenewInStripe, NoteRenewal, BackInTrial, HangUp, salon,
         CreditInv, TypeOK
<1> QED BY <1>1, <1>2, OwnerKeeps DEF TypeOK, Work, Subscriptions, SubType

LEMMA TypeClockAndJobs ==
    ASSUME CreditInv, Time \/ Jobs \/ UNCHANGED vars PROVE TypeOK'
<1>1. UNCHANGED sub
  BY DEF Time, Jobs, ListTrial, EndTrial, ListGrace, Suspend, vars, stripe
<1>2. /\ status' \in {"trialing", "active", "past_due", "suspended", "cancelled"}
      /\ stored' \in Subs \cup {NoSub}
      /\ grace' \in {"none", "open", "over"} /\ cancelAt' \in {"none", "ahead", "past"}
  BY DEF Time, Jobs, ListTrial, EndTrial, ListGrace, Suspend, vars, salon, CreditInv, TypeOK
<1> QED BY <1>1, <1>2, ClockAndJobsKeep DEF CreditInv, TypeOK, Work

LEMMA TypeStep ==
    ASSUME CreditInv, [Next]_vars PROVE TypeOK'
<1>1. CASE \E s \in Subs : InStripe(s)
  BY <1>1, TypeStripe
<1>2. CASE \E e \in Events : SendAgain(e) \/ \E h \in scene.handlers : Claim(h, e)
  <2>1. UNCHANGED <<sub, status, stored, grace, cancelAt>>
    BY <1>2 DEF SendAgain, Claim, salon
  <2> QED BY <2>1, WorkStep DEF CreditInv, TypeOK, Work
<1>3. CASE \E h \in Handlers : Handle(h) \/ Fail(h) \/ Die(h)
  BY <1>3, TypeHandle
<1>4. CASE Time \/ Owner \/ Jobs \/ UNCHANGED vars
  BY <1>4, TypeOwner, TypeClockAndJobs
<1> QED BY <1>1, <1>2, <1>3, <1>4 DEF Next

-----------------------------------------------------------------------------

LEMMA CreditInit == Init => CreditInv
<1> SUFFICES ASSUME Init PROVE CreditInv
  OBVIOUS
<1>1. TypeOK
  BY DEF Init, TypeOK, NoCredit
<1>2. Free \in HandlerType /\ HandlerOK(Free) /\ Free.pc = "free"
  BY FreeIsOK
<1>3. handler \in [Handlers -> HandlerType] /\ \A h \in Handlers : handler[h] = Free
  BY <1>2 DEF Init
<1>4. Taken /\ Alone
  BY <1>2, <1>3 DEF Taken, Alone, At
<1>6. Uncredited
  <2>1. \A s \in Subs : <<"paid", s>> \in Events
    BY DEF Events
  <2> QED BY <1>2, <1>3, <2>1 DEF Init, Uncredited
<1>5. CreditedUnlessTorn
  BY DEF Init, CreditedUnlessTorn, NoCredit
<1> QED BY <1>1, <1>2, <1>3, <1>4, <1>5, <1>6 DEF CreditInv, Work, Init, TypeOK

(* CreditInv is inductive: what Billing writes keeps its types, and an     *)
(* event being handled belongs to one handler, taken from Stripe's queue   *)
(* and, an invoice, credited as far as the line that handler has come to.  *)
THEOREM CreditHolds == Spec => []CreditInv
<1>1. CreditInv /\ [Next]_vars => CreditInv'
  BY WorkStep, TypeStep DEF CreditInv
<1> QED BY CreditInit, <1>1, PTL DEF Spec

(* Every variable of Billing keeps its shape.                              *)
THEOREM TypesHold == Spec => []TypeOK
<1>1. CreditInv => TypeOK
  BY DEF CreditInv
<1> QED BY CreditHolds, <1>1, PTL

(* However often Stripe sends an invoice, each bundle on it reaches the    *)
(* salon's wallet once, and once more at most for every handling that      *)
(* failed between two of its lines; the last one never again (claimEvent,  *)
(* releaseEvent, handleInvoicePaid, creditTopUp).                          *)
THEOREM CreditedUnlessTornHolds == Spec => []CreditedUnlessTorn
<1>1. CreditInv => CreditedUnlessTorn
  BY DEF CreditInv, Work
<1> QED BY CreditHolds, <1>1, PTL
=============================================================================
