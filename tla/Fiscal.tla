------------------------------- MODULE Fiscal -------------------------------
(***************************************************************************)
(* Invoices and their VERI*FACTU records (invoices.service.ts,             *)
(* verifactu-records.service.ts, verifactu-dispatcher.service.ts) of one   *)
(* salon that activated it.  A call is a transaction: it takes locks in    *)
(* the code's order, and all it writes is seen at its commit.  A sender    *)
(* is a backend process that submits the queue to the AEAT.                *)
(***************************************************************************)
EXTENDS Naturals, Sequences, FiniteSets, FiniteSetsExt, Functions, Folds

CONSTANTS
    Invoices, Rectifies, SeriesOf, SourceOf, NoInvoice,   \* see InvoiceBook
    Calls,        \* requests of the panel and the till
    Kinds,        \* call -> the requests it may make in a run
    Senders,      \* backend processes
    MaxRecords,   \* bound: records of the salon
    MaxPerSubmission,   \* records one submission carries, one at least
    NoCall

ASSUME NoCallAssumption == NoCall \notin Calls

ASSUME CallsAssumption == IsFiniteSet(Calls) /\ MaxRecords \in Nat

\* A rectificativa is of no visit of its own: rectifyIn passes no source.
ASSUME InvoicesAssumption ==
    /\ IsFiniteSet(Invoices) /\ NoInvoice \notin Invoices
    /\ Rectifies \in [Invoices -> Invoices \cup {NoInvoice}]
    /\ \A r \in Invoices : Rectifies[r] # NoInvoice =>
          \A i \in Invoices \ {r} : SourceOf[i] # SourceOf[r]

VARIABLES
    inv,       \* invoice -> its row: status, number, fiscalStatus
    records,   \* the salon's chain, in order (VerifactuRecord)
    counter,   \* series -> its last number (FiscalSequence)
    held,      \* lock -> the call that holds it, or NoCall
    call,      \* call -> what it does, what it has yet to do, what it read
    due,       \* the chain's nextSendAt has passed
    failing,   \* the chain's failedAttempts > 0
    sender,    \* sender -> where its submission is
    aeat,      \* invoice -> what the AEAT holds of it
    stored     \* record -> how the AEAT registered it, or none

bookRows == <<inv, records, counter>>
locks == <<held, call>>
queue == <<due, failing, sender>>
agency == <<aeat, stored>>
vars == <<bookRows, locks, queue, agency>>

Series == {SeriesOf[i] : i \in Invoices}
Numbers == 1..MaxRecords
LockIds == {<<"chain">>} \cup {<<"row", i>> : i \in Invoices}
           \cup {<<"series", s>> : s \in Series}

NoRecord == [kind |-> "none", inv |-> NoInvoice, previous |-> 0,
             expects |-> "nothing", status |-> "pending"]
Idle == [kind |-> "none", inv |-> NoInvoice, todo |-> <<>>, number |-> 0,
         rec |-> NoRecord]
Resting == [pc |-> "idle", batch |-> {}, answer |-> <<>>, cur |-> 0]

Init ==
    /\ inv = [i \in Invoices |->
                [status |-> "absent", number |-> 0, fiscal |-> "none"]]
    /\ records = <<>>
    /\ counter = [s \in Series |-> 0]
    /\ held = [l \in LockIds |-> NoCall]
    /\ call = [c \in Calls |-> Idle]
    /\ due = TRUE
    /\ failing = FALSE
    /\ sender = [s \in Senders |-> Resting]
    /\ aeat = [i \in Invoices |-> "nothing"]
    /\ stored = [n \in Numbers |-> "none"]

-----------------------------------------------------------------------------
(* What the records say.                                                   *)

RecordsOf(i) == {n \in DOMAIN records : records[n].inv = i}
Newest(i) == records[Max(RecordsOf(i))]

\* Mutant: only the newest record is looked at.
NewestHoldsAlta(i) == Newest(i).kind = "alta" /\ Newest(i).status # "rejected"

\* The AEAT holds an alta of i, or one is queued and goes first.
HoldsAlta(i) == \E n \in RecordsOf(i) :
                    records[n].kind = "alta" /\ records[n].status # "rejected"

LiveRectifications(i) ==
    {r \in Invoices : Rectifies[r] = i /\ inv[r].status = "issued"}

\* An appointment has one live invoice at most (a partial unique index).
Invoiced(i) == \E j \in Invoices \ {i} :
                   SourceOf[j] = SourceOf[i] /\ inv[j].status = "issued"

-----------------------------------------------------------------------------
(* A request begins: its early returns, and the statements of its          *)
(* transaction in order.                                                   *)

RoomForOne == Len(records) + Cardinality({c \in Calls : call[c] # Idle})
              < MaxRecords

Begin(c, kind, i, todo) ==
    /\ kind \in Kinds[c]
    /\ call[c] = Idle
    /\ call' = [call EXCEPT ![c] = [kind |-> kind, inv |-> i, todo |-> todo,
                                    number |-> 0, rec |-> NoRecord]]
    /\ UNCHANGED <<bookRows, held, queue, agency>>

\* A visit is invoiced once, looked at first and kept so by the index.
StartIssue(c) ==
    \E i \in Invoices :
        /\ inv[i].status = "absent" /\ Rectifies[i] = NoInvoice
        /\ \A d \in Calls : call[d].inv # i
        /\ ~Invoiced(i)
        /\ RoomForOne
        /\ Begin(c, "issue", i, <<"chain", "number", "record", "commit">>)

StartRectify(c) ==
    \E i \in Invoices :
        /\ inv[i].status = "absent" /\ Rectifies[i] # NoInvoice
        /\ \A d \in Calls : call[d].inv # i
        /\ inv[Rectifies[i]].status # "absent"
        /\ RoomForOne
        /\ Begin(c, "rectify", i,
                 <<"row", "chain", "number", "record", "commit">>)

\* cancel() decides under the row's lock; anulate() looks at the status before.
StartCancel(c) ==
    \E i \in Invoices, kind \in {"cancel", "annul"} :
        /\ inv[i].status # "absent"
        /\ kind = "annul" => inv[i].status = "issued"
                             /\ LiveRectifications(i) = {}
        /\ RoomForOne
        /\ Begin(c, kind, i, <<"row", "chain", "record", "commit">>)

\* resendFiscal: a new record for one with errors, and a try now.
StartResend(c) ==
    \E i \in Invoices :
        /\ inv[i].status # "absent"
        /\ LET last == Newest(i)
               fix == \/ last.status = "rejected"
                      \/ last.kind = "alta" /\ last.status = "errors"
           IN  /\ fix => RoomForOne
               /\ Begin(c, IF last.kind = "alta" THEN "correct" ELSE "again", i,
                        IF fix THEN <<"chain", "record", "row", "commit",
                                      "kick">>
                               ELSE <<"kick">>)

-----------------------------------------------------------------------------
(* The statements.                                                         *)

Doing(c, s) == call[c].todo # <<>> /\ Head(call[c].todo) = s

RowOf(c) == IF call[c].kind = "rectify" THEN Rectifies[call[c].inv]
                                        ELSE call[c].inv

LockOf(c, s) == CASE s = "chain"  -> <<"chain">>
                  [] s = "row"    -> <<"row", RowOf(c)>>
                  [] s = "number" -> <<"series", SeriesOf[call[c].inv]>>

Released(c) == [l \in LockIds |-> IF held[l] = c THEN NoCall ELSE held[l]]

\* Whatever it was, the transaction leaves nothing behind.
Rollback(c) ==
    /\ call' = [call EXCEPT ![c] = Idle]
    /\ held' = Released(c)
    /\ UNCHANGED <<bookRows, queue, agency>>

Continue(c, new) ==
    call' = [call EXCEPT ![c] = [new EXCEPT !.todo = Tail(new.todo)]]

\* Mutant: a rectificativa does not look at its original again.
RowAllowsLater(c) == call[c].kind # "cancel" \/ inv[RowOf(c)].status = "issued"

\* What is decided once the invoice's row is locked.
RowAllows(c) ==
    LET i == RowOf(c) IN
    CASE call[c].kind = "rectify" -> inv[i].status # "cancelled"
      [] call[c].kind = "cancel"  -> /\ inv[i].status # "cancelled"
                                     /\ LiveRectifications(i) = {}
      [] call[c].kind = "annul"   -> LiveRectifications(i) = {}
      [] OTHER                    -> TRUE

Allowed(c, s) == CASE s = "row"    -> RowAllows(c)
                   [] s = "number" -> call[c].kind = "issue"
                                         => ~Invoiced(call[c].inv)
                   [] s = "chain"  -> TRUE

\* Mutant: the salon's turn is not waited for.
GrantUnasked(c, s) == TRUE

Grant(c, s) == held[LockOf(c, s)] \in {NoCall, c}

\* A lock is waited for, held to the commit, and then looked under.
Acquire(c) ==
    \E s \in {"chain", "row", "number"} :
        /\ Doing(c, s)
        /\ Grant(c, s)
        /\ IF Allowed(c, s)
           THEN /\ held' = [held EXCEPT ![LockOf(c, s)] = c]
                /\ Continue(c, IF s = "number"
                        THEN [call[c] EXCEPT !.number =
                                counter[SeriesOf[call[c].inv]] + 1]
                        ELSE call[c])
                /\ UNCHANGED <<bookRows, queue, agency>>
           ELSE Rollback(c)

\* The record a call generates: what it says the AEAT holds of the invoice.
RecordFor(c) ==
    LET i == call[c].inv
        fresh == call[c].kind \in {"issue", "rectify"}
        sure == ~fresh /\ Newest(i).status # "rejected"
                       /\ call[c].kind = "correct"
    IN  [kind |-> IF call[c].kind \in {"issue", "rectify", "correct"}
                  THEN "alta" ELSE "anulacion",
         inv |-> i, previous |-> Len(records), status |-> "pending",
         expects |-> IF ~fresh /\ (sure \/ HoldsAlta(i)) THEN "alta"
                                                         ELSE "nothing"]

\* Mutant: whether it may be corrected was seen before the salon's turn.
RecordableAnyhow(c) == TRUE

Recordable(c) ==
    LET last == Newest(call[c].inv) IN
    CASE call[c].kind \in {"cancel", "annul"} -> last.kind # "anulacion"
      [] call[c].kind = "again"   -> /\ last.kind = "anulacion"
                                     /\ last.status = "rejected"
      [] call[c].kind = "correct" -> /\ last.kind = "alta"
                                     /\ last.status \in {"rejected", "errors"}
      [] OTHER -> TRUE

Generate(c) ==
    /\ Doing(c, "record")
    /\ IF Recordable(c)
       THEN /\ Continue(c, [call[c] EXCEPT !.rec = RecordFor(c)])
            /\ UNCHANGED <<bookRows, held, queue, agency>>
       ELSE Rollback(c)

\* The invoice cannot be recorded (a NIF that does not check), or the server
\* aborts it: as if it had never begun, its number included.
Refuse(c) ==
    /\ Doing(c, "record") /\ call[c].kind \in {"issue", "rectify", "correct"}
    /\ Rollback(c)

Written(c) ==
    LET i == call[c].inv
        kind == call[c].kind
    IN  [inv EXCEPT ![i] =
            [status |-> CASE kind \in {"issue", "rectify"} -> "issued"
                          [] kind \in {"cancel", "annul"}  -> "cancelled"
                          [] OTHER                         -> inv[i].status,
             number |-> IF kind \in {"issue", "rectify"} THEN call[c].number
                                                        ELSE inv[i].number,
             fiscal |-> "pending"]]

CountedTo(c) == IF call[c].number = 0 THEN counter
                ELSE [counter EXCEPT ![SeriesOf[call[c].inv]] = call[c].number]

Commit(c) ==
    /\ Doing(c, "commit")
    /\ records' = Append(records, call[c].rec)
    /\ inv' = Written(c)
    /\ counter' = CountedTo(c)
    /\ held' = Released(c)
    /\ IF Tail(call[c].todo) = <<>>
       THEN call' = [call EXCEPT ![c] = Idle]
       ELSE Continue(c, [call[c] EXCEPT !.rec = NoRecord])
    /\ UNCHANGED <<queue, agency>>

\* After a failure, try now.
Kick(c) ==
    /\ Doing(c, "kick")
    /\ due' = (due \/ failing)
    /\ call' = [call EXCEPT ![c] = Idle]
    /\ UNCHANGED <<bookRows, held, failing, sender, agency>>

Waits(c, d) == \E s \in {"chain", "row", "number"} :
                   Doing(c, s) /\ held[LockOf(c, s)] = d

\* Postgres aborts one of two that wait for each other.
BreakDeadlock(c) ==
    /\ \E d \in Calls \ {c} : Waits(c, d) /\ Waits(d, c)
    /\ Rollback(c)

-----------------------------------------------------------------------------
(* The AEAT.  It registers the records of a submission in order; what it   *)
(* thinks of a record's data is its own affair.                            *)

\* w: what it holds; n: a record; opinion: of its data.
Register(w, n, opinion) ==
    LET r == records[n] IN
    IF w.stored[n] # "none"
    THEN [w EXCEPT !.answer[n] = IF w.aeat[r.inv] = "annulled"
                                 THEN "duplicateAnnulled"
                                 ELSE IF w.stored[n] = "errors"
                                 THEN "duplicateErrors" ELSE "duplicate"]
    ELSE IF opinion = "rejected" \/ w.aeat[r.inv] # r.expects
    THEN [w EXCEPT !.answer[n] = "rejected"]
    ELSE [aeat   |-> [w.aeat EXCEPT ![r.inv] = IF r.kind = "alta" THEN "alta"
                                               ELSE "annulled"],
          stored |-> [w.stored EXCEPT ![n] = opinion],
          answer |-> [w.answer EXCEPT ![n] = opinion]]

Opinions == {"accepted", "errors", "rejected"}

Processed(batch, opinion) ==
    MapThenFoldSet(LAMBDA n, w : Register(w, n, opinion[n]),
                   [aeat |-> aeat, stored |-> stored,
                    answer |-> [n \in batch |-> "none"]],
                   LAMBDA n : n, LAMBDA left : Max(left), batch)

-----------------------------------------------------------------------------
(* The dispatcher.                                                         *)

Pending == {n \in DOMAIN records : records[n].status = "pending"}

\* Its wait, or the claim of a process that died, is over.  A submission
\* takes less than the five minutes it claims.
WaitEnds ==
    /\ ~due
    /\ \A s \in Senders : sender[s].pc = "idle"
    /\ due' = TRUE
    /\ UNCHANGED <<bookRows, locks, failing, sender, agency>>

\* Mutant: a queue that failed is not tried again.
ClaimUnlessFailing(s) == due /\ Pending # {} /\ ~failing

Claimable(s) == due /\ Pending # {}

\* The oldest, as many as a submission carries.
Batch == {n \in Pending :
             Cardinality({m \in Pending : m < n}) < MaxPerSubmission}

\* tick, sendNext: the slot is claimed for five minutes, the queue read.
Claim(s) ==
    /\ sender[s].pc = "idle"
    /\ Claimable(s)
    /\ due' = FALSE
    /\ sender' = [sender EXCEPT ![s].pc = "loaded", ![s].batch = Batch]
    /\ UNCHANGED <<bookRows, locks, failing, agency>>

\* failed(): later, the records as they were.
Fail(s) ==
    /\ due' = FALSE
    /\ failing' = TRUE
    /\ sender' = [sender EXCEPT ![s] = Resting]
    /\ UNCHANGED <<bookRows, locks>>

\* No certificate, not reached, or refused as a whole (a SOAP fault).
NotSent(s) == sender[s].pc = "loaded" /\ Fail(s) /\ UNCHANGED agency

\* Registered, but the answer does not come back.
AnswerLost(s) ==
    /\ sender[s].pc = "loaded"
    /\ \E opinion \in [sender[s].batch -> Opinions] :
          LET w == Processed(sender[s].batch, opinion) IN
          aeat' = w.aeat /\ stored' = w.stored
    /\ Fail(s)

Answered(s) ==
    /\ sender[s].pc = "loaded"
    /\ \E opinion \in [sender[s].batch -> Opinions] :
          LET w == Processed(sender[s].batch, opinion) IN
          /\ aeat' = w.aeat
          /\ stored' = w.stored
          /\ sender' = [sender EXCEPT ![s].pc = "apply", ![s].answer = w.answer]
    /\ UNCHANGED <<bookRows, locks, due, failing>>

\* Mutant: a duplicate is one more rejection.
DuplicateIsRejected(answer) ==
    IF answer \in {"accepted", "errors"} THEN answer ELSE "rejected"

\* recordStatus: sent before and registered counts as registered.
RecordStatus(answer) ==
    CASE answer \in {"accepted", "duplicate", "duplicateAnnulled"} -> "accepted"
      [] answer \in {"errors", "duplicateErrors"} -> "errors"
      [] answer = "rejected" -> "rejected"

\* applyResults: one record at a time, and then its invoice.
Apply(s) ==
    /\ sender[s].pc = "apply" /\ sender[s].batch # {}
    /\ LET n == Min(sender[s].batch) IN
       /\ records' = [records EXCEPT ![n].status =
                        RecordStatus(sender[s].answer[n])]
       /\ sender' = [sender EXCEPT ![s] =
             [pc |-> "look", batch |-> @.batch \ {n}, cur |-> n,
              answer |-> Restrict(@.answer, @.batch \ {n})]]
    /\ UNCHANGED <<inv, counter, locks, due, failing, agency>>

\* reflectOnInvoice: only for the invoice's newest record...
LookForNewest(s) ==
    /\ sender[s].pc = "look"
    /\ LET n == sender[s].cur IN
       sender' = IF n = Max(RecordsOf(records[n].inv))
                 THEN [sender EXCEPT ![s].pc = "show"]
                 ELSE [sender EXCEPT ![s].pc = "apply", ![s].cur = 0]
    /\ UNCHANGED <<bookRows, locks, due, failing, agency>>

\* Mutant: the record's status as it is.
ShownAsIs(status) == status

Shown(status) == IF status = "rejected" THEN "rejected" ELSE "accepted"

\* ... and by the invoice's id.
Reflect(s) ==
    /\ sender[s].pc = "show"
    /\ LET r == records[sender[s].cur] IN
       inv' = [inv EXCEPT ![r.inv].fiscal = Shown(r.status)]
    /\ sender' = [sender EXCEPT ![s].pc = "apply", ![s].cur = 0]
    /\ UNCHANGED <<records, counter, locks, due, failing, agency>>

Done(s) ==
    /\ sender[s].pc = "apply" /\ sender[s].batch = {}
    /\ due' = FALSE
    /\ failing' = FALSE
    /\ sender' = [sender EXCEPT ![s] = Resting]
    /\ UNCHANGED <<bookRows, locks, agency>>

\* A process dies in the middle of a submission.
Die(s) ==
    /\ sender[s].pc # "idle"
    /\ sender' = [sender EXCEPT ![s] = Resting]
    /\ UNCHANGED <<bookRows, locks, due, failing, agency>>

-----------------------------------------------------------------------------

Request(c) == StartIssue(c) \/ StartRectify(c) \/ StartCancel(c)
              \/ StartResend(c)

Proceed(c) == Acquire(c) \/ Generate(c) \/ Commit(c) \/ Kick(c)

Submit(s) == Claim(s) \/ Apply(s) \/ LookForNewest(s)
             \/ Reflect(s) \/ Done(s)

Next == \/ \E c \in Calls : Request(c) \/ Proceed(c) \/ Refuse(c)
                            \/ BreakDeadlock(c)
        \/ \E s \in Senders : \/ Submit(s) \/ NotSent(s) \/ AnswerLost(s)
                              \/ Answered(s) \/ Die(s)
        \/ WaitEnds

Spec == Init /\ [][Next]_vars

(* The dispatcher ticks and its waits end; the AEAT, asked again and       *)
(* again, answers at some time; a process may die as often as it likes,    *)
(* but not for ever before it writes the first of an answer down.  Nothing *)
(* is asked of the calls: they may take as long as they like.              *)
FairSpec == /\ Spec
            /\ WF_vars(WaitEnds)
            /\ \A s \in Senders : /\ WF_vars(Submit(s))
                                   /\ SF_vars(Answered(s)) /\ SF_vars(Apply(s))

-----------------------------------------------------------------------------
(* Properties.                                                             *)

\* Every variable keeps its shape.
TypeOK ==
    /\ inv \in [Invoices -> [status : {"absent", "issued", "cancelled"},
                  number : Nat,
                  fiscal : {"none", "pending", "accepted", "rejected"}]]
    /\ Len(records) <= MaxRecords
    /\ held \in [LockIds -> Calls \cup {NoCall}]
    /\ due \in BOOLEAN /\ failing \in BOOLEAN
    /\ aeat \in [Invoices -> {"nothing", "alta", "annulled"}]
    /\ \A s \in Senders : sender[s].batch \subseteq DOMAIN records

(* Each record names the one before it, whatever calls generate records at *)
(* once: the regulation chains them as generated, strictly in sequence.    *)
ChainIsALine ==
    \A n \in DOMAIN records : records[n].previous = n - 1

(* What the salon is shown of a record is what the AEAT did with it: one    *)
(* that counts as registered is, one shown rejected is not, though answers  *)
(* are lost, processes die between answers and the same record is sent     *)
(* again.                                                                  *)
LocalMatchesAeat ==
    \A n \in DOMAIN records :
        /\ records[n].status \in {"accepted", "errors"} => stored[n] # "none"
        /\ records[n].status = "rejected" => stored[n] = "none"

(* A record waiting to be sent that tells the AEAT "you hold no alta of     *)
(* this invoice" (SinRegistroPrevio, RechazoPrevio=X) is right, and so is   *)
(* a correction that says it holds one.                                    *)
RecordsTellTheTruth ==
    \A n \in Pending : stored[n] = "none" =>
        LET r == records[n]
            earlier == {m \in Pending : m < n /\ records[m].inv = r.inv}
        IN  earlier = {} =>
              /\ r.expects = "nothing" => aeat[r.inv] # "alta"
              /\ r.expects = "alta" /\ r.kind = "alta"
                    => aeat[r.inv] # "nothing"

(* A cancelled invoice has its annulment as its newest record: no          *)
(* correction gets in after it, and none is cancelled without one.         *)
CancelledIsAnnulled ==
    \A i \in Invoices :
        inv[i].status = "cancelled" <=>
            RecordsOf(i) # {} /\ Newest(i).kind = "anulacion"

\* The salon's books as InvoiceBook promises them, at every step.
Book == INSTANCE InvoiceBook WITH
            status <- [i \in Invoices |-> inv[i].status],
            number <- [i \in Invoices |-> inv[i].number],
            told   <- aeat

BookKept == Book!BookSpec

(* The queue drains: no failure, lost answer or death of a process leaves  *)
(* a record in it for ever while the AEAT can be reached.  (The records    *)
(* are bounded: once no more come, all that waited were answered.)         *)
QueueDrains == []<>(Pending = {})
=============================================================================
