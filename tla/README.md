# KiraRoom, specified in TLA+

KiraRoom is a multi-tenant SaaS for beauty salons: an agenda with online
booking, a till with gift cards and loyalty points, marketing and fiscal
invoices. The backend (`src/packages/backend`, NestJS, Prisma, PostgreSQL at
READ COMMITTED) runs as several instances, each an event loop that interleaves
requests at every `await`, next to cron jobs that run in all of them. The
specifications here are about that: what two calls, two instances, a job and a
dying process can do to each other's rows.

Six parts are modelled, checked and partly proved: the **agenda**, the **till**,
the **invoices** with their fiscal records, the **email campaigns**, the
**rebooking reminders** and the **billing** of the salons themselves. The rest is
inventoried below with what it would take.

## How to run

    tlc -workers 2 -config Agenda_slots.cfg MCAgenda      # one run
    tlapm AgendaProofs.tla                                # one module's proofs

Every run is listed in `PROJECT.json` with its configuration; runs marked
`violation` are expected to end with a counterexample.

## The system

| Part | State it keeps | Operations | Meets |
|---|---|---|---|
| Agenda (`appointments/`) | appointment: professional, day, time, service, status; service rows of a visit | book online, book from the panel, edit, drag, edit a row, change status, delete; job that expires unconfirmed bookings; client's cancel link | Postgres advisory lock per salon and day; till (a payment completes a visit); loyalty, invoices, wait list, reminders after a status change |
| Visit layout (`visit-move`, `visit-sync`, `visit-totals`, `visit-edit`) | rows of a visit | place, move, total (pure) | agenda |
| Till (`pos/`, `payments/payments.service.ts`) | sale, payments, refunds, sale lines, stock | sell, refund | agenda (amountPaid), gift cards, promotions, loyalty, cash session, commissions |
| Cash sessions (`pos/cash-sessions`) | session open or closed, movements, what was counted | open, close, money in and out | till, wallet |
| Gift cards | balance, active | issue, redeem, give back, switch | till |
| Loyalty | points ledger, redemptions | earn, redeem, give back, expire | till, agenda |
| Promotions | uses | claim, release | till |
| Wallet | balance, movements | top up, pay, withdraw | till, cash sessions |
| Invoices and VERI*FACTU | numbers per series, chain of fiscal records, queue to the tax agency | issue, rectify, annul, submit, retry | till, agenda |
| Reminders (`notifications/`) | sent flag and attempts per appointment | claim, send, retry; re-armed by a move | agenda |
| Wait list | entry status | notify on a freed slot, close on a booking, expire | agenda |
| Email campaigns | recipient status and lease, month's quota, bono | reserve, claim, send, release, pause | provider's events |
| Rebooking reminders (`rebooking/`) | a client's cadence row, her reminder rows, the salon's settings | compute, recompute a salon in the background, claim, send, advance, cancel, opt out | agenda (completed visits, bookings), unsubscribe link |
| Billing of salons | subscription, trial, grace, handled Stripe events | checkout, webhook events, jobs | everything (read-only salons) |
| Sessions and accounts | refresh token pair, one-use codes, invites | rotate, revoke, accept | |
| Assistant's approvals | pending action | approve and run, reject, expire | agenda |
| Time off | request status | ask, decide, expire | agenda |
| Commissions, accounting, analytics, exports, ICS | derived figures | compute, claw back | till, agenda |
| Client merge, erasure, import | every table of a client | long transactions | everything |
| Platform, widget, domains, public site, onboarding, reviews, consent | configuration and content | one row per call | |
| Frontend, marketing site, operations | none of the above | | API |

What makes each correct, and what is hard about it:

* **Agenda.** No professional is ever booked twice; status changes follow the
  table from the status the row really has; what follows a completion (invoice,
  points, notices) happens once. Hard: reads are separated from writes by
  awaits, the lock is taken late, some routes take none, a visit can span two
  days' locks, callers look twice.
* **Till.** Gift cards, stock, points, promotion uses and `amountPaid` always
  add up; nothing is given back twice; a whole sale given back comes back
  whole; money never enters a drawer that was counted. Hard: a sale is up to
  seven conditional statements in one transaction preceded by one in another;
  retries carry the same request id; two refunds of one sale share its lines;
  row locks can close a circle.
* **Invoices.** Numbers have no gaps, each fiscal record chains to the one
  before, no invoice is cancelled under a live rectificativa, and what the tax
  agency (AEAT) is told is true. Hard: the row of the invoice, the salon's turn
  and the number are locked in an order that differs from call to call; a
  submission's answer may be lost, and its records sent again.
* **Campaigns, reminders, rebooking.** An email is sent once and not lost, and
  the month's allowance is what went out. Hard: a send cannot be in a
  transaction, so each is reserve, claim, send, record, with crashes, leases and
  the end of the month in between.
* **Billing.** A salon that pays is open, one that stops is not, and no salon
  pays twice, whatever order Stripe's events come in. Hard: events come twice,
  late and side by side; each handler reads, asks Stripe and writes by id; two
  jobs and the owner do the same.

`PROJECT.json` lists the hazards at their lines, with the property that covers each
or the reason none does.

## Modules

    Agenda          the appointment book and all its writers
      AgendaProofs  no double booking, locks, the status table, completions: proved
      MCAgenda      small salons
    Tickets         what a ticket is: priced, split, paid (constants, pure operators)
      TillLedger    what the till promises: each sale and refund at one instant
        Till        the till as it runs: statements, row locks, rollbacks, crashes
          TillProofs  a counted drawer stays as counted: proved
            TillBooksProofs  the books add up, Till implements TillLedger: proved
          MCTill    small tills
    InvoiceBook     what the invoicing promises: numbers, cancellations, what the AEAT holds
      Fiscal        the calls and their locks, the chain, the dispatcher, the AEAT
        FiscalProofs  the chain, what is shown and told, Fiscal implements
                      InvoiceBook: proved
        MCFiscal    a visit invoiced, corrected and invoiced again
    Campaigns       one campaign: the panel, the senders, the allowance
      CampaignsProofs  one sender for each email, no way back, the allowance: proved
      MCCampaigns   small lists
    Rebooking       one client's cadence, the dispatchers, the salon's settings
      RebookingProofs  one email in a cycle: proved
      MCRebooking   small lives
    Billing         one salon's subscriptions: Stripe, its events, owner, jobs
      BillingProofs  how often a bundle is credited: proved
      MCBilling     small scenes
    SumProofs       sums, folds and extremes over finite sets: lemmas of the three
                    modules that count

### Agenda

An appointment is a `place` (professional, day, start, service), a `status` and
who booked it. A call is a record in `req` with a program counter:

| pc | what the code is doing |
|---|---|
| `scan` | the expiry job, the cancel link or a payment has looked at the appointment, and has yet to call `changeStatus`, which reads it again (`Reread`) |
| `lock` | `lockBookingDays`: one `pg_advisory_xact_lock` per day, in order (`Acquire`) |
| `check` | `isSlotFree` / `assertCanBook` / `assertCanReschedule` (`Check`, `Refuse`) |
| `write` | the insert, update or delete, with the condition it carries (`InsertOnline`, `InsertByStaff`, `Update`, `Stale`, `Delete`) |
| `release` | an online booking whose row is committed and whose lock is not yet released |
| `after` | `afterStatusChange` of a completion, after the commit (`FollowUp`) |

What a call read stays in its record: `to` and `fields` are the columns an edit
will write, `seenSt` the status its change was checked against. The start of
each kind of call is an action named `Start...`; its guards are the refusals of
the handler before its first write. An online booking inserts through the
normal client while another transaction holds the lock, which is why it alone
can lose the lock and go on (`TxTimeout`); a panel call that times out is
rolled back whole (`Crash`).

Abstracted: opening hours, time off, plan limits and blocked clients are one
nondeterministic refusal (`Refuse`); a visit of several services is one stretch
of one professional; the rest of an edit's columns are left out.

### Till

`Tickets` is what the server has computed before its transaction: a request id
has one body, and a retry carries the same one. `TillLedger` holds the books and
what is promised: `Sell`, `Refund`, `TakeOut`, open and close, each atomic.
`Till` runs the code: a call is a list of statements still to do (`todo`),
built from `SaleSteps`, `RefundSteps` and `RefundEnd` in the code's order.

* A statement of `RowSteps` updates one row: it waits while another call holds
  the row's lock, then tests its condition on what is committed (`Passes`), and
  either keeps the lock to the commit or rolls everything back (`Rollback`).
* A statement of `ReadSteps` reads without waiting: the cash session (`FOR
  SHARE`, so that `CloseWhenLeft` waits for it), the lines of the sale and the
  payments still paid (`ReadLines`), the promotion's use (`CountUses`), the cap
  of a movement (`CheckCap`).
* `CommitSale`, `CommitRefund` and `CommitTakeOut` write all at once and free
  the locks.
* Outside the transaction: `RedeemPoints` before a sale, `GiveBackPoints` in
  its catch, `AfterRefund` after a refund.
* `BreakDeadlock` aborts one transaction of a circle of waiters.

`Till` implements `TillLedger`: the two share the books' variables, the mapping
is the identity, and every step that changes them must be one of `LedgerNext`
(`LedgerSpec`, checked as a property of `books` and proved by
`TillImplementsLedger`).

Abstracted: one product, one visit, one client, at most one payment per kind of
thing, one gift card per ticket; a refund's read and conditional write of the
appointment are one statement (the code may answer 409 where the model goes on);
switching a card is one statement, of any card that was issued, because the
money the panel found on it may be spent when it writes; that units named are
worth at least the amount is checked at the start only, as in the code. A ticket
with a visit pays all it owes (`VisitOwes`): the total has what the visit owes
(`pos.service.ts:815`) and `settleTenders` refuses less (`pos-tenders.ts:36`),
so that no sale leaves a visit partly paid; a refund does. Not modelled: wallet
payments, a promotion's limit per client, a reward's limit, points earned,
loyalty gifts, card expiry, movements by staff (no cap), invoices, refunds that
name both lines.

### Invoices

A call of `Fiscal` is a transaction: the statements it has yet to do (`todo`), in
the code's order.

| Statement | Code |
|---|---|
| `chain` | `lockSalon`: the salon's turn, an advisory lock held to the commit |
| `row` | `SELECT ... FOR UPDATE` on the invoice (for a rectificativa, on the original), and what is decided under it (`RowAllows`) |
| `number` | the upsert on `fiscal_sequences`, whose row lock makes the next one wait |
| `record` | the record built from what the chain and the invoice's records say (`RecordFor`, `Recordable`), or refused |
| `commit` | everything written at once, the locks freed |
| `kick` | after a resend's commit, the wait of a failing queue is cut short |

Issuing takes the turn and then the number; a rectificativa and a cancellation
take the row first and the turn after; a resend takes the turn and writes the row
after. The two orders can close a circle, which `BreakDeadlock` opens as Postgres
does. `StartResend`, like the panel's `anulate`, looks at the newest record before
its transaction begins and again within it.

The dispatcher (`sender`) claims the queue (`Claim`), submits it, and writes each
record's verdict and then, in two more steps, its invoice's (`Apply`,
`LookForNewest`, `Reflect`). The AEAT is an operator, `Register`: it takes the
records of a submission in order, answers a repetition as a duplicate, and
refuses a record that contradicts what it holds or whose data it dislikes. The
submission may not reach it, its answer may be lost, the process may die.

`Fiscal` implements `InvoiceBook`: the mapping reads status and number off the
invoices' rows and takes what the AEAT holds as what it was told (`BookKept`,
checked as a property of `fiscal` and proved by `BookIsKept`). The `Rectifies`,
`SeriesOf` and `SourceOf` of an invoice are constants; each invoice is issued
once, and a visit has as many as the run gives it.

Left out: amounts and lines; the record's XML and hash (a record is linked to its
predecessor by place); change of NIF; records the answer does not mention; more
than 1000 records in a submission; salons without VERI*FACTU and invoices older
than its activation; anonymised clients; the copy in Holded.

### Campaigns

None of this runs in a transaction, so each statement of a sender is a step:
`Pick` (sweep of lapsed leases, the due recipients with their tries, who is out,
the month), then for each `ReservePlan` or `ReservePack`, `Claim`, `Send`,
`GiveBack`, `Write`, or `Skip`. What it read stays in its record: the tries, the
month, the slot. The panel's calls look at the campaign (`Ask`) and write it by a
conditional update later (`ClaimCampaign`); `retryFailed` has two more steps
(`Reset`, `Undo`). The process may die at any step (`Die`); the slot it held then
is `wasted`, a counter only the properties read, as is `sentAt`.

Times are flags: `due` says that a recipient's `nextAttemptAt` has passed.
`WaitOver` sets it, except for a send under way: a live send takes less than the
ten minutes of its lease. A run slower than that writes its outcome by id over
whatever a second sender wrote meanwhile; that is not modelled. The provider is
one answer of four (`Send`); its idempotency key makes a repetition an answer
only, and the key's expiry is left out.

Left out: two calls of the panel at once, which the same conditional update
separates; content and segments; the order of several campaigns, and the
re-engagement campaigns, which share the quota; buying a bono meanwhile and the
panel's count of it (`packSent`); removing recipients; inactive clients; the
provider's delivery events. `sendToAllClients` is `add` and then `send`.

### Rebooking

One client: `cadence` is her row (the date as `none`, `ahead`, `due` or `old`; the
service it is for; how regular each service is; `sentFor`, the last notice of each
service), `rows` her reminders but the failed ones, which are only counted in
`failures` because that is all the code asks of them. A moment is the number of
her completed visits by then, plus one: `completedSince` is a comparison of two.

A dispatcher (`sender`) is a call of `runDailyTick` narrowed to her, a step for
each read and each write of `processOne`: `List`, `CheckSalon`, `Claim`, `Read`,
seven checks, `Create`, `Delivered` or `NotDelivered`, `RecordSent` or
`RecordFailed`, `Remember`, `Advance`. It keeps what `Read` read; `Remember` writes
`sentFor` back whole. It may die after any of them (`Dies`).

`compute` holds the calls of `computeForClient`, asked for by a completed visit
(`Complete`), the panel (`Predict`) and the recompute of the salon behind a save
(`Save`, `again`, `Finish`): settings, visits and row are read and written in
separate steps, so an older one may write last (`overwritten`, a history variable
the properties read). What statistics the dates give is a choice: any of the
services with enough visits may be irregular, and any may be next, due or not.

`Scenes` says who is at work in a run and which of her and the salon's doings may
happen. A lease lapses when no dispatch is under way: one dispatch is shorter
than its 50 minutes. Left out: two saves at once (`Save` reads, writes and starts
the recompute in one step, so that none overwrites what another wrote after it
read); dates and lead days, sending hours and the salon's
time zone, pages of 500, the email's text, the onboarding test client, several
appointments at a time, and a process that dies with the background recompute,
which lives in memory and is then lost until the next visit or save.

### Billing

`sub` is Stripe: each subscription's status and whether it ends with its period.
`event` is what became of its last event of each kind: `sent`, `claimed` by a
handler, `answered` (a later try of it was told it was handled while the first
one still runs), `quiet`. A handler reads the salon (`Read`), asks Stripe
(`Ask`, `AskOther`), and writes by id (`Write`, `Close`, `Recover`, `Late`),
each a step, because none runs in a transaction; `Fail` is its catch, which
releases the event, and `Die` a process that does not get there. The bundles of
an invoice are credited a line at a time (`Credit`), each an increment that asks
nothing of the invoice, so that `Fail` may come between two: `torn` counts
those, a history variable that only the property reads. A statement that fails
has written nothing. The owner's calls and the two jobs are split in the same
way. Dates are flags that `Time` moves on.

One event of a kind and subscription is under way at a time; one that finds
another on its way is taken as told by it (a handler asks Stripe for the
subscription as it is now, so what the second would say is not lost).
`Scenes` says which subscriptions, kinds of event, calls and handlers there are,
and how many faults; TLC chooses one at the start.

Left out: changes of plan and locations, add-ons, email packs, the session
credit, the console's own actions (block, courtesy, delete), mails and invoice
copies, the development path without Stripe, the `active` branch of
`handlePlanSubscription` that no event reaches, `subscription.updated` with
`past_due`.

## Runs

| Run | Question | Bounds |
|---|---|---|
| `slots` | Can a professional be booked twice, by bookings online and by the panel, edits and drags between days, with crashes? | 2 appointments, 2 calls, one edit of an appointment at a time, 1 professional, 2 days, 2 starts; a service of one tick and one of two with a tick of tidy-up, in a day of 3 |
| `status` | Do all paths to a status follow the table, is each completion followed through once, and does every call end? | 1 appointment, 2 calls of any of 10 kinds, all statuses, 2 days, transactions that time out; fair |
| `books` | Is every commit of the till a sale or refund of the ledger, and do card, shelf and refunds add up? | 3 tickets, 2 calls, a card of 2 and a shelf of 2 that two tickets want, a promotion for 1 that two want, no cash; crashes |
| `visit` | Is a visit charged once, never after its cancellation, paid only while something paid it, and the drawer's count final? | 2 tickets for one visit (cash; points and the gift card the other sells), 2 sessions, movements, card switched, visit cancelled |
| `whole` | Are points never lost or doubled, does a whole sale come back, does every call end? | 2 tickets that take card and product against each other's refunds; fair |
| `fiscal` | Do the books keep what `InvoiceBook` promises, do the records chain and tell the truth, and does the queue drain? | a visit with two possible invoices and a rectificativa, 2 calls, of 4 and of 5 kinds, 3 records, 2 to a submission, one dispatcher; any number of lost answers and deaths; fair |
| `quota` | Do the emails add up, is each sent by one sender, can a campaign go back, does it end? | 1 client and 2 processes, or 2 clients and 1; a plan of 1 a month, a bono of 1, 2 months, 2 tries, 1 death; fair |
| `cycle` | Is a client emailed once in a cycle, is she not forgotten, do the settings reach her? | six scenes of 1 or 2 services, up to 2 overlapping ticks and 2 computations, 1 or 2 saves; a service she had twice and one new to her, 1 visit more of each, a minimum of 1 or 3 visits, 1 failure a day, 1 death; fair |
| `billing` | Is a bundle credited once, failures between two of them aside, do two subscriptions never go on billing, does a trial end? | four scenes: two checkouts side by side; one subscription's invoices of two bundles, handled twice at once, or paid and failed, each with 1 fault; an owner who cancels and comes back, without; fair |

Two calls are enough for the hazards here: each is one call acting on what it
read before another wrote. Two appointments are enough for a double booking, two
days for a lock order. What needs more is a circle of three waiters, which
differs from one of two only in its length. The units, prices and ticks are the
least that tell apart a part from a whole (an amount of 2 refunded 1 and 1) and
touching from overlapping. Cancellations and deletions stay in `status`: a place
given up frees time and takes none. Of two bundles the first can be credited
twice and the last cannot. Three records let an invoice be corrected or rejected
and then annulled, and the chain be continued beside it; two to a submission
(1,000 in the code) leave one for the next. The two calls make every pair of
requests but two rectificativas or two resends at once. An allowance below the
number of recipients makes the campaign pause, go on from the bono and from the
next month; two tries tell a retry from the last. Two handlers meet in the scene
of the invoices; the scene of the two checkouts has one, because two at once
break `OneBills` each month anew by a race described below. One more visit of a
service is the next cycle, and what happens in the one after is the same again;
one failure a day (3 in the code) tells a send that is tried again from a cycle
that is skipped. The scenes of `cycle` keep apart what does not meet: the
settings and the computations in the first two, one sender that dies, two that
overlap, what may stop a reminder, and two services. `MaxSessions`,
`MaxRecords`, `MaxMonths`, `MaxDeaths`, `MaxVisits`, a scene's `faults` or
`saves` and appointment ids used once are the bounds; all are named constants,
and the proofs hold for every value. `MaxTries` is both the code's own limit and
a cap of the counter.

The runs that set `CHECK_DEADLOCK FALSE` stop lawfully: a till with everything
sold and given back, a salon whose records are all used, a campaign that is
sent, a client who refused, a subscription that ended. That no call hangs is
`CallsEnd` and the other liveness properties.

### What the code says of itself and does not do

Three runs end in a counterexample; `PROJECT.json` quotes the line each refutes.

* `skew` — two edits of one appointment, one with a new time and one with a new
  professional, each checked against the other's old half: double booking.
* `stuck` — `retryFailed` sets a campaign going before it puts its failed
  recipients back; a run in between finishes it, and they stay pending in a sent
  campaign that nothing takes up.
* `older` — the end of a salon's old subscription, handled while the purchase of
  another is: the handler compared it with the subscription the salon had before,
  and cancels the account just paid for. No later event brings it back, because
  an activation refuses the subscription the salon "cancelled".

More disagreements were met while modelling. Each takes one or two calls, one
failure or one death, and reading it is enough, so no property stands for it.

* An online booking whose transaction passes 15 s loses the lock and inserts all
  the same (`appointments.service.ts:537`). The run `status` lets it happen;
  `slots` does not, and the theorem excludes it by name.
* The expiry job cancels, as unconfirmed, a booking the salon confirmed after
  the job listed it (`appointments.service.ts:2177`).
* `PATCH` of a service row (`appointment-services.service.ts:338`) checks its
  slot with neither lock nor transaction, so two of them double-book. `slots`
  leaves the route out and the theorem excludes it by name.
* A drag (`appointments.service.ts:2977`) looks at the status before its
  transaction and writes by id: a visit completed meanwhile is moved. A delete
  (`appointment-delete.ts:85`) is by id: a visit completed meanwhile disappears.
  `updatePaymentStatus` (`appointments.service.ts:2709`) writes paid and amount
  by id beside the till.
* As many online bookings at once as the pool has connections each hold one for
  their lock and wait for a second (`appointments.service.ts:516`).
* A process that dies between the redemption of points and the commit of the
  sale leaves the points spent on nothing (`pos.service.ts:782`).
* The last two payments of a sale whose lines name no professional, refunded at
  once (`payments.service.ts:810`): neither gives the whole sale back, because the
  commission lock is what orders them and no professional means no lock. `whole`
  checks `WholeSaleComesBack` on sales that name one.
* The payment refunded last decides whether the remaining units come back
  (`payments.service.ts:584`): when it is the visit's or a gift card's,
  `giveBackLines` has no line of it to work on and units sold beside it stay off
  the shelf. `WholeSaleComesBack` is checked on sales of lines alone.
* A visit paid partly by a reward (`payments.service.ts:617`) is still "paid"
  when all its money and the points have gone back, because `amountPaid` counts
  what the reward covered, where `pos.service.ts:1129` says it is paid "if and only
  if the payments that pay it are recorded": `PaidVisitIsPaid` asks for a payment
  or a reward. And two managers' movements both pass the cap of the
  drawer (`cash-sessions.service.ts:150`), computed under a share lock.
* A record's verdict and its invoice's are two writes
  (`verifactu-dispatcher.service.ts:243`): a process that dies in between leaves
  the invoice "pending" for ever. And the newest record is looked up before the
  invoice is written by id, so a newer record generated in between is shown as
  answered.
* A resend in a failing queue makes it due at once
  (`invoices.service.ts:889`), while a submission may be under way: two processes
  then submit the same records. `Fiscal` has one dispatcher, so the run does not
  ask what two do.
* A cancellation or a rectificativa locks the invoice's row and then waits for
  the salon's turn; a resend holds the turn and then writes the row. Two calls
  about one invoice can wait for each other; the order that
  `invoices.service.ts:284` keeps is that of the turn and the number.
* A sender slower than its lease writes its outcome by id over what the next one
  wrote (`email-campaign-sender.service.ts:345`). A provider's event that arrives
  before its message id is written is dropped (`resend-events.service.ts:91`).
* A process that dies with a claimed Stripe event loses it: every later try is
  answered as a duplicate (`webhooks.controller.ts:170`); so does a first try that
  fails after a second was answered.
* A failure between two bundles of one invoice releases its event, and the next
  try credits the first again (`webhooks.controller.ts:666`,
  `message-bundles.service.ts:92`, an increment that asks nothing of the invoice),
  where the comment at `webhooks.controller.ts:644` says that "the credit is not
  repeated once it succeeded". `CreditedUnlessTorn` allows for just that.
* A failed charge's event handled after the retry's success leaves a paid salon
  past due; the grace job suspends by id a salon that paid after it was listed
  (`grace-period.scheduler.ts:60`); the trial job, which listed the salon
  before, cancels it after an activation computed within the trial was written.
  Two activations at once each see no other live subscription and both stay,
  until the next month's events set it right, which may race again.

* A sender of rebooking reminders that dies between the email and its record
  leaves the reminder "scheduled" (`rebooking-dispatcher.service.ts:373`). A booking
  cancels it as pending (`client-cadence.service.ts:297`), and if that appointment
  falls through she is emailed a second time in the cycle; if she books nothing, a
  reminder created before a death that sent nothing blocks the rest of the cycle.
  `OncePerCycle` and `Owed` say so.
* A computation that read the settings before a save may write her cadence after
  the recompute of that save did (`client-cadence.service.ts:80`, 179): the new
  settings have not reached her, until her next visit. `SettingsReachHer` allows it.
* With a minimum of one visit, which the form (`rebooking.dto.ts:32`) and
  `src/docs/database-schema.md:563` allow, a client with one visit of a service has
  no interval: the mean is 0/0, `toISOString` throws
  (`client-cadence.service.ts:159`) and nothing of her cadence is computed, not even
  of her other services.

## Fairness

* `Agenda.FairSpec`: weak fairness of `Proceed` (the event loop runs the next
  step of a call it has) and strong fairness of `Acquire` (a lock comes free
  again and again, and Postgres queues its waiters). Nothing is fair about
  starting a call, crashing or timing out.
* `Till.FairSpec`: strong fairness of `Proceed`, because a statement waits for a
  row that may be taken and freed many times by others before it, and Postgres
  queues the waiters of a row; weak fairness of `BreakDeadlock`, the deadlock
  detector, which runs after a second of waiting.
* `Fiscal.FairSpec`: the dispatcher ticks and its waits end (weak), and the AEAT,
  asked again and again, answers at some time (strong `Answered`). A process may
  die as often as it likes, but not every time before it writes down the first
  record of an answer (strong `Apply`). The calls are not fair at all: they may
  stop for ever with what they hold.
* `Campaigns.FairSpec`: the senders run every minute, a call of the panel that
  began ends, a wait and a lease run out (all weak). No month has to pass and the
  provider may refuse for ever; hence `SendingEnds` allows for an allowance that
  is used up.
* `Rebooking.FairSpec`: a tick lists her again and its steps and a computation's
  end, a lease lapses (weak); the provider, asked again and again, takes the email
  at some time, and a day passes that began often enough (strong `Delivered`,
  `DayPasses`). She need not visit, book or refuse; a sender dies a bounded number
  of times.
* `Billing.FairSpec`: Stripe charges its periods and ends what is to end, and
  tries an event until it is answered (strong `Claim` of a subscription's events,
  which handlers busy with others may take their turn from); handlers and the
  trial job go on (weak). Nobody has to pay, fail, subscribe or cancel.

## Proofs

`AgendaProofs`

* `TypeCorrect`: `Spec => []TypeOK`, from the assumptions on the constants
  alone.
* `NeverDoubleBooked`: `Spec /\ Disciplined => []NoDoubleBooking`, for any
  number of appointments, calls, professionals, days, starts and services.
  `Disciplined` is what the run `skew`, a transaction that times out and the row
  route show to be needed: one edit at a time per appointment, no `rowEdit`, no
  `txTimeout`. `NoDoubleBooking` is not inductive: that a write keeps it depends
  on the check made steps before. The strengthening is `AgendaInv`, one conjunct
  per thing a call relies on between its check and its write: the day of the
  place it checks is among the days it locks (`LocksItsDay`), it holds them
  (`HoldsItsDays`), so the place is still free (`CheckStillGood`), nobody else
  moved the appointment under its plan (`PlanStillFits`), and an edit that
  skipped the check takes no time the appointment did not have
  (`UncheckedIsHarmless`). The proof goes action by action; the lemma it rests
  on is that a write to a day whose lock is held disturbs no other call's
  checked place.
* `LocksAreOwned`, `CompletedOnceHolds`, `TableIsFollowed`: `LocksHaveOwners`,
  `CompletedOnce` and the action property `StatusFollowsTable`, without
  `Disciplined`: they hold of every mix of calls and faults. Their invariant is
  `Tracked`: what a call will write was looked up in the table (`Known`), and a
  completion being followed through belongs to one call (`OneFollows`), for whose
  visit nothing has been followed through yet.

`TillProofs`

* `DrawerCountIsFinal`: `Spec => []DrawerCountStands`, for any number of calls,
  tickets, cards, sessions and amounts. The inductive invariant is `DrawerInv`:
  the shapes of the variables it reads (integers, not naturals: that nothing
  goes below zero is not needed here), and `CallFits`: a transaction that has
  joined a session is in that session and the session is the open one. A commit
  therefore puts money in the open session only (`MoneyIsCounted`), and the
  close requires that nobody has joined (`CloseWhenLeft`).

`TillBooksProofs`

A transaction of the till tests its conditions one statement at a time and writes
at the end. What makes its commit right is `BooksInv`, inductive beside
`DrawerInv`: what a statement required of its row is still true as long as it
holds the row's lock (`LocksHold`, the heart of it), a call carries what its
ticket says (`CallsStand`), no payment or line has given back more than it was
(`WithinTicket`), and a ticket that is not sold has left nothing behind
(`NoTrace`). The lemma `WhoWrites` reduces every later proof to three cases: the
commit of a sale, of a refund, or a step that leaves these books alone.

* `NothingIsGivenBackTwice`, `StockIsKept`, `VisitIsChargedOnce`,
  `CardsAreKept`, `TypesHold` and the action property `CancelledIsNotCharged`,
  for every mix of calls, tickets and faults, deaths included. The sums are over
  all the tickets there are; a commit changes one term (`SumChanges`).
* `PointsAreKept`, when no process dies: the points a client has, and the price
  of a reward for each sale that spent them or call that has redeemed them, are
  constant. With deaths, `NoPointsAreMade`: that total only goes down.
* `PaidVisitHasPayment`: `Spec => []PaidVisitIsPaid`, from `VisitAddsUp` and that a
  visit is "paid" only with an `amountPaid` above zero (`PaidMeansMoney`).
* `TillImplementsLedger`: `Spec => LedgerSpec`, for tickets of which any two
  payments take the commission lock when refunded (`Serial`) and without manual
  movements. What a refund read of the sale's lines and of its other payments must
  be true when it commits, though it holds no lock on them. `InTurn` says why it
  is: the refund is past the commission lock and its payment's row by then
  (`TurnTaken`), so no other refund of the sale is under way.
* `WholeSaleReturns`, on the same terms, for sales of lines alone and without
  deaths: the refund that found itself the last gives back all that is left, and
  its points are returned before its call is over (`WholeInv`).

None of the conditions is there for the proof's convenience: for each, the code
has a trace that breaks the property without it, described above under "What the
code says of itself and does not do".

`FiscalProofs`

* `ChainHolds`: `Spec => []ChainIsALine`, for any number of invoices, calls,
  senders and records. A record is generated steps before it is written, so that
  it names its predecessor is not inductive. `LineInv` adds that a call past its
  turn holds it (`TurnHeld`) and that a record in hand follows the chain as it is
  now (`NextInLine`): between the two nobody else can append. The shapes it
  carries say where in its statements a call may be (`InTurn`, `Before`).
* `AnnulmentHolds`: `Spec => []CancelledIsAnnulled`. `BooksInv` adds to `LineInv`
  what a record in hand says of its invoice (`CallOK`: a correction's invoice is
  not cancelled, a repeated annulment's is), that every invoice issued has a
  record, and that a newest one exists.
* `BookIsKept`: `Spec => BookKept`, every step of the calls, the dispatcher and
  the AEAT is one of `InvoiceBook` or none; with it `TypesHold`. The invariant is
  `BookInv`, two parts. `KeptInv` is about the calls: no two bring the same
  invoice (`OneBrings`), what one saw of its row is kept by the row's lock
  (`RowKept`: the original is live, no rectificativa of it is), the number in hand
  is the next and still will be, by the turn (`OfNew`, `Counted`), a record is of
  an invoice of the book (`OfTheBook`), and there is room for what the calls have
  still to write (`Room`). `QueueInv` is about the queue: the AEAT holds an alta
  only if it registered one (`Sound`). A submission is a fold of `Register` over
  its records, so the step of the AEAT is proved by induction along the batch
  (`Registering`, `ProcessedIs`): at each record, what it holds is what it held, an
  alta of an invoice that was issued, or the annulment of one that is cancelled
  (`Told`).
* `ShownIsRegistered` and `TheTruthIsTold`: `Spec => []LocalMatchesAeat` and
  `Spec => []RecordsTellTheTruth`, where one process sends (`OneProcess`) or
  nobody asks for a resend (`NobodyResends`). `TellingInv` says that one
  submission is at work (`OneAtWork`), that what it has yet to write down waits in
  the queue, answered as it was registered (`InHand`), and that every record
  follows those of its invoice as they were answered (`Fits`). The condition is
  the code's: `Kick` makes a failing queue due in the middle of a submission, and
  a second process then has the same records in hand.

`CampaignsProofs`

* `OneSenderHolds`: `Spec => []OneSenderEach`. `SendInv` says that a sender with
  an email in hand has its row claimed with the lease running, or marked as out by
  the other (`Claimed`), so nobody else can claim it, and that no two have the
  same (`Apart`), from `Claim` to `Write` and through `GiveBack`.
* `NeverUnsentHolds`: `Spec => NeverUnsent`, an action property, from `Asked`: a
  call that claims the campaign is one whose status it may claim from.
* `TypesHold`: `Spec => []TypeOK`, with the shapes of senders and panel that make
  it inductive (`Types`).
* `EmailsAddUpAlways`: `Spec => []EmailsAddUp`, over any number of recipients,
  senders and months. `BooksInv` adds that a sender holds a slot exactly between
  its reservation and its outcome (`SlotFits`), that who was emailed is not
  emailed again (`SentOnce`), and the balance with the slots in hand counted
  (`Balance`). That a month's count is at least the number of senders that hold
  a slot of it belongs to the invariant: it is why giving one back never meets
  the zero the code clamps at, which would lose an email from the sum.

`RebookingProofs`

* `OncePerCycleHolds`: `Spec => []OncePerCycle`, for any number of services,
  overlapping ticks, computations, visits and deaths. The check that nothing
  stands in the way is made steps before the reminder is created, so the property
  is not inductive. `SendInv` adds that one sender at a time is past the claim
  (`Alone`, and the claim is held), that a sender past `CheckRow` has nothing in her
  rows the client has not come back from (`Clear`), and that rows are in order of
  time (`RowsInTime`), which is why looking at the newest is enough; that there is
  a newest is the well-foundedness of `<` (`HasNewest`). The lemmas separate the
  steps of others (`Undisturbed`), the reads of the sender (`Moves`) and the four
  steps that write rows.
* `TypesHold`: `Spec => []TypeOK`; that failures stay within the limit needs
  `Alone` again.

`BillingProofs`

* `CreditedUnlessTornHolds`: `Spec => []CreditedUnlessTorn`, for any number of
  subscriptions, bundles, handlers and faults and any scenes. `CreditInv` says that
  the event of a busy handler was taken (`Taken`), by it alone (`Alone`), and that an
  invoice was credited as far as its handler has come, and before that as often as
  its handling failed halfway (`Uncredited`, `Reached`); the lemmas then show that
  nothing but its own handler disturbs an event under way (`Queues`, `GoesOn`).
* `TypesHold`: `Spec => []TypeOK`.

`SumProofs`

What the sums need: a fold over a finite set has one value however the set is
walked (`FoldUnique`, `FoldExists`), a sum is of integers, keeps bounds and changes
by what its terms change (`SumIsInt`, `SumBounds`, `SumChanges`), a count moves with
its members (`CountMoves`), a non-empty finite set of numbers has a least and a
greatest. The library's induction theorems take an operator, which the provers cannot
instantiate; `SubsetInduction` takes a set of subsets instead, from the
well-foundedness of strict inclusion among the subsets of a finite set.

The proofs assume `ServicesAssumption`, `ClockAssumption`, `ScopeAssumption`
(Agenda), `TicketsAssumption`, `PaymentAssumption`, `CallsAssumption` (Till),
`NoCallAssumption`, `CallsAssumption`, `InvoicesAssumption` (Fiscal),
`SalonsAssumption`, `KindsAssumption`, `BoundsAssumption` (Campaigns),
`ScenesAssumption`, `LinesAssumption` (Billing), and `NoServiceAssumption`,
`ScenesAssumption`, `BoundsAssumption` (Rebooking), which say what the constants
are; TLC evaluates them on every run. Sets that are summed or counted over
(tickets, calls, invoices, recipients, senders) are finite, of any size.
`InvoicesAssumption` says also that a rectificativa is issued for an invoice,
and is of no visit that another invoice is issued for, as in the code, where it
carries neither appointment nor sale of its own.

Every safety invariant, action property and refinement of the passing runs is
stated by one of these theorems, some under the conditions named.
Only model-checked is what fairness brings about: `CallsEnd`,
`CompletionsFollowed`, `QueueDrains`, `SendingEnds`, `NobodyIsForgotten`,
`SettingsReachHer`, `OneBills`, `TrialIsOver`. `ENABLED`, and with it weak and
strong fairness, is beyond the prover.

## Plan

Done, the most consequential first: **Agenda**, **Tickets, TillLedger, Till**,
**InvoiceBook, Fiscal**, **Campaigns**, **Billing**, **Rebooking**, each with its
proofs. What would come next:

1. **Reminders**: claim, deliver and retry beside moves that re-arm, several
   instances and crashes.
2. **Sessions**: refresh rotation with its grace, one-use codes.
3. **Wallet** and the connection pool under online bookings.
4. Proofs: those of the parts above; for the till, a weaker ledger that the code
   implements when refunds of a sale do not take turns.

## Not modelled, and why

Language-model conversations, mail and messaging providers, PDF and export
generation, analytics and the frontend are I/O or read-only. Commissions and
accounting are sums whose protocol is a single lock (the part of it that orders
refunds is in `Till`). The layout of a visit and the working hours are pure
functions with table-driven tests; in the agenda they are a stretch and a
refusal. The wait list and the assistant's approvals check nothing when they
write: the hazards say what goes wrong, and there is no mechanism to verify. Time
off, wallet, sessions and invites are conditional updates of one row. Client
merge, erasure and import are long transactions
over every table, where the data is the difficulty and not the interleaving.
`PROJECT.json` has the whole list, part by part.
