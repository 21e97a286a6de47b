# Formal model of the DNR pest-control platform

TLA+ modules, TLC configurations and TLAPS proofs for this repository: the NestJS backend
(`src/backend`), where bookings, technicians and money are decided, and the two parts of the
clients that keep state of their own: the technician app's offline queue (`src/mobile`) and the
web client's tokens (`src/frontend`). The other screens are the environment, which calls the
handlers in any order.

All definitions are read off the code. `PROJECT.json` maps each to its lines.

## 1. What makes this system hard

Every handler of the API has the same shape:

1. it reads the rows it needs with `this.prisma...`, outside any transaction;
2. it checks them (a status, a balance, a capacity) and returns early with an error;
3. it opens `$transaction` and writes, addressing rows by primary key alone.

No transaction raises its isolation level, no update repeats the check in its `where`,
and no row is locked. So whatever a handler has checked may be stale when it writes.
That is the interleaving the models are built around. Each handler is a `Begin...` action (1 and 2)
and a `Commit...` action (3); what it read stays in its snapshot `req[r]` in between.
The questions are which promises survive stale writes (most do, for reasons that take an
inductive invariant to see), and which hold only while requests do not overlap.

Payments add a second source of truth, the Cashfree gateway, with its own awaits, and
webhooks that are lost, repeated and reordered. The clients add a network between the two: a
request can fail before it arrives, arrive after it was given up, or be served and lose its
answer, and the app can be killed at any moment.

## 2. Inventory

| Component | State | Operations | Talks to | Hard part | What makes it right |
|---|---|---|---|---|---|
| Bookings, `bookings/` | `Booking.status`, window, `BookingStatusHistory` | create, reschedule, cancel, changeStatus | warranties, assignment, subscriptions | stale status; many writers of one column | audit trail agrees with the status; no stage skipped |
| Assignment, `technician-assignment/`, `dispatch/`, `mobile/` | `TechnicianAssignment` rows | assign, auto-assign, reassign, accept, reject, cancel | booking status | check then insert | one active row; accepted means confirmed; nobody lost in a handover |
| Slots and capacity, both `availability.service.ts`, `workload.service.ts`, engine | windows, `isAvailable` | resolveWindow, assertSlotAvailable, assertAvailable, rankCandidates | bookings, assignments | counting outside the transaction; days and midnight | limits kept, up to requests in flight |
| Warranties, `warranties/` | `Warranty` row per booking | upsert on completion, backfill on list | bookings | backfill races with a status change | only completed work is warranted |
| GPS, `location/` | check-in/out rows, tracking sessions in memory | checkIn, checkOut, tracking | booking status | one more writer of the status; memory lost on restart | stages are not skipped |
| Payments, `payments/` | `Payment` rows | createIntent, confirm, refund, webhook | Cashfree, invoices | two sources of truth | no phantom money, no refund on the books that was not accepted, captured money gets recorded |
| Invoices, `invoices/` | `Invoice` row per booking | create, void, regenerate | payments, coupons | void races with payment | a succeeded payment settles it, a crossing void apart |
| Coupons, `promotions/` | `Coupon` rows with `timesRedeemed`, `CouponUsage`, `Booking.discountAmount` | create, update, setActive, remove, redeem | booking price, invoices | limit and stacking checks outside the transaction | overuse by requests in flight only; counter, usages and discount agree |
| Subscriptions, `subscriptions/`, `plans/` | `Subscription.status`, next visit | create, pause, resume, cancel, renew | bookings | two renewals at once; stale status | one visit per period; cancelled stays cancelled |
| Service reports, `service-reports/` | `ServiceReport` row with items and signature, stored PDFs | create, update, submit, approve, reject, archive, sign, PDF | bookings, app | review races with resubmission; PDFs stored out of order; archived row blocks its booking | approved text is what was submitted; downloads are current |
| Offline queue, `mobile/.../offline`, `job_workflow` | actions in SharedPreferences, the job screen | tap, enqueue, flush, refresh | booking status, reports | two flushes, or a flush and a new action; lost answers; kill | nothing confirmed is lost; no step too early; the queue drains |
| Attendance, `attendance/` | duty log, `isAvailable` | punchIn, punchOut | engine | two punch-ins; midnight UTC | one open session |
| Reviews, chat, notifications | one row per booking or room, read marks | create, mark read, dispatch with retries | bookings | unread becomes read and back | read marks only grow |
| Sessions, `auth/`, `apiClient`, `AuthProvider` | refresh tokens; tokens in localStorage | login, refresh, logout, change password | users | tabs share a storage; rotation overlaps revocation | old sessions end; one session per device; no used-up token is kept |
| Users, profiles, addresses | single rows, default address | create, update, delete | bookings | two defaults | one default |
| Catalogue, analytics, audit, media, health | independent rows, queries | create, read, update, delete | all | none of protocol | - |

Interactions are direct calls between services in one process and shared tables.
The backend has no queue; its only callbacks are the gateway's webhooks and the mobile
socket's position updates. The app has one queue, of what it could not send.

`PROJECT.json` lists the hazards with their lines, and which property covers each.

## 3. Modules

| Module | What it is |
|---|---|
| `BookingGraph` | the two status graphs and the sets of statuses derived from them: shared by the next two |
| `Bookings` | bookings, assignment rows, audit trail, warranties; one action per read part and per transaction |
| `BookingPromise` | abstract: a booking opens, moves along its graph, is held by at most one technician; what it loses when two callers overlap on it. No requests, no rows |
| `Payments` | the invoice and payments of one booking, with the gateway and its webhooks |
| `IdealLedger` | abstract: an order is asked for, charged once, ordered back in part, shown as refunded; an invoice is paid or void. No handlers, no events |
| `Dispatch` | the calendar: windows, slot capacity, technicians' conflicts and daily load, the engine's filters |
| `Subscriptions` | one subscription, the visits it generates, the sweep that renews it |
| `Outbox` | the technician app's offline queue and job screen, against the booking's status and report; reads `BookingGraph` |
| `Sessions` | refresh tokens of one account, and the browser tabs that present them |
| `Reports` | the service report of one booking, its review and its PDFs |
| `Coupons` | coupons, their usages and the discounts of bookings |
| `CouponBudget` | abstract: accounts with a budget, charged together. No requests, no rows |
| `MC...` | TLC's symmetry sets for each, the plans of `Subscriptions`, the tabs of `Sessions`, the owners of `Coupons` |
| `...Proofs` | theorems on the module they are named after |

### Bookings

`status`, `history`, `assignments` and `warranty` are the tables `Booking` (its status),
`BookingStatusHistory`, `TechnicianAssignment` and `Warranty`. `transition` is
`BookingStatusService.transition`: it checks the edge from the status its caller
passes, not from the row. `CommitGps` is the transaction of check-in and check-out
(with all the statuses they step through), `BeginBackfill` and `CommitBackfill` are the
warranty list's repair.
Roles are a choice inside an action, because they widen or narrow its guard. Authorization
checks that do not depend on the modelled state are taken as passed.

Two history variables mark the bookings on which requests have overlapped: `raced`, where both may write the status, the
trail or the warranty (`MovesBooking`), and `contested`, where both may write assignment rows (`AssignsBooking`). They are
set when the second request holds its reads, and no action looks at them. Nothing in the code prevents an overlap, and it does cost
the booking something: the second status change leaves the graph, the second `assign` leaves two live rows.
`OneActiveAssignment`, `HistoryIsChain` and `WarrantyMeansCompleted` say what the cost is: the booking itself, and only the
rows that the two requests were both about. An accept that overlaps a cancel breaks the trail and leaves the single holder
intact; a request on another booking breaks nothing. `BookingPromise` says the same of the
pair of status and holders: its `Lapse` is open to a raced booking in its status, to a contested one in its holders.

### Payments

One booking with its invoice, since no handler touches two and `bookingId` is unique in
`Invoice`. `total` is what the booking's row says it costs; a coupon lowers it
(`Reprice`). `order`, `refund` and `sent` are the gateway: external, modelled from
what `cashfree.service` asks of it. `req` is richer here, as handlers await the gateway
between database calls: an intent is `BeginIntent`, `FindPending`, `OpenOrder`, `StorePayment`.
`Abandon` is an error, a crash or a time-out at any of these awaits. The webhook route
answers 200 even then, so the gateway does not repeat the event.

A refund has a life of its own. `AskRefund` is `createRefund`: the gateway accepts it, as PENDING, or refuses it, and the
handler learns no more than that. Later it is paid out (`PayRefund`) or given up (`FailRefund`: FAILED or
CANCELLED, which the code treats alike), each with an event. `CommitRefund` writes the row on acceptance; the webhook handler
acts on events of status SUCCESS only, so nothing ever takes a refund that was given up off the books. An order
keeps three sums of its refunds: accepted, paid out, given up. An order that ends unpaid is EXPIRED or CANCELLED; `confirm` records the
first as a failure and does nothing about the second.

`crossed` is a history variable: a success was recorded while a void was in flight. The code then leaves the invoice as the later of the
two wrote it, which the findings list; the properties say that nothing else does.

The refinement of `IdealLedger` (`Ledger`) maps an order to what its row asks for, what the gateway captured, what it has been
told to pay back, and what the row shows as refunded. Storing the row is `Ask`, a capture `Charge`, an accepted refund
`Instruct`, the two writers of the refunded total `Show`, a success `Pay`; every other step is a stutter, what becomes of an
accepted refund included. The abstract ledger therefore does not promise that what is shown as refunded has
reached the customer. The code does not keep that promise (`ShownRefundsWentBack`, section 6).

### Dispatch

Bookings are reduced to what a calendar sees: whether they count (`phase`) and
where they are (`window`). Three history variables carry the properties: `needs` (what
service and buffer take), `waived` (the booking was placed without a slot check), and the field
`checked` of an assignment. Scores of the engine are dropped: any candidate the hard filters
leave may come first. The lead time is left to the inputs: `Starts` are acceptable starts.

### Subscriptions

`sub` is the row: status, plan, start, next billing and next service date. `visits` are the
service dates of the bookings it generated; what becomes of a booking afterwards is the business of
`Bookings`. `BeginRenew` is the query for due subscriptions, `CommitRenew` the transaction the sweep
runs for each of them; between the two lies everything the sweep does for the others. Pause,
resume and cancel share `BeginMove` and `CommitMove`. The module's dates are those of
`nextCycleDate`, counted in months. A cycle has a constant
length here; that `setMonth` rolls over at the end of a short month is outside the model. Free inputs are the plan and start.
`renewals` and `closed` are history variables: a renewal remembers whether any other request was in flight
during it, and `closed` that a cancellation had the subscription to itself.

### Outbox

`outbox` is the list in SharedPreferences, `call` the online attempt of the job screen, and `flush[f]`
a run of `flush`: the list it read at its start less what it sent, which it writes over the queue after each
success. Nothing keeps two flushes apart, so they overlap. `late` holds requests the app gave up on
that may still arrive. On the server's side, `Accepts` is the status graph and the report's uniqueness;
`ApplyHalf` is the one-call report that fails after its first commit. `acked` is what the technician was told is
done; `overlapped`, a history variable, what was queued while a flush was running.

### Sessions

`rows` are the refresh tokens, `store` the localStorage of each device. A refresh reads the token, revokes it and
mints the next in three steps (bcrypt runs between them); a password change writes the hash and revokes all in
two, and may fail in between. The history variables mark what went wrong: `raced` a token written by a request
that was half-way when the password changed, `swept` one that fell to the revocation of the whole account,
`slipped` a device on which requests overlapped, an answer was lost, or a session was dropped whose token the server still
honours. The last happens when a restore fails, a logout is not served, or a refresh is refused because the account is suspended
(`RefuseAccount`), which leaves the row live.

### Reports

What a report says is abstracted to whether it has a summary, lists services and is signed; `edition` counts its
writes and tells contents apart. A request keeps the status and the edition it read. The app's one-call submission is three
commits of the same request (`Continue`), which may stop after each. `overtaken` is a history variable.

### Coupons

A redemption is three steps: the stacking check (`BeginRedeem`), the limits (`AssertRedeemable`) and the transaction
(`CommitRedeem`), whose own repeat of the limits goes through the plain client and is part of the second step. A discount is
known by its coupon. `usages` is the set of rows of `coupon_usages`, and the limits count them as the code does.
A coupon without a limit (`maxRedemptions` null, the default) has one in `TotalLimits` that no count of redemptions reaches;
the office may set a limit later, below what has been redeemed, and take it away again. As a run of the code is finite so far, any number beyond its
redemptions stands for null in it, and the theorems hold for every set of numbers.
`ceiling` is a history variable: the highest limits a coupon ever had.

The refinement of `CouponBudget` (`Budget`) has three kinds of accounts: a coupon, a customer's share of it, and a booking,
which has room for one. Their budgets are the ceilings, and the slack is the number of other requests.

### Reads of one handler

A `Begin...` action takes all reads of a handler in one step. The code awaits between
them, so each could see a slightly different state. No property here relates two
reads of one handler, except that the slot, conflict and load counts are each one query.

## 4. Runs

| Run | Instance | Question | Answer |
|---|---|---|---|
| `bookings_concurrent` | 1 booking, 1 technician, 2 requests, 7 history rows, 2 assignments | what survives stale writes? | six invariants |
| `bookings_apart` | 2 bookings, 2 technicians, 2 requests, 7 history rows in all, 2 assignments | what does an overlap cost, and whom? | three invariants, `KeepsPromise` (refinement) |
| `payments_concurrent` | 1 order, 2 totals, 2 refunds, 2 requests, failures | do the three ledgers agree, and is what was handled recorded for good? | six invariants, `ReconciledWasPaidOut`, `KeepsLedger` (refinement) |
| `payments_fair` | 1 order, 1 refund, 2 requests, fair | is captured money recorded? | `CapturedIsRecorded` |
| `dispatch_slots` | 3 bookings, slots for 1, 2 requests | how far can a slot be overbooked, and do reschedules starve a service? | by one; no |
| `dispatch_jobs` | 2 visits, 1 technician, 3 rows, 2 requests | where do double bookings come from? | from overlapping requests |
| `subscriptions_concurrent` | 2 plans, 2 requests, 5 months | do visits and renewals survive overlapping sweeps? | three invariants, `CancellationIsFinal` |
| `outbox` | 1 job, 2 actions, 2 flushes, fair | what does the offline queue keep, and does it drain? | two invariants, `QueueDrainsOrBlocks` |
| `outbox_lost` | 1 job, 2 actions, 1 flush | "actions that MUST NOT be lost" | violated |
| `sessions` | 2 tabs on 1 or 2 devices, 3 tokens, 1 password change | which tokens live, and which are kept? | three invariants |
| `reports` | 2 requests, 7 writes | is what was submitted what is approved and downloaded? | two invariants, `ReportFollowsGraph` |
| `coupons` | 3 coupons for one use, or 1 with or without a limit, 2 customers, 1 booking, 2 requests, 3 usages per coupon and customer without a booking | how far are limits overrun, and do the books agree? | by one; yes; `KeepsBudget` (refinement) |

Bounds. Two requests give every pairwise stale write; a third would add stale writes of
stale writes, which the proofs cover. Six history rows take a booking from its creation to its completion, and the seventh is
whatever is written next: a reschedule before the completion or after it, or a cancellation that was read earlier and
commits between the two steps of the backfill. At most one row is a reschedule (`RescheduledOnce`), as a second one moves
nothing either; and the run identifies states that differ in `raced` and `contested` only (`VIEW Rows`), which none of its properties mention.
In `bookings_apart` the seven rows are shared by two bookings: one of them can be completed and warranted
beside the other's creation. Once an overlap has happened, each state is still checked,
and explored further while there are three rows at most and the overlap is of one kind (`ShortTrails`): enough for a stale write of either kind, a
second live assignment, and moves of the other booking after it. The proofs cover longer courses. Two
assignment rows hold a handover and a stale writer; in both runs, states with two of them are explored further up to five history rows
(`EarlyHandovers`), when a booking has been in progress and not completed. In `payments_concurrent` two refunds are two halves, or one given up and
asked for again. In `dispatch_slots` the allowed overbooking is one, and a third
booking is there to exceed it. In `dispatch_jobs` a day has three hours, so that windows
can share a day without overlapping and overlap across days: conflict and daily load are
then independent, and neither check can hide the other's absence. `dispatch_jobs` has no plain
bookings (`Durations = {}`); `dispatch_slots` has no assignment rows. Between them every action
happens. With a single technician the engine never reassigns by itself (it leaves
out the present holder); an admin's reassignment back to the same technician takes its place.
`Dispatch` bounds the length of windows (`MaxLength`), since reschedules let them grow forever.

In `subscriptions_concurrent` a monthly and a quarterly plan make the two schedules drift apart: five
months hold a quarter, a change of plan and several months on either side, and five visits
are one a month. A cancelled subscription stops for good, so this run does not check deadlock.

In `outbox`, one of the two actions can be queued while a flush sends the other, and both flushes can hold both. Its
job starts at ARRIVED, from where a step and a report are two taps away; the buttons and the
statuses before it behave alike, and the proofs take any start. When the two actions are spent and sent, nothing
is left to do: no check for deadlock. In `sessions`, three tokens are a login on each of two tabs and a rotation, or a login and
two rotations of the same token; one password change ends one era. With the tokens spent, a
session can only end, so deadlock is no error there either. In `reports`, seven writes submit, reject, rewrite, submit again and
approve, with one to spare; requests can always fail, so the run checks deadlock.
In `coupons`, a limit of 1 is one that two requests can overrun, and the customer without a booking redeems on a
subscription, where no unique key holds the second usage back; three coupons are one more than can be on their way. No limit
is a limit of 8, one more than a coupon can have usages here; it is tried with one coupon at a time (`UnlimitedAreFew`), which is enough for what
it adds, that a limit is set on a coupon used more often.

Fairness of Payments. Node runs a handler that has started to its end, so
its steps are weakly fair, with `CanFail = FALSE`: nothing can be promised for handlers that crash, as the route has
already told the gateway that the event arrived. Delivery of the success webhook is
strongly fair, once per event: the gateway repeats an event until it is answered. Nothing
the customer or an admin does is fair.

Fairness of Outbox (`FairSpec`). The app runs what it has begun and the server answers (weak
fairness). A flush is started whenever there is something to send: on every change of connectivity, at start-up and on
resume. That a flush is served and advances is strongly fair, although the network may fail it and the app may be killed any
number of times: a technician who is never online again gets no promise. Nothing the technician or the office does is
fair. `QueueDrainsOrBlocks` says no more than the code gives: an action the server refuses stays at the head and blocks the
queue for good.

## 5. Proofs

Eight modules prove every property the passing runs check, except the two liveness properties and `PaidOutRefundsAreCovered`, for any number of
bookings, technicians, orders, plans, jobs, tabs, coupons, requests and amounts, from the named assumptions of each module only.
Where a bound counts requests (`Dispatch`, `Coupons`), these assumptions make the requests a finite set, and in `Dispatch` also the bookings and rows.
Type correctness is proved in every module; only `sessions` still checks it in a run, as the proofs cover the rest.
Three theorems are refinements: `PromiseKept`, `LedgerKept` and `BudgetKept`.

*Bookings.* `TypeInv` is `TypeOK` and that rows refer to bookings that exist. `AuditInv` adds what
a snapshot knows: every status a request holds is one its booking has had (`ReadIsVisited`). That
is what makes stale writes harmless for the trail. A handler may write from an outdated
status, but never from an invented one, so `HistoryIsGrounded` stays inductive. `StagesPassed` follows from it by
walking the graph backwards: COMPLETED has one predecessor, and so on. `WarrantyInv` and `AcceptInv` strengthen their properties
in the same way with what a pending backfill or accept has seen; `AcceptInv` also needs that PENDING has no
predecessor.

*Bookings, what an overlap costs.* These theorems hold for any number of requests. `ApartInv` has two parts about requests in flight.
`NoneShared`: two of them that may write the same rows of a booking have marked it. `FreshInv`: what a request has read of an
unmarked booking is still so: its status (`Timely`), its live rows (`Free`). They need each other: a transaction can only make a
snapshot outdated if both are about the same booking (`StatusStays`, `RowsChange`), and those two have marked it. From this the
trail of an unmarked booking is a chain that ends in its status, its live row is the only one, and its warranty follows a
completion. `PromiseKept` sorts every step into one of a few events (`PromiseEvent`): nothing, a mark, a move along the
graph, a change of holder, or the lapse of a marked booking; each is a step of `BookingPromise` under the refinement mapping
of `Bookings`: the statuses, and the holders of each booking's live rows.

*Payments.* `LedgerInv` joins an invariant per order, the invoice's, one per event sent
and one per snapshot. The key lemma, `GatewayOnlyGrows`, says that the
gateway's record only moves forward (captured stays captured, the sums of refunds accepted and paid out only grow). So
what a request or an event says of the gateway remains a lower bound, however old. `PhantomFree`, `AmountCorrect`,
`RefundsAccepted` and `SettlementCorrect` are consequences, and so is `ReconciledPaidOut`, an action property: the event of a refund
that was paid out stays covered by what was paid out (`EventInv`). `SettlementCorrect` also needs `VoidInv`: a void in flight
beside a paid invoice was overtaken by the success, and has marked it (`crossed`).

`HandledRecorded` is the safety half of `CapturedIsRecorded`: once a handler has finished with a success, the payment is
never open again. `HandledIsRecorded` is not inductive: a sync that read SUCCEEDED writes nothing and still
finishes with the event, and a handler that inserts a row would open it again. `RecordInv` adds that the first has seen a
payment that is recorded (`SyncInv`), and that the second is alone with its order (`StoreInv`), because the gateway
opens an order id once.

`LedgerKept` shows the steps one by one: `GatewayRefines` those of the gateway, `DatabaseRefines` those of the handlers.
Beside `RecordInv` it needs `PriceInv`, that a row asks for nothing before it exists and for a total from then on.

*Dispatch.* `Base` is the types and `FitInv`: a window that a booking has, or that a request is about to write, holds the
service and its buffer. For technicians, `CalendarInv` has four parts. `AloneInv`: a request no other overlapped is the only one in
flight. `RelyInv`: what such a request has checked still holds. `ApartInv` and `LoadInv`: the checked jobs of
a technician are apart, and within the daily limit, counting also bookings that a request in flight may bring back
(`Alive`). For slots, `SlotInv` counts for each hour the bookings in it with the requests that rose to it and have not committed yet
(`Rising`, `Claims`, `InPlay`): a request counts the slot when it checks, so what it adds beyond the limit is bounded by
the others that were in flight. Hence `OverbookingIsBounded`, with cardinalities of finite sets throughout.

*Subscriptions.* A sweep writes dates it read long ago, so the row alone says little. `ScheduleInv` adds what
each snapshot is worth: `SnapshotInv` says that a date read by a sweep is still on the schedule
(visits are only ever added, so it stays so), which gives `NoVisitSkipped`. `AloneInv` says that a request
no other has overlapped is the only one in flight; with it `BilledInv` holds, that a renewal without overlap is
billed before the row's date and before whatever another sweep has read, and
two such renewals cannot bill the same date. `VisitsGoForward` needs `BehindInv`: the visit of such
a renewal lies before the row's next service date and before what any sweep in flight has read, so not even a sweep that races goes back
behind it. `QuietInv` carries `CancellationIsFinal`, an action property: after
a quiet cancellation no handler is in flight and no guard admits one.

*Outbox.* `KeptInv` strengthens `LossNeedsAnOverlap`: what any running flush will write back also holds everything that must
not be forgotten. `SeenInv` says that the screen is never ahead of the booking, hence `ReadyInv`, that no step was
ever asked for too early, which gives `RefusedIsPassed`.

*Sessions.* `EraInv` extends `OldSessionsNeedARace` to requests about to write a row. `OneSessionPerDevice` is
`OrderlyInv`, which follows a device that has not slipped through the steps of its one request.
`StoredTokenIsUsable` needs three: a minted token is known to nobody but its request (`FreshInv`), a stored one belongs to one
device, and is presented only by its tabs while they wait (`OwnerInv`), and a used-up one is about to be replaced (`UsedUpInv`).

*Reports.* `SnapshotInv`: what a request has checked still holds as long as the edition it read is the current one. With
it a write either follows the graph or comes from a request whose edition is outdated, which is `ReportFollowsGraph`. `RenderedInv` is
`DownloadIsCurrent` one step earlier.

*Coupons.* A limit is checked by counting rows, and written two awaits later. `RoomInv` therefore counts the usages
together with the requests that have passed the check and not written yet (`ValidFor`, `ValidBy`, `Pending`): the sum stays within the
limit and the number of other requests, since a request that passes saw a count below the limit and at most the others can be
behind the check with it. The counts are cardinalities, so the lemmas are about finite sets that gain or lose one member.
`OveruseBounded` follows, and with `DiscountInv`, that a booking's discount comes from a coupon used on it, `TablesAgree`. `BudgetKept`
shows that a redemption charges exactly the accounts of its coupon, customer and booking, each by one.

Only model-checked: `CapturedIsRecorded` and `QueueDrainsOrBlocks`, because liveness and `ENABLED` are out of the
prover's reach; and `PaidOutRefundsAreCovered`, because it rests on the sums an order keeps being those of its refunds, an
induction over the set of refunds.

## 6. Findings

Disagreements between code and what its comments say are in `PROJECT.json`, each with both
lines. One has a run of its own: `outbox_lost` queues an action while a flush is sending, and the flush's last write forgets it, although
the technician was told it is done.

Six more are stated as properties that the code refutes and no run checks. To see the counterexample, add the name to the cfg given, as INVARIANT (`ChargedOnce`,
`ShownRefundsWentBack`, `EndsByClosingTime`) or as PROPERTY:

| Property | Module | cfg | What the code does |
|---|---|---|---|
| `StatusFollowsGraph` | `Bookings` | `MCBookingsConcurrent` | a stale transition leaves the status graph |
| `WebhooksAreIdempotent` | `Payments` | `MCPaymentsConcurrent`, with one request | a repeated success event undoes a refund's status |
| `ShownRefundsWentBack` | `Payments` | `MCPaymentsConcurrent` | a refund is on the books from its acceptance, also if it is given up later, and is then taken off the revenue |
| `ChargedOnce` | `Payments` | `MCPaymentsConcurrent`, with two orders | a retry after an unrecorded payment opens a second order |
| `EndsByClosingTime` | `Dispatch` | `MCDispatchSlots` | a window across midnight passes the business hours |
| `RenewalsVisitNewDates` | `Subscriptions` | `MCSubscriptionsConcurrent` | the first renewal books the start date a second time |

The others were met while modelling and are visible in one action each: check-out completes without a warranty, `void` and payment
overtake each other, reschedule neither looks at the technician nor keeps the duration, the engine ranks unavailable
technicians, the weekly limit is read nowhere, replays carry no idempotency key, a logout with a stale access token revokes
nothing, a reused token ends the sessions of every device, a draft's stored PDF outlives its
content, an archived report blocks its booking.

## 7. Not modelled

*Pages and screens.* Most lines of the repository are React pages and Flutter screens. They render what a query returned
and call the handlers modelled here; state they keep (forms, filters, open dialogs) dies with them. The map's share of all
lines is small for this reason, and covers the services instead.

*Single-row services.* Catalogue, plans, users, profiles, media, analytics, audit and health create, read, update and
delete independent rows, or query them. Of addresses, the default one relates two rows: two requests that overlap may leave two
defaults, and a subscription takes the first it finds.

*Chat, notifications, reviews, attendance's duty log, tracking sessions.* No modelled component reads their rows, and their
hazards are small enough to state: two first messages may open two rooms; `markRead` in chat may set the mark back;
a dispatch or a retry that finishes after the row was read marks it SENT again (`readAt` stays); two punch-ins at once open two
sessions, and one that is open at midnight UTC cannot be closed; two position updates at once may announce an arrival
twice, and a restart forgets the tracking sessions. `PROJECT.json` lists the duty log's as a hazard without a property. The effect of
a punch on `isAvailable` is in `Dispatch`.

*Detail without a protocol.* Numbers and PDFs of invoices, prices and notes of bookings, message texts and paging are data
no property tells apart. OTP mails, registration and social login are left out of `Sessions`, and the length of a calendar
month out of `Subscriptions`.

## 8. What is left

The plan of modules and proofs is carried out. What would come next, by worth:

1. Tracking and arrival notices, and the duty log, as one module of the technician's day, so that their hazards have properties.
2. A composition of `Outbox` and `Bookings`, where the office's half is not one step but the handlers themselves.
