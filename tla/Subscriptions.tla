---------------------------- MODULE Subscriptions ----------------------------
(***************************************************************************)
(* A subscription and the visits it generates: subscriptions.service,      *)
(* renewal.service and recurring-booking.service.  One subscription: no    *)
(* handler writes two in one transaction, and a sweep over those that are  *)
(* due is for each of them a read long before its transaction.             *)
(*                                                                         *)
(* As in Bookings, what a handler has read stays in req until it commits.  *)
(* Time is counted in units that divide every billing cycle.               *)
(***************************************************************************)
EXTENDS Naturals, Sequences, FiniteSets

CONSTANTS
  Plans,       \* active subscription plans
  Cycle,       \* the length of each plan's billing cycle
  Requests,    \* concurrent requests the API process serves
  Starts,      \* start dates asked for
  MaxTime,     \* bound: the last date of the clock
  MaxVisits    \* bound: visits that are ever generated

ASSUME SubscriptionsAssumption ==
  /\ Cycle \in [Plans -> Nat \ {0}]
  /\ Starts \subseteq Nat
  /\ MaxTime \in Nat /\ MaxVisits \in Nat

VARIABLES
  now,        \* the date
  sub,        \* the subscription's row
  visits,     \* the service dates of its bookings, in creation order
  renewals,   \* the billing dates that were renewed (history variable)
  closed,     \* it was cancelled with no other request in flight (history variable)
  req         \* what each request in flight has read and will write

vars == <<now, sub, visits, renewals, closed, req>>

-----------------------------------------------------------------------------
(* The row and the snapshots.                                              *)

SubscriptionStatus == {"PENDING", "ACTIVE", "PAUSED", "CANCELLED", "EXPIRED"}

TransitionsReopening ==
  [PENDING   |-> {"ACTIVE", "CANCELLED"},
   ACTIVE    |-> {"PAUSED", "CANCELLED", "EXPIRED"},
   PAUSED    |-> {"ACTIVE", "CANCELLED", "EXPIRED"},
   CANCELLED |-> {"ACTIVE"},
   EXPIRED   |-> {}]

SUBSCRIPTION_TRANSITIONS ==
  [PENDING   |-> {"ACTIVE", "CANCELLED"},
   ACTIVE    |-> {"PAUSED", "CANCELLED", "EXPIRED"},
   PAUSED    |-> {"ACTIVE", "CANCELLED", "EXPIRED"},
   CANCELLED |-> {},
   EXPIRED   |-> {}]

Row == [status : SubscriptionStatus, plan : Plans, start : Nat, billing : Nat, service : Nat]

NoRow == [status |-> "NONE"]

\* billing date of a renewal, and whether another request was in flight meanwhile
Renewal == [billing : Nat, raced : BOOLEAN]

Idle == [op |-> "idle"]

Request ==
  {Idle} \cup [op : {"move"}, to : SubscriptionStatus, raced : BOOLEAN]
         \cup [op : {"changePlan"}, to : Plans, raced : BOOLEAN]
         \cup [op : {"renew"}, read : Row, raced : BOOLEAN]

Init ==
  /\ now = 0
  /\ sub = NoRow
  /\ visits = <<>>
  /\ renewals = <<>>
  /\ closed = FALSE
  /\ req = [r \in Requests |-> Idle]

InFlight == {r \in Requests : req[r] # Idle}

Raced(s) == IF s = Idle THEN s ELSE [s EXCEPT !.raced = TRUE]

Hold(r, s) ==
  /\ req[r] = Idle
  /\ req' = [q \in Requests |->
               IF q = r THEN (IF InFlight = {} THEN s ELSE Raced(s)) ELSE Raced(req[q])]
  /\ UNCHANGED <<now, sub, visits, renewals, closed>>

Done(r) == req' = [req EXCEPT ![r] = Idle]

-----------------------------------------------------------------------------
(* Operations.                                                             *)

nextCycleDate(from, plan) == from + Cycle[plan]

\* create: active at once, with its first visit.  nextServiceDate is the date of
\* the visit just generated.
Create(plan, start) ==
  /\ sub = NoRow
  /\ sub' = [status |-> "ACTIVE", plan |-> plan, start |-> start,
             billing |-> nextCycleDate(start, plan), service |-> start]
  /\ visits' = <<start>>
  /\ UNCHANGED <<now, renewals, closed, req>>

\* pause, resume and cancel.
BeginMove(r, to) ==
  /\ sub # NoRow
  /\ to \in {"PAUSED", "ACTIVE", "CANCELLED"}
  /\ to \in SUBSCRIPTION_TRANSITIONS[sub.status]
  /\ Hold(r, [op |-> "move", to |-> to, raced |-> FALSE])

CommitMove(r) ==
  /\ req[r].op = "move"
  /\ sub' = [sub EXCEPT !.status = req[r].to]
  /\ closed' = (closed \/ (req[r].to = "CANCELLED" /\ InFlight = {r}))
  /\ Done(r)
  /\ UNCHANGED <<now, visits, renewals>>

\* changePlan starts a new billing cycle today; the service date stays.
BeginChangePlan(r, plan) ==
  /\ sub # NoRow
  /\ sub.status \in {"ACTIVE", "PAUSED"}
  /\ plan # sub.plan
  /\ Hold(r, [op |-> "changePlan", to |-> plan, raced |-> FALSE])

CommitChangePlan(r) ==
  /\ req[r].op = "changePlan"
  /\ sub' = [sub EXCEPT !.plan = req[r].to, !.billing = nextCycleDate(now, req[r].to)]
  /\ Done(r)
  /\ UNCHANGED <<now, visits, renewals, closed>>

\* processDueRenewals finds the subscription due ...
BeginRenew(r) ==
  /\ sub # NoRow
  /\ sub.status = "ACTIVE" /\ sub.billing <= now
  /\ Hold(r, [op |-> "renew", read |-> sub, raced |-> FALSE])

CommitRenewFromToday(r) ==
  LET s == req[r].read IN
  /\ req[r].op = "renew"
  /\ Len(visits) < MaxVisits
  /\ visits' = Append(visits, s.service)
  /\ sub' = [sub EXCEPT !.billing = nextCycleDate(s.billing, s.plan),
                        !.service = nextCycleDate(now, s.plan)]
  /\ renewals' = Append(renewals, [billing |-> s.billing, raced |-> req[r].raced])
  /\ Done(r)
  /\ UNCHANGED <<now, closed>>

CommitRenewWithoutBilling(r) ==
  LET s == req[r].read IN
  /\ req[r].op = "renew"
  /\ Len(visits) < MaxVisits
  /\ visits' = Append(visits, s.service)
  /\ sub' = [sub EXCEPT !.service = nextCycleDate(s.service, s.plan)]
  /\ renewals' = Append(renewals, [billing |-> s.billing, raced |-> req[r].raced])
  /\ Done(r)
  /\ UNCHANGED <<now, closed>>

CommitRenewWithoutService(r) ==
  LET s == req[r].read IN
  /\ req[r].op = "renew"
  /\ Len(visits) < MaxVisits
  /\ visits' = Append(visits, s.service)
  /\ sub' = [sub EXCEPT !.billing = nextCycleDate(s.billing, s.plan)]
  /\ renewals' = Append(renewals, [billing |-> s.billing, raced |-> req[r].raced])
  /\ Done(r)
  /\ UNCHANGED <<now, closed>>

\* ... and later generates the visit and moves both dates on from what it read.
CommitRenew(r) ==
  LET s == req[r].read IN
  /\ req[r].op = "renew"
  /\ Len(visits) < MaxVisits
  /\ visits' = Append(visits, s.service)
  /\ sub' = [sub EXCEPT !.billing = nextCycleDate(s.billing, s.plan),
                        !.service = nextCycleDate(s.service, s.plan)]
  /\ renewals' = Append(renewals, [billing |-> s.billing, raced |-> req[r].raced])
  /\ Done(r)
  /\ UNCHANGED <<now, closed>>

\* A handler fails or its process stops; nothing is written.
Abandon(r) ==
  /\ req[r] # Idle
  /\ Done(r)
  /\ UNCHANGED <<now, sub, visits, renewals, closed>>

Tick ==
  /\ now < MaxTime
  /\ now' = now + 1
  /\ UNCHANGED <<sub, visits, renewals, closed, req>>

-----------------------------------------------------------------------------
Begin(r) ==
  \/ \E to \in SubscriptionStatus : BeginMove(r, to)
  \/ \E plan \in Plans : BeginChangePlan(r, plan)
  \/ BeginRenew(r)

Next ==
  \/ \E plan \in Plans, start \in Starts : Create(plan, start)
  \/ \E r \in Requests :
       Begin(r) \/ CommitMove(r) \/ CommitChangePlan(r) \/ CommitRenew(r) \/ Abandon(r)
  \/ Tick

Spec == Init /\ [][Next]_vars

-----------------------------------------------------------------------------
(* Properties.                                                             *)

\* Row, snapshots and dates have their types, and a handler in flight found a row.
TypeOK ==
  /\ now \in 0..MaxTime
  /\ sub \in Row \cup {NoRow}
  /\ visits \in Seq(Nat)
  /\ renewals \in Seq(Renewal)
  /\ closed \in BOOLEAN
  /\ req \in [Requests -> Request]
  /\ sub = NoRow => InFlight = {}

Dates == {visits[i] : i \in DOMAIN visits}

\* No period goes without service: the dates of the visits form a chain of whole
\* cycles from the start to the next service date, however sweeps and changes of
\* plan overlap.
NoVisitSkipped ==
  sub # NoRow =>
    \A d \in Dates \cup {sub.service} :
      \/ d = sub.start
      \/ \E c \in Dates, plan \in Plans : d = nextCycleDate(c, plan)

\* The same billing date is renewed twice only by sweeps that overlapped another
\* request, even if plans change and time goes by unnoticed in between.
DoubleRenewalNeedsARace ==
  \A i, j \in DOMAIN renewals :
    i # j /\ renewals[i].billing = renewals[j].billing =>
      renewals[i].raced \/ renewals[j].raced

\* A renewal that overlapped nothing settles its visit: every visit generated later, even
\* by sweeps that race, is on a later date.  The first visit is create's.
VisitsAdvance ==
  \A i, j \in DOMAIN renewals :
    i < j /\ ~renewals[i].raced => visits[i + 1] < visits[j + 1]

\* A subscription cancelled while no other request was in flight is never active
\* again and generates no visit.
CancellationIsFinal == [][closed => UNCHANGED <<sub, visits>>]_vars

-----------------------------------------------------------------------------
(* What the documentation claims and the code does not do.                 *)

\* renewal.service: "generate the next service visit".  Sweeps that overlap nothing
\* never generate a visit for a date that has one.
RenewalsVisitNewDates ==
  [][\A r \in Requests :
       CommitRenew(r) /\ ~req[r].raced => req[r].read.service \notin Dates]_vars
=============================================================================
