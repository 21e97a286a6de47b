------------------------- MODULE SubscriptionsProofs -------------------------
(***************************************************************************)
(* Proofs about Subscriptions, for any plans and cycles, any number of     *)
(* overlapping requests and any bounds.                                    *)
(***************************************************************************)
EXTENDS Subscriptions, TLAPS

-----------------------------------------------------------------------------
(* The inductive invariant.                                                *)

\* A request that no other has overlapped is the only one in flight.
AloneInv ==
  \A r \in Requests : req[r] # Idle /\ ~req[r].raced => InFlight = {r}

\* A date the schedule allows: the start, or a whole cycle after a visit.
OnSchedule(d) ==
  \/ d = sub.start
  \/ \E c \in Dates, plan \in Plans : d = nextCycleDate(c, plan)

\* What a sweep has read: a billing date that was due, a service date on schedule.
SnapshotInv ==
  \A r \in Requests :
    req[r].op = "renew" => req[r].read.billing <= now /\ OnSchedule(req[r].read.service)

\* Everything billed later than a sweep that nothing overlapped lies beyond it: the
\* row, and whatever a sweep in flight has read.
BilledInv ==
  \A i \in DOMAIN renewals :
    ~renewals[i].raced =>
      /\ renewals[i].billing <= now
      /\ renewals[i].billing < sub.billing
      /\ \A r \in Requests : req[r].op = "renew" => renewals[i].billing < req[r].read.billing

\* Before there is a row there is no history, and after a quiet cancellation there
\* is no request.
QuietInv ==
  /\ sub = NoRow => renewals = <<>>
  /\ closed => sub # NoRow /\ sub.status = "CANCELLED" /\ InFlight = {}

ScheduleInv ==
  /\ TypeOK
  /\ AloneInv
  /\ SnapshotInv
  /\ NoVisitSkipped
  /\ BilledInv
  /\ DoubleRenewalNeedsARace
  /\ QuietInv

-----------------------------------------------------------------------------
(* Lemmas.                                                                 *)

\* The marks of an overlap change nothing else in a snapshot.
LEMMA RacedType ==
  ASSUME NEW s \in Request
  PROVE  /\ Raced(s) \in Request
         /\ Raced(s).op = s.op
         /\ Raced(s) = Idle <=> s = Idle
         /\ s # Idle => Raced(s).raced
         /\ s.op = "renew" => Raced(s).read = s.read
BY DEF Raced, Request, Idle

\* The fields a snapshot has, by its operation.
LEMMA SnapshotType ==
  ASSUME NEW s \in Request
  PROVE  /\ s = Idle <=> s.op = "idle"
         /\ s # Idle => s.raced \in BOOLEAN
         /\ s.op = "move" => s.to \in SubscriptionStatus
         /\ s.op = "changePlan" => s.to \in Plans
         /\ s.op = "renew" => s.read \in Row
BY DEF Request, Idle

\* A row is not the absence of one.
LEMMA RowExists == \A row \in Row : row # NoRow /\ row.status # "NONE"
BY DEF Row, NoRow, SubscriptionStatus

\* Moving a date on by a cycle makes it later.
LEMMA CycleAdvances ==
  ASSUME NEW d \in Nat, NEW plan \in Plans
  PROVE  nextCycleDate(d, plan) \in Nat /\ nextCycleDate(d, plan) > d
BY SubscriptionsAssumption DEF nextCycleDate

\* The dates after one more visit.
LEMMA OneMoreVisit ==
  ASSUME NEW d \in Nat, visits \in Seq(Nat), visits' = Append(visits, d)
  PROVE  visits' \in Seq(Nat) /\ Dates' = Dates \cup {d}
<1>1. /\ visits' \in Seq(Nat)
      /\ Len(visits') = Len(visits) + 1
      /\ visits'[Len(visits) + 1] = d
      /\ \A i \in 1..Len(visits) : visits'[i] = visits[i]
  OBVIOUS
<1>2. DOMAIN visits' = DOMAIN visits \cup {Len(visits) + 1}
  BY <1>1
<1> QED BY <1>1, <1>2 DEF Dates

\* What a handler that begins leaves behind: a snapshot of its own, overlapped if
\* any other is in flight, and all others overlapped.
LEMMA HoldStep ==
  ASSUME TypeOK, AloneInv, NEW r \in Requests, NEW s \in Request, s # Idle, Hold(r, s)
  PROVE  /\ req' \in [Requests -> Request]
         /\ \A q \in Requests \ {r} : /\ req'[q].op = req[q].op
                                      /\ req[q].op = "renew" => req'[q].read = req[q].read
         /\ req'[r].op = s.op
         /\ s.op = "renew" => req'[r].read = s.read
         /\ AloneInv'
         /\ InFlight' # {}
<1>1. \A q \in Requests : req'[q] = IF q = r THEN (IF InFlight = {} THEN s ELSE Raced(s))
                                    ELSE Raced(req[q])
  BY DEF Hold, TypeOK
<1>2. req' = [q \in Requests |-> req'[q]]
  BY DEF Hold
<1>3. \A q \in Requests : req'[q] \in Request
  BY <1>1, RacedType DEF TypeOK
<1>4. req'[r] # Idle /\ req'[r].op = s.op
  BY <1>1, RacedType
<1>5. AloneInv'
  <2> SUFFICES ASSUME NEW q \in Requests, req'[q] # Idle, ~req'[q].raced
               PROVE  InFlight' = {q}
    BY DEF AloneInv
  <2>1. q = r
    BY <1>1, RacedType DEF TypeOK
  <2>2. InFlight = {}
    BY <1>1, <2>1, RacedType
  <2>3. \A p \in Requests \ {r} : req'[p] = Idle
    BY <1>1, <2>2, RacedType DEF InFlight, TypeOK
  <2> QED BY <1>4, <2>1, <2>3 DEF InFlight
<1> QED BY <1>1, <1>2, <1>3, <1>4, <1>5, RacedType DEF InFlight, TypeOK

\* What a handler that ends leaves behind: the others as they were.
LEMMA DoneStep ==
  ASSUME TypeOK, AloneInv, NEW r \in Requests, Done(r)
  PROVE  /\ req' \in [Requests -> Request]
         /\ req'[r] = Idle /\ req'[r].op = "idle"
         /\ \A q \in Requests \ {r} : req'[q] = req[q]
         /\ InFlight' = InFlight \ {r}
         /\ AloneInv'
<1>1. req' \in [Requests -> Request] /\ req' = [req EXCEPT ![r] = Idle]
  BY DEF Done, TypeOK, Request
<1>2. InFlight' = InFlight \ {r}
  BY <1>1 DEF InFlight, TypeOK
<1>3. AloneInv'
  <2> SUFFICES ASSUME NEW q \in Requests, req'[q] # Idle, ~req'[q].raced
               PROVE  InFlight' = {q}
    BY DEF AloneInv
  <2>1. q # r /\ req'[q] = req[q]
    BY <1>1 DEF TypeOK
  <2>2. InFlight = {q}
    BY <2>1 DEF AloneInv
  <2> QED BY <1>2, <2>1, <2>2
<1> QED BY <1>1, <1>2, <1>3 DEF Idle, TypeOK

-----------------------------------------------------------------------------
(* Every action keeps the invariant.                                       *)

LEMMA BeginStep ==
  ASSUME ScheduleInv, NEW r \in Requests, NEW s \in Request, s # Idle, Hold(r, s),
         sub # NoRow, ~closed,
         s.op = "renew" => s.read = sub /\ sub.billing <= now
  PROVE  ScheduleInv'
<1>1. /\ TypeOK /\ AloneInv /\ NoVisitSkipped
      /\ UNCHANGED <<now, sub, visits, renewals, closed>>
  BY DEF ScheduleInv, Hold
<1>2. /\ req' \in [Requests -> Request]
      /\ \A q \in Requests \ {r} : /\ req'[q].op = req[q].op
                                   /\ req[q].op = "renew" => req'[q].read = req[q].read
      /\ req'[r].op = s.op
      /\ s.op = "renew" => req'[r].read = s.read
      /\ AloneInv'
  BY <1>1, HoldStep
<1>3. TypeOK'
  BY <1>1, <1>2 DEF TypeOK
<1>4. Dates' = Dates /\ \A d : OnSchedule(d)' <=> OnSchedule(d)
  BY <1>1 DEF Dates, OnSchedule
<1>5. OnSchedule(sub.service)
  BY <1>1 DEF NoVisitSkipped, OnSchedule
<1>6. SnapshotInv'
  <2> SUFFICES ASSUME NEW q \in Requests, req'[q].op = "renew"
               PROVE  req'[q].read.billing <= now /\ OnSchedule(req'[q].read.service)
    BY <1>1, <1>4 DEF SnapshotInv
  <2>1. CASE q = r
    BY <1>2, <1>5, <2>1
  <2>2. CASE q # r
    BY <1>2, <2>2 DEF ScheduleInv, SnapshotInv
  <2> QED BY <2>1, <2>2
<1>7. BilledInv'
  <2> SUFFICES ASSUME NEW i \in DOMAIN renewals, ~renewals[i].raced,
                      NEW q \in Requests, req'[q].op = "renew"
               PROVE  renewals[i].billing < req'[q].read.billing
    BY <1>1 DEF BilledInv, ScheduleInv
  <2>1. CASE q = r
    BY <1>2, <2>1 DEF ScheduleInv, BilledInv
  <2>2. CASE q # r
    BY <1>2, <2>2 DEF ScheduleInv, BilledInv
  <2> QED BY <2>1, <2>2
<1>8. NoVisitSkipped' /\ DoubleRenewalNeedsARace' /\ QuietInv'
  BY <1>1, <1>4 DEF ScheduleInv, NoVisitSkipped, DoubleRenewalNeedsARace, QuietInv
<1> QED BY <1>2, <1>3, <1>6, <1>7, <1>8 DEF ScheduleInv

LEMMA CreateStep ==
  ASSUME ScheduleInv, NEW plan \in Plans, NEW start \in Starts, Create(plan, start)
  PROVE  ScheduleInv'
<1>1. /\ TypeOK /\ sub = NoRow /\ UNCHANGED <<now, renewals, closed, req>>
      /\ sub' = [status |-> "ACTIVE", plan |-> plan, start |-> start,
                 billing |-> nextCycleDate(start, plan), service |-> start]
      /\ visits' = <<start>>
      /\ renewals = <<>> /\ ~closed /\ InFlight = {}
  BY DEF ScheduleInv, Create, QuietInv, TypeOK
<1>2. start \in Nat /\ sub' \in Row
  BY <1>1, SubscriptionsAssumption, CycleAdvances DEF Row, SubscriptionStatus
<1>3. sub' # NoRow /\ InFlight' = {}
  BY <1>1, <1>2, RowExists DEF InFlight, NoRow
<1>4. visits' \in Seq(Nat) /\ Dates' = {start}
  BY <1>1, <1>2 DEF Dates
<1>5. TypeOK'
  BY <1>1, <1>2, <1>3, <1>4 DEF TypeOK
<1>6. \A r \in Requests : req'[r] = Idle /\ req'[r].op = "idle"
  BY <1>1 DEF InFlight, Idle
<1>7. AloneInv' /\ SnapshotInv' /\ BilledInv' /\ DoubleRenewalNeedsARace' /\ QuietInv'
  BY <1>1, <1>3, <1>6 DEF AloneInv, SnapshotInv, BilledInv, DoubleRenewalNeedsARace, QuietInv
<1>8. NoVisitSkipped'
  BY <1>1, <1>4 DEF NoVisitSkipped
<1> QED BY <1>5, <1>7, <1>8 DEF ScheduleInv

\* A commit that generates no visit, and moves the billing date if at all beyond
\* today; so does a request that ends without writing.
LEMMA QuietCommitStep ==
  ASSUME ScheduleInv, NEW r \in Requests, req[r] # Idle, Done(r),
         UNCHANGED <<now, visits, renewals>>,
         sub' \in Row, sub'.start = sub.start, sub'.service = sub.service,
         sub'.billing = sub.billing \/ now < sub'.billing,
         closed' \in BOOLEAN,
         closed' => sub'.status = "CANCELLED" /\ InFlight = {r}
  PROVE  ScheduleInv'
<1>1. /\ TypeOK /\ AloneInv /\ sub \in Row
      /\ sub' # NoRow
  BY RowExists DEF ScheduleInv, TypeOK, InFlight
<1>2. /\ req' \in [Requests -> Request]
      /\ req'[r].op = "idle"
      /\ \A q \in Requests \ {r} : req'[q] = req[q]
      /\ InFlight' = InFlight \ {r}
      /\ AloneInv'
  BY <1>1, DoneStep
<1>3. TypeOK'
  BY <1>1, <1>2 DEF TypeOK
<1>4. Dates' = Dates /\ \A d : OnSchedule(d)' <=> OnSchedule(d)
  BY DEF Dates, OnSchedule
<1>5. SnapshotInv'
  <2> SUFFICES ASSUME NEW q \in Requests, req'[q].op = "renew"
               PROVE  req'[q].read.billing <= now /\ OnSchedule(req'[q].read.service)
    BY <1>4 DEF SnapshotInv
  <2>1. q # r /\ req'[q] = req[q]
    BY <1>2
  <2> QED BY <2>1 DEF ScheduleInv, SnapshotInv
<1>6. BilledInv'
  <2> SUFFICES ASSUME NEW i \in DOMAIN renewals, ~renewals[i].raced
               PROVE  /\ renewals[i].billing <= now
                      /\ renewals[i].billing < sub'.billing
                      /\ \A q \in Requests :
                           req'[q].op = "renew" => renewals[i].billing < req'[q].read.billing
    BY DEF BilledInv
  <2>1. /\ renewals[i].billing <= now /\ renewals[i].billing < sub.billing
        /\ \A q \in Requests :
             req[q].op = "renew" => renewals[i].billing < req[q].read.billing
    BY DEF ScheduleInv, BilledInv
  <2>2. /\ renewals[i].billing \in Nat /\ now \in Nat
        /\ sub.billing \in Nat /\ sub'.billing \in Nat
    <3>1. now \in Nat /\ renewals \in Seq(Renewal)
      BY <1>1, SubscriptionsAssumption DEF TypeOK
    <3>2. renewals[i] \in Renewal
      BY <3>1
    <3> QED BY <1>1, <3>1, <3>2 DEF Renewal, Row
  <2>3. renewals[i].billing < sub'.billing
    BY <2>1, <2>2
  <2> QED BY <1>2, <2>1, <2>3
<1>7. NoVisitSkipped' /\ DoubleRenewalNeedsARace' /\ QuietInv'
  <2>1. NoVisitSkipped'
    <3>1. \A d \in Dates \cup {sub.service} : OnSchedule(d)
      BY <1>1, RowExists DEF ScheduleInv, NoVisitSkipped, OnSchedule
    <3>2. \A d \in Dates' \cup {sub'.service} : OnSchedule(d)'
      BY <1>4, <3>1
    <3> QED BY <3>2 DEF NoVisitSkipped, OnSchedule
  <2>2. DoubleRenewalNeedsARace'
    BY DEF ScheduleInv, DoubleRenewalNeedsARace
  <2>3. QuietInv'
    BY <1>1, <1>2 DEF QuietInv
  <2> QED BY <2>1, <2>2, <2>3
<1> QED BY <1>2, <1>3, <1>5, <1>6, <1>7 DEF ScheduleInv

LEMMA MoveStep ==
  ASSUME ScheduleInv, NEW r \in Requests, CommitMove(r)
  PROVE  ScheduleInv'
<1>1. /\ TypeOK /\ req[r].op = "move" /\ req[r] # Idle /\ req[r].to \in SubscriptionStatus
      /\ sub' = [sub EXCEPT !.status = req[r].to]
      /\ closed' = (closed \/ (req[r].to = "CANCELLED" /\ InFlight = {r}))
      /\ Done(r) /\ UNCHANGED <<now, visits, renewals>>
  BY SnapshotType DEF ScheduleInv, CommitMove, TypeOK
<1>2. r \in InFlight /\ sub \in Row /\ ~closed
  BY <1>1 DEF ScheduleInv, TypeOK, InFlight, QuietInv
<1>3. /\ sub' \in Row /\ sub'.status = req[r].to
      /\ sub'.start = sub.start /\ sub'.service = sub.service /\ sub'.billing = sub.billing
  BY <1>1, <1>2 DEF Row
<1>4. closed' \in BOOLEAN /\ (closed' => req[r].to = "CANCELLED" /\ InFlight = {r})
  BY <1>1, <1>2
<1> QED BY <1>1, <1>3, <1>4, QuietCommitStep

LEMMA ChangePlanStep ==
  ASSUME ScheduleInv, NEW r \in Requests, CommitChangePlan(r)
  PROVE  ScheduleInv'
<1>1. /\ TypeOK /\ req[r].op = "changePlan" /\ req[r] # Idle /\ req[r].to \in Plans
      /\ sub' = [sub EXCEPT !.plan = req[r].to, !.billing = nextCycleDate(now, req[r].to)]
      /\ Done(r) /\ UNCHANGED <<now, visits, renewals, closed>>
  BY SnapshotType DEF ScheduleInv, CommitChangePlan, TypeOK
<1>2. r \in InFlight /\ sub \in Row /\ ~closed /\ closed \in BOOLEAN
  BY <1>1 DEF ScheduleInv, TypeOK, InFlight, QuietInv
<1>3. now \in Nat
  <2>1. now \in 0..MaxTime /\ MaxTime \in Nat
    BY <1>1, SubscriptionsAssumption DEF TypeOK
  <2> QED BY <2>1
<1>5. nextCycleDate(now, req[r].to) \in Nat /\ now < nextCycleDate(now, req[r].to)
  <2>1. req[r].to \in Plans
    BY <1>1
  <2>2. nextCycleDate(now, req[r].to) \in Nat /\ nextCycleDate(now, req[r].to) > now
    BY <1>3, <2>1, CycleAdvances
  <2> QED BY <1>3, <2>2
<1>4. /\ sub' \in Row
      /\ sub'.start = sub.start /\ sub'.service = sub.service /\ now < sub'.billing
  BY <1>1, <1>2, <1>3, <1>5 DEF Row
<1> QED BY <1>1, <1>2, <1>4, QuietCommitStep

LEMMA AbandonStep ==
  ASSUME ScheduleInv, NEW r \in Requests, Abandon(r)
  PROVE  ScheduleInv'
<1>1. TypeOK /\ r \in InFlight /\ sub \in Row /\ ~closed /\ closed \in BOOLEAN
  BY DEF ScheduleInv, Abandon, TypeOK, InFlight, QuietInv
<1> QED BY <1>1, QuietCommitStep DEF Abandon

\* A sweep: the visit it generates, the two dates it moves on, the renewal it records.
LEMMA RenewStep ==
  ASSUME ScheduleInv, NEW r \in Requests, CommitRenew(r)
  PROVE  ScheduleInv'
<1> DEFINE s == req[r].read
           n == Len(renewals) + 1
<1>1. /\ TypeOK /\ AloneInv /\ req[r].op = "renew" /\ req[r] # Idle
      /\ s \in Row /\ req[r].raced \in BOOLEAN
      /\ visits' = Append(visits, s.service)
      /\ sub' = [sub EXCEPT !.billing = nextCycleDate(s.billing, s.plan),
                            !.service = nextCycleDate(s.service, s.plan)]
      /\ renewals' = Append(renewals, [billing |-> s.billing, raced |-> req[r].raced])
      /\ Done(r) /\ UNCHANGED <<now, closed>>
  BY SnapshotType DEF ScheduleInv, CommitRenew, TypeOK
<1>2. r \in InFlight /\ sub \in Row /\ ~closed /\ now \in Nat
  BY <1>1, SubscriptionsAssumption DEF ScheduleInv, TypeOK, InFlight, QuietInv
<1>3. s.billing \in Nat /\ s.service \in Nat /\ s.plan \in Plans
  BY <1>1 DEF Row
<1>4. /\ nextCycleDate(s.billing, s.plan) \in Nat /\ s.billing < nextCycleDate(s.billing, s.plan)
      /\ nextCycleDate(s.service, s.plan) \in Nat
  BY <1>3, CycleAdvances
<1>5. /\ sub' \in Row /\ sub' # NoRow
      /\ sub'.start = sub.start
      /\ sub'.billing = nextCycleDate(s.billing, s.plan)
      /\ sub'.service = nextCycleDate(s.service, s.plan)
  <2> HIDE DEF s
  <2>1. sub' \in Row
    BY <1>1, <1>2, <1>4 DEF Row
  <2> QED BY <1>1, <1>2, <2>1, RowExists DEF Row
<1>6. visits' \in Seq(Nat) /\ Dates' = Dates \cup {s.service}
  BY <1>1, <1>3, OneMoreVisit DEF TypeOK
<1>7. /\ renewals' \in Seq(Renewal)
      /\ DOMAIN renewals' = DOMAIN renewals \cup {n}
      /\ \A i \in DOMAIN renewals : renewals'[i] = renewals[i] /\ renewals[i] \in Renewal
      /\ renewals'[n] = [billing |-> s.billing, raced |-> req[r].raced]
  <2> HIDE DEF s
  <2>1. renewals \in Seq(Renewal) /\ [billing |-> s.billing, raced |-> req[r].raced] \in Renewal
    BY <1>1, <1>3 DEF TypeOK, Renewal
  <2> QED BY <1>1, <2>1
<1>8. /\ req' \in [Requests -> Request]
      /\ req'[r].op = "idle"
      /\ \A q \in Requests \ {r} : req'[q] = req[q]
      /\ InFlight' = InFlight \ {r}
      /\ AloneInv'
  BY <1>1, DoneStep
<1>9. TypeOK'
  BY <1>1, <1>5, <1>6, <1>7, <1>8 DEF TypeOK
<1>10. OnSchedule(s.service)
  BY <1>1 DEF ScheduleInv, SnapshotInv
<1>11. \A d : OnSchedule(d) => OnSchedule(d)'
  BY <1>5, <1>6 DEF OnSchedule
<1>12. SnapshotInv'
  <2> SUFFICES ASSUME NEW q \in Requests, req'[q].op = "renew"
               PROVE  req'[q].read.billing <= now /\ OnSchedule(req[q].read.service)'
    BY <1>1 DEF SnapshotInv, OnSchedule
  <2>1. q # r /\ req'[q] = req[q]
    BY <1>8
  <2>2. req[q].read.billing <= now /\ OnSchedule(req[q].read.service)
    BY <2>1 DEF ScheduleInv, SnapshotInv
  <2>3. \A d : d = req[q].read.service => OnSchedule(d)'
    BY <1>11, <2>2
  <2> QED BY <2>1, <2>2, <2>3 DEF OnSchedule
<1>13. NoVisitSkipped'
  <2> SUFFICES ASSUME NEW d \in Dates' \cup {sub'.service}
               PROVE  OnSchedule(d)'
    BY DEF NoVisitSkipped, OnSchedule
  <2>1. CASE d \in Dates
    BY <1>2, <1>11, <2>1, RowExists DEF ScheduleInv, NoVisitSkipped, OnSchedule
  <2>2. CASE d = s.service
    BY <1>10, <1>11, <2>2
  <2>3. CASE d = sub'.service
    BY <1>3, <1>5, <1>6, <2>3 DEF OnSchedule
  <2> QED BY <1>6, <2>1, <2>2, <2>3
<1>14. s.billing <= now
  BY <1>1 DEF ScheduleInv, SnapshotInv
<1>15. \A i \in DOMAIN renewals : ~renewals[i].raced =>
          /\ renewals[i].billing \in Nat /\ renewals[i].billing <= now
          /\ renewals[i].billing < s.billing
  BY <1>1, <1>7 DEF ScheduleInv, BilledInv, Renewal
<1>16. BilledInv'
  <2> SUFFICES ASSUME NEW i \in DOMAIN renewals', ~renewals'[i].raced
               PROVE  /\ renewals'[i].billing <= now
                      /\ renewals'[i].billing < sub'.billing
                      /\ \A q \in Requests :
                           req'[q].op = "renew" => renewals'[i].billing < req'[q].read.billing
    BY <1>1 DEF BilledInv
  <2>1. CASE i \in DOMAIN renewals
    <3>1. renewals'[i] = renewals[i]
      BY <1>7, <2>1
    <3>2. renewals[i].billing < sub'.billing
      BY <1>3, <1>4, <1>5, <1>15, <2>1, <3>1
    <3>3. \A q \in Requests : req[q].op = "renew" => renewals[i].billing < req[q].read.billing
      BY <2>1, <3>1 DEF ScheduleInv, BilledInv
    <3> QED BY <1>8, <1>15, <2>1, <3>1, <3>2, <3>3
  <2>2. CASE i = n
    <3>1. renewals'[i].billing = s.billing /\ renewals'[i].raced = req[r].raced
      BY <1>7, <2>2
    <3>2. InFlight = {r}
      BY <1>1, <3>1 DEF AloneInv
    <3>3. \A q \in Requests : req'[q].op = "idle"
      BY <1>8, <3>2 DEF InFlight, Idle
    <3> QED BY <1>4, <1>5, <1>14, <3>1, <3>3
  <2> QED BY <1>7, <2>1, <2>2
<1>17. DoubleRenewalNeedsARace'
  <2> SUFFICES ASSUME NEW i \in DOMAIN renewals', NEW j \in DOMAIN renewals', i # j,
                      renewals'[i].billing = renewals'[j].billing
               PROVE  renewals'[i].raced \/ renewals'[j].raced
    BY DEF DoubleRenewalNeedsARace
  <2>1. CASE i \in DOMAIN renewals /\ j \in DOMAIN renewals
    BY <1>7, <2>1 DEF ScheduleInv, DoubleRenewalNeedsARace
  <2>2. CASE i \in DOMAIN renewals /\ j = n
    BY <1>3, <1>7, <1>15, <2>2
  <2>3. CASE i = n /\ j \in DOMAIN renewals
    BY <1>3, <1>7, <1>15, <2>3
  <2> QED BY <1>7, <2>1, <2>2, <2>3
<1>18. QuietInv'
  BY <1>1, <1>2, <1>5 DEF QuietInv
<1> QED BY <1>8, <1>9, <1>12, <1>13, <1>16, <1>17, <1>18 DEF ScheduleInv

LEMMA TickStep ==
  ASSUME ScheduleInv, Tick
  PROVE  ScheduleInv'
<1>1. /\ TypeOK /\ now' = now + 1 /\ now < MaxTime /\ now \in Nat
      /\ UNCHANGED <<sub, visits, renewals, closed, req>>
  BY SubscriptionsAssumption DEF ScheduleInv, Tick, TypeOK
<1>2. InFlight' = InFlight /\ Dates' = Dates /\ \A d : OnSchedule(d)' <=> OnSchedule(d)
  BY <1>1 DEF InFlight, Dates, OnSchedule
<1>3. TypeOK'
  BY <1>1, <1>2, SubscriptionsAssumption DEF TypeOK
<1>4. SnapshotInv'
  <2> SUFFICES ASSUME NEW r \in Requests, req[r].op = "renew"
               PROVE  req[r].read.billing <= now' /\ OnSchedule(req[r].read.service)
    BY <1>1, <1>2 DEF SnapshotInv
  <2>1. req[r].read.billing <= now /\ OnSchedule(req[r].read.service)
    BY DEF ScheduleInv, SnapshotInv
  <2>2. req[r].read.billing \in Nat
    BY <1>1, SnapshotType DEF TypeOK, Row
  <2> QED BY <1>1, <2>1, <2>2
<1>5. BilledInv'
  <2> SUFFICES ASSUME NEW i \in DOMAIN renewals, ~renewals[i].raced
               PROVE  /\ renewals[i].billing <= now'
                      /\ renewals[i].billing < sub.billing
                      /\ \A r \in Requests :
                           req[r].op = "renew" => renewals[i].billing < req[r].read.billing
    BY <1>1 DEF BilledInv
  <2>1. renewals \in Seq(Renewal)
    BY <1>1 DEF TypeOK
  <2>2. renewals[i] \in Renewal
    BY <2>1
  <2>3. renewals[i].billing \in Nat
    BY <2>2 DEF Renewal
  <2> QED BY <1>1, <2>3 DEF ScheduleInv, BilledInv
<1>6. AloneInv' /\ NoVisitSkipped'
  BY <1>1, <1>2 DEF ScheduleInv, AloneInv, NoVisitSkipped
<1>7. DoubleRenewalNeedsARace' /\ QuietInv'
  BY <1>1, <1>2 DEF ScheduleInv, DoubleRenewalNeedsARace, QuietInv
<1> QED BY <1>3, <1>4, <1>5, <1>6, <1>7 DEF ScheduleInv

\* A handler that begins finds a subscription that was not cancelled for good.
LEMMA BeginsStep ==
  ASSUME ScheduleInv, NEW r \in Requests, Begin(r)
  PROVE  ScheduleInv' /\ ~closed
<1>0. TypeOK
  BY DEF ScheduleInv
<1>1. ASSUME NEW to \in SubscriptionStatus, BeginMove(r, to)
      PROVE  ScheduleInv' /\ ~closed
  <2> DEFINE s == [op |-> "move", to |-> to, raced |-> FALSE]
  <2>1. s \in Request /\ s # Idle /\ s.op # "renew"
    BY DEF Request, Idle
  <2>2. sub # NoRow /\ Hold(r, s) /\ sub.status # "CANCELLED"
    BY <1>1 DEF BeginMove, SUBSCRIPTION_TRANSITIONS
  <2>3. ~closed
    BY <2>2 DEF ScheduleInv, QuietInv
  <2> HIDE DEF s
  <2> QED BY <2>1, <2>2, <2>3, BeginStep
<1>2. ASSUME NEW plan \in Plans, BeginChangePlan(r, plan)
      PROVE  ScheduleInv' /\ ~closed
  <2> DEFINE s == [op |-> "changePlan", to |-> plan, raced |-> FALSE]
  <2>1. s \in Request /\ s # Idle /\ s.op # "renew"
    BY DEF Request, Idle
  <2>2. sub # NoRow /\ Hold(r, s) /\ sub.status # "CANCELLED"
    BY <1>2 DEF BeginChangePlan
  <2>3. ~closed
    BY <2>2 DEF ScheduleInv, QuietInv
  <2> HIDE DEF s
  <2> QED BY <2>1, <2>2, <2>3, BeginStep
<1>3. ASSUME BeginRenew(r)
      PROVE  ScheduleInv' /\ ~closed
  <2> DEFINE s == [op |-> "renew", read |-> sub, raced |-> FALSE]
  <2>1. sub # NoRow /\ sub.billing <= now /\ Hold(r, s) /\ sub.status # "CANCELLED"
    BY <1>3 DEF BeginRenew
  <2>2. sub \in Row
    BY <1>0, <2>1 DEF TypeOK
  <2>3. s \in Request /\ s # Idle /\ s.read = sub
    BY <2>2 DEF Request, Idle
  <2>4. ~closed
    BY <2>1 DEF ScheduleInv, QuietInv
  <2> HIDE DEF s
  <2> QED BY <2>1, <2>3, <2>4, BeginStep
<1> QED BY <1>1, <1>2, <1>3 DEF Begin

-----------------------------------------------------------------------------
(* The invariant holds, and with it the properties.                        *)

LEMMA ScheduleHolds == Spec => []ScheduleInv
<1>1. Init => ScheduleInv
  <2> SUFFICES ASSUME Init PROVE ScheduleInv
    OBVIOUS
  <2>1. TypeOK
    <3>1. req \in [Requests -> Request] /\ InFlight = {}
      BY DEF Init, Request, InFlight
    <3>2. visits \in Seq(Nat) /\ renewals \in Seq(Renewal) /\ now \in 0..MaxTime
      BY SubscriptionsAssumption DEF Init
    <3> QED BY <3>1, <3>2 DEF Init, TypeOK
  <2> QED BY <2>1 DEF Init, ScheduleInv, AloneInv, SnapshotInv, NoVisitSkipped, BilledInv,
                       DoubleRenewalNeedsARace, QuietInv, Idle
<1>2. ScheduleInv /\ [Next]_vars => ScheduleInv'
  <2> SUFFICES ASSUME ScheduleInv, [Next]_vars PROVE ScheduleInv'
    OBVIOUS
  <2>1. CASE UNCHANGED vars
    BY <2>1 DEF vars, ScheduleInv, TypeOK, AloneInv, SnapshotInv, NoVisitSkipped, BilledInv,
                DoubleRenewalNeedsARace, QuietInv, InFlight, Dates, OnSchedule
  <2>2. CASE Next
    BY <2>2, CreateStep, BeginsStep, MoveStep, ChangePlanStep, RenewStep, AbandonStep, TickStep
       DEF Next
  <2> QED BY <2>1, <2>2
<1> QED BY <1>1, <1>2, PTL DEF Spec

\* The row, the snapshots and the dates of renewals and visits keep their types.
THEOREM TypeCorrect == Spec => []TypeOK
<1>1. ScheduleInv => TypeOK
  BY DEF ScheduleInv
<1> QED BY <1>1, ScheduleHolds, PTL

\* Overlapping sweeps and changes of plan never leave a period without service.
THEOREM NoSkip == Spec => []NoVisitSkipped
<1>1. ScheduleInv => NoVisitSkipped
  BY DEF ScheduleInv
<1> QED BY <1>1, ScheduleHolds, PTL

\* Only sweeps that overlap another request renew a billing date twice.
THEOREM RenewalsDistinct == Spec => []DoubleRenewalNeedsARace
<1>1. ScheduleInv => DoubleRenewalNeedsARace
  BY DEF ScheduleInv
<1> QED BY <1>1, ScheduleHolds, PTL

-----------------------------------------------------------------------------
(* The dates of the visits.                                                *)

\* A settled visit lies behind the row and behind whatever a sweep in flight has read.
BehindInv ==
  /\ sub # NoRow => Len(visits) = Len(renewals) + 1
  /\ \A i \in DOMAIN renewals :
       ~renewals[i].raced =>
         /\ visits[i + 1] < sub.service
         /\ \A r \in Requests : req[r].op = "renew" => visits[i + 1] < req[r].read.service
  /\ VisitsAdvance

\* What a sweep in flight has read is what it had read, or the row as it is now.
ReadsKept ==
  \A r \in Requests : req'[r].op = "renew" =>
    \/ req[r].op = "renew" /\ req'[r].read = req[r].read
    \/ sub # NoRow /\ req'[r].read = sub

\* A step that generates no visit and leaves the service date keeps settled visits behind.
LEMMA NoVisitKeeps ==
  ASSUME ScheduleInv, BehindInv, UNCHANGED <<visits, renewals>>, ReadsKept,
         sub # NoRow => sub' # NoRow /\ sub'.service = sub.service,
         sub = NoRow => sub' = NoRow
  PROVE  BehindInv'
<1>1. ASSUME NEW i \in DOMAIN renewals, ~renewals[i].raced
      PROVE  /\ visits[i + 1] < sub'.service
             /\ \A r \in Requests : req'[r].op = "renew" => visits[i + 1] < req'[r].read.service
  <2>1. sub # NoRow
    BY DEF ScheduleInv, QuietInv
  <2> QED
    BY <1>1, <2>1 DEF BehindInv, ReadsKept
<1> QED
  BY <1>1 DEF BehindInv, VisitsAdvance

\* A handler that begins has read the row, and a handler that ends reads no more.
LEMMA BeginKeepsReads ==
  ASSUME TypeOK, AloneInv, NEW r \in Requests, Begin(r)
  PROVE  ReadsKept /\ UNCHANGED <<visits, renewals, sub>>
<1>1. PICK s \in Request : s # Idle /\ Hold(r, s) /\ (s.op = "renew" => s.read = sub /\ sub # NoRow)
  <2>1. CASE \E to \in SubscriptionStatus : BeginMove(r, to)
    <3>1. PICK to \in SubscriptionStatus : BeginMove(r, to)
      BY <2>1
    <3> DEFINE s == [op |-> "move", to |-> to, raced |-> FALSE]
    <3>2. s \in Request /\ s # Idle /\ s.op # "renew"
      BY DEF Request, Idle
    <3>3. Hold(r, s)
      BY <3>1 DEF BeginMove
    <3> HIDE DEF s
    <3> QED
      BY <3>2, <3>3
  <2>2. CASE \E plan \in Plans : BeginChangePlan(r, plan)
    <3>1. PICK plan \in Plans : BeginChangePlan(r, plan)
      BY <2>2
    <3> DEFINE s == [op |-> "changePlan", to |-> plan, raced |-> FALSE]
    <3>2. s \in Request /\ s # Idle /\ s.op # "renew"
      BY DEF Request, Idle
    <3>3. Hold(r, s)
      BY <3>1 DEF BeginChangePlan
    <3> HIDE DEF s
    <3> QED
      BY <3>2, <3>3
  <2>3. CASE BeginRenew(r)
    <3> DEFINE s == [op |-> "renew", read |-> sub, raced |-> FALSE]
    <3>1. sub \in Row /\ sub # NoRow /\ Hold(r, s)
      BY <2>3 DEF TypeOK, BeginRenew
    <3>2. s \in Request /\ s # Idle /\ s.read = sub
      BY <3>1 DEF Request, Idle
    <3> QED
      BY <3>1, <3>2
  <2> QED
    BY <2>1, <2>2, <2>3 DEF Begin
<1>2. /\ \A q \in Requests \ {r} : /\ req'[q].op = req[q].op
                                   /\ req[q].op = "renew" => req'[q].read = req[q].read
      /\ req'[r].op = s.op
      /\ s.op = "renew" => req'[r].read = s.read
  BY <1>1, HoldStep
<1> QED
  BY <1>1, <1>2 DEF ReadsKept, Hold

LEMMA DoneKeepsReads ==
  ASSUME TypeOK, AloneInv, NEW r \in Requests, Done(r)
  PROVE  ReadsKept
BY DoneStep DEF ReadsKept

\* A renewal books a visit behind which everything settled lies, and settles it if nothing
\* overlapped.
LEMMA RenewKeepsBehind ==
  ASSUME ScheduleInv, BehindInv, NEW r \in Requests, CommitRenew(r)
  PROVE  BehindInv'
<1> DEFINE s == req[r].read
           n == Len(renewals) + 1
<1>1. /\ TypeOK /\ AloneInv /\ req[r].op = "renew" /\ req[r] # Idle
      /\ s \in Row /\ req[r].raced \in BOOLEAN
      /\ visits' = Append(visits, s.service)
      /\ sub' = [sub EXCEPT !.billing = nextCycleDate(s.billing, s.plan),
                            !.service = nextCycleDate(s.service, s.plan)]
      /\ renewals' = Append(renewals, [billing |-> s.billing, raced |-> req[r].raced])
      /\ Done(r)
  BY SnapshotType DEF ScheduleInv, CommitRenew, TypeOK
<1>2. sub \in Row /\ sub # NoRow
  BY <1>1, RowExists DEF TypeOK, InFlight
<1>3. Len(visits) = n /\ renewals \in Seq(Renewal) /\ visits \in Seq(Nat) /\ n \in Nat
  BY <1>1, <1>2 DEF BehindInv, TypeOK
<1>4. s.service \in Nat /\ s.plan \in Plans
  BY <1>1 DEF Row
<1>5. /\ s.service < nextCycleDate(s.service, s.plan)
      /\ nextCycleDate(s.service, s.plan) \in Nat
  BY <1>4, CycleAdvances
<1>6. sub'.service = nextCycleDate(s.service, s.plan)
  <2> HIDE DEF s
  <2> QED BY <1>1, <1>2 DEF Row
<1>7. /\ DOMAIN renewals = 1..(n - 1) /\ DOMAIN renewals' = 1..n
      /\ Len(renewals') = n
      /\ \A i \in 1..(n - 1) : renewals'[i] = renewals[i]
      /\ renewals'[n].raced = req[r].raced
  <2> HIDE DEF s
  <2> QED BY <1>1, <1>3
<1>8. /\ Len(visits') = n + 1
      /\ \A i \in 1..n : visits'[i] = visits[i] /\ visits[i] \in Nat
      /\ visits'[n + 1] = s.service
  <2> HIDE DEF s
  <2> QED BY <1>1, <1>3, <1>4
<1>9. \A i \in 1..(n - 1) : visits'[i + 1] = visits[i + 1] /\ visits[i + 1] \in Nat
  BY <1>3, <1>8
<1>10. /\ req'[r].op = "idle"
       /\ \A q \in Requests \ {r} : req'[q] = req[q]
       /\ InFlight' = InFlight \ {r}
  BY <1>1, DoneStep
<1>11. \A i \in 1..(n - 1) : ~renewals[i].raced =>
         /\ visits[i + 1] < s.service
         /\ \A q \in Requests : req[q].op = "renew" => visits[i + 1] < req[q].read.service
  BY <1>1, <1>7 DEF BehindInv
<1> HIDE DEF s
<1>12. ASSUME NEW i \in 1..n, ~renewals'[i].raced
       PROVE  /\ visits'[i + 1] < sub'.service
              /\ \A q \in Requests : req'[q].op = "renew" => visits'[i + 1] < req'[q].read.service
  <2>1. CASE i = n
    <3>1. ~req[r].raced
      BY <1>7, <1>12, <2>1
    <3>2. InFlight = {r}
      BY <1>1, <3>1 DEF AloneInv
    <3>3. \A q \in Requests : req'[q].op = "idle"
      BY <1>10, <3>2 DEF InFlight, Idle
    <3> QED
      BY <1>5, <1>6, <1>8, <2>1, <3>3
  <2>2. CASE i # n
    <3>1. i \in 1..(n - 1) /\ ~renewals[i].raced
      BY <1>3, <1>7, <1>12, <2>2
    <3>2. visits'[i + 1] < sub'.service
      BY <1>4, <1>5, <1>6, <1>9, <1>11, <3>1
    <3>3. ASSUME NEW q \in Requests, req'[q].op = "renew"
          PROVE  visits'[i + 1] < req'[q].read.service
      <4>1. q # r /\ req'[q] = req[q]
        BY <1>10, <3>3
      <4> QED
        BY <1>9, <1>11, <3>1, <3>3, <4>1
    <3> QED
      BY <3>2, <3>3
  <2> QED
    BY <2>1, <2>2
<1>13. ASSUME NEW i \in 1..n, NEW j \in 1..n, i < j, ~renewals'[i].raced
       PROVE  visits'[i + 1] < visits'[j + 1]
  <2>1. i \in 1..(n - 1) /\ ~renewals[i].raced
    BY <1>3, <1>7, <1>13
  <2>2. CASE j = n
    BY <1>8, <1>9, <1>11, <2>1, <2>2
  <2>3. CASE j # n
    <3>1. j \in 1..(n - 1)
      BY <1>3, <2>3
    <3>2. visits[i + 1] < visits[j + 1]
      BY <1>7, <1>13, <2>1, <3>1 DEF BehindInv, VisitsAdvance
    <3> QED
      BY <1>9, <2>1, <3>1, <3>2
  <2> QED
    BY <2>2, <2>3
<1> QED
  BY <1>7, <1>8, <1>12, <1>13 DEF BehindInv, VisitsAdvance

\* A renewal that overlapped nothing settles its visit: whatever sweeps and changes of plan
\* race later, no visit is generated on or before its date (processDueRenewals).
THEOREM VisitsGoForward == Spec => []VisitsAdvance
<1>1. Init => BehindInv
  BY DEF Init, BehindInv, VisitsAdvance
<1>2. ScheduleInv /\ BehindInv /\ [Next]_vars => BehindInv'
  <2> SUFFICES ASSUME ScheduleInv, BehindInv, [Next]_vars PROVE BehindInv'
    OBVIOUS
  <2>1. TypeOK /\ AloneInv
    BY DEF ScheduleInv
  <2>2. ASSUME NEW r \in Requests, Begin(r)
        PROVE  BehindInv'
    BY <2>1, <2>2, BeginKeepsReads, NoVisitKeeps
  <2>3. ASSUME NEW r \in Requests, CommitMove(r) \/ CommitChangePlan(r) \/ Abandon(r)
        PROVE  BehindInv'
    <3>1. req[r] # Idle /\ Done(r) /\ UNCHANGED <<visits, renewals>>
      BY <2>3 DEF CommitMove, CommitChangePlan, Abandon, Idle
    <3>2. sub \in Row /\ sub # NoRow
      BY <2>1, <3>1, RowExists DEF TypeOK, InFlight
    <3>3. sub'.service = sub.service /\ DOMAIN sub' = DOMAIN sub
      BY <2>3, <3>2 DEF CommitMove, CommitChangePlan, Abandon, Row
    <3>4. sub' # NoRow
      BY <3>2, <3>3 DEF Row, NoRow
    <3> QED
      BY <2>1, <3>1, <3>2, <3>3, <3>4, DoneKeepsReads, NoVisitKeeps
  <2>4. ASSUME NEW r \in Requests, CommitRenew(r)
        PROVE  BehindInv'
    BY <2>4, RenewKeepsBehind
  <2>5. ASSUME NEW plan \in Plans, NEW start \in Starts, Create(plan, start)
        PROVE  BehindInv'
    <3>1. renewals' = <<>> /\ Len(visits') = 1
      BY <2>5 DEF Create, ScheduleInv, QuietInv
    <3> QED
      BY <3>1 DEF BehindInv, VisitsAdvance
  <2>6. CASE Tick \/ UNCHANGED vars
    <3>1. UNCHANGED <<sub, visits, renewals, req>>
      BY <2>6 DEF Tick, vars
    <3> QED
      BY <3>1 DEF BehindInv, VisitsAdvance
  <2> QED
    BY <2>2, <2>3, <2>4, <2>5, <2>6 DEF Next
<1>3. BehindInv => VisitsAdvance
  BY DEF BehindInv
<1> QED
  BY <1>1, <1>2, <1>3, ScheduleHolds, PTL DEF Spec

\* A cancellation with no other request in flight ends the subscription.
THEOREM CancelFinal == Spec => CancellationIsFinal
<1>1. ScheduleInv /\ [Next]_vars => [closed => UNCHANGED <<sub, visits>>]_vars
  <2> SUFFICES ASSUME ScheduleInv, Next, closed PROVE UNCHANGED <<sub, visits>>
    OBVIOUS
  <2>1. sub # NoRow /\ \A r \in Requests : req[r] = Idle /\ req[r].op = "idle"
    BY DEF ScheduleInv, QuietInv, InFlight, Idle
  <2>2. ASSUME NEW r \in Requests
        PROVE  ~(Begin(r) \/ CommitMove(r) \/ CommitChangePlan(r) \/ CommitRenew(r) \/ Abandon(r))
    BY <2>1, BeginsStep DEF CommitMove, CommitChangePlan, CommitRenew, Abandon
  <2>3. Tick
    BY <2>1, <2>2 DEF Next, Create
  <2> QED BY <2>3 DEF Tick
<1> QED BY <1>1, ScheduleHolds, PTL DEF Spec, CancellationIsFinal
=============================================================================
