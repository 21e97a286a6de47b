------------------------------ MODULE Bookings ------------------------------
(***************************************************************************)
(* The life of a booking: bookings.service, booking-status.service,        *)
(* technician-assignment.service, the GPS check-in and check-out of        *)
(* location.service and the warranty backfill of warranties.service, over  *)
(* one database.                                                           *)
(*                                                                         *)
(* Every handler first awaits its reads, validates them, and only then     *)
(* opens a transaction whose updates name rows by primary key alone.  So a *)
(* handler is two steps here: Begin... takes the snapshot and applies every*)
(* check the handler makes on it, Commit... is the transaction.  Between   *)
(* the two, the transactions of other requests commit.                     *)
(*                                                                         *)
(* Time windows, slot capacity and technician availability are the subject *)
(* of module Dispatch; an admin may bypass all of them here.               *)
(***************************************************************************)
EXTENDS BookingGraph, Naturals, Sequences

CONSTANTS
  Bookings,        \* ids of the booking rows
  Technicians,     \* technician profiles
  Warranted,       \* bookings of a service whose warrantyDays is positive
  Requests,        \* concurrent requests the API process serves
  MaxHistory,      \* bound: history rows of one booking
  MaxAssignments   \* bound: assignment rows in the table

ASSUME BookingsAssumption ==
  /\ Warranted \subseteq Bookings
  /\ MaxHistory \in Nat
  /\ MaxAssignments \in Nat

VARIABLES
  status,       \* booking.status, "NONE" while there is no row
  history,      \* the booking_status_history rows of each booking, in order
  warranty,     \* the bookings that have a service_warranty row
  assignments,  \* the technician_assignments table, in creation order
  req,          \* what each request in flight has read and will write
  raced,        \* history: the bookings two requests in flight meant to move or warrant
  contested     \* history: the bookings two requests in flight meant to assign

vars == <<status, history, warranty, assignments, req, raced, contested>>

-----------------------------------------------------------------------------
(* Rows and snapshots.                                                     *)

\* The callers the role checks tell apart.  A customer other than the owner of
\* the booking gets a 404 before anything is read, so "CUSTOMER" is the owner.
Actors == {"ADMIN", "CUSTOMER"} \cup Technicians

HistoryRow == [prev : BookingStatus \cup {"NONE"}, new : BookingStatus]

AssignmentRow ==
  [booking : Bookings, tech : Technicians, status : AssignmentStatus]

Idle == [op |-> "idle"]

\* A request in flight: the operation, the rows it names, and the booking status
\* it has seen.  (The assignment status it read decides whether it goes on, at
\* Begin, and is not used again.)
Request ==
  {Idle}
  \cup [op : {"status", "gps"}, b : Bookings, seen : BookingStatus, next : BookingStatus]
  \cup [op : {"reschedule"}, b : Bookings, seen : BookingStatus]
  \cup [op : {"backfill"}, b : Warranted]
  \cup [op : {"assign"}, b : Bookings, tech : Technicians]
  \cup [op : {"reassign"}, a : Nat \ {0}, tech : Technicians]
  \cup [op : {"accept"}, a : Nat \ {0}, seen : BookingStatus]
  \cup [op : {"reject", "unassign"}, a : Nat \ {0}]

Init ==
  /\ status = [b \in Bookings |-> "NONE"]
  /\ history = [b \in Bookings |-> <<>>]
  /\ warranty = {}
  /\ assignments = <<>>
  /\ req = [r \in Requests |-> Idle]
  /\ raced = {}
  /\ contested = {}

-----------------------------------------------------------------------------
(* Helpers.                                                                *)

\* Role-based row filter: a technician reaches the bookings on which they have
\* an assignment row, whatever has become of it.
scope(actor, b) ==
  actor \in Technicians =>
    \E i \in DOMAIN assignments :
      assignments[i].booking = b /\ assignments[i].tech = actor

requireAccessible(actor, b) == status[b] # "NONE" /\ scope(actor, b)

\* Whether a request that holds s may write b's status, trail or warranty, and whether it
\* may write b's assignments.
MovesBooking(s, b) ==
  \/ s.op \in {"status", "gps", "reschedule", "backfill"} /\ s.b = b
  \/ s.op = "accept" /\ assignments[s.a].booking = b

AssignsBooking(s, b) ==
  \/ s.op = "assign" /\ s.b = b
  \/ s.op \in {"reassign", "accept", "reject", "unassign"} /\ assignments[s.a].booking = b

\* The reads of request r are done: it holds snapshot s and has written nothing.  Which
\* bookings it shares with a request that is still in flight goes into the history.
Hold(r, s) ==
  LET Others == Requests \ {r} IN
  /\ req[r] = Idle
  /\ req' = [req EXCEPT ![r] = s]
  /\ raced' = raced \cup
       {b \in Bookings : MovesBooking(s, b) /\ \E q \in Others : MovesBooking(req[q], b)}
  /\ contested' = contested \cup
       {b \in Bookings : AssignsBooking(s, b) /\ \E q \in Others : AssignsBooking(req[q], b)}
  /\ UNCHANGED <<status, history, warranty, assignments>>

Done(r) ==
  /\ req' = [req EXCEPT ![r] = Idle]
  /\ UNCHANGED <<raced, contested>>

\* The bookings whose history is below the bound.
Recordable == {b \in Bookings : Len(history[b]) < MaxHistory}

Record(b, prev, new) ==
  /\ b \in Recordable
  /\ history' = [history EXCEPT ![b] = Append(@, [prev |-> prev, new |-> new])]

TransitionWithoutHistory(b, current, next) ==
  /\ isTransitionAllowed(current, next)
  /\ status' = [status EXCEPT ![b] = next]
  /\ UNCHANGED history

\* BookingStatusService.transition: the edge is checked against what the caller
\* read, the row is updated by id, and history records the caller's view.
transition(b, current, next) ==
  /\ current # next
  /\ isTransitionAllowed(current, next)
  /\ status' = [status EXCEPT ![b] = next]
  /\ Record(b, current, next)

RowSetTo(i, s) == [assignments EXCEPT ![i].status = s]

RowFor(b, t) == [booking |-> b, tech |-> t, status |-> "ASSIGNED"]

ActiveRows(b) ==
  {i \in DOMAIN assignments : /\ assignments[i].booking = b
                              /\ assignments[i].status \in ACTIVE_ASSIGNMENT_STATUSES}

-----------------------------------------------------------------------------
(* BookingsService.                                                        *)

CreateWithoutHistory(b) ==
  /\ status[b] = "NONE"
  /\ status' = [status EXCEPT ![b] = "PENDING"]
  /\ UNCHANGED <<history, warranty, assignments, req, raced, contested>>

\* create, and RecurringBookingService.generateVisit: nothing read beforehand is
\* written, so the insert and its history row are one step.
Create(b) ==
  /\ status[b] = "NONE"
  /\ status' = [status EXCEPT ![b] = "PENDING"]
  /\ Record(b, "NONE", "PENDING")
  /\ UNCHANGED <<warranty, assignments, req, raced, contested>>

\* reschedule moves the window and leaves a history row of the status it read;
\* an admin may do so whatever the status.
BeginReschedule(r, actor, b) ==
  /\ requireAccessible(actor, b)
  /\ actor # "ADMIN" => status[b] \in CANCELLABLE_BY_CUSTOMER
  /\ Hold(r, [op |-> "reschedule", b |-> b, seen |-> status[b]])

CommitRescheduleAsPending(r) ==
  /\ req[r].op = "reschedule"
  /\ Record(req[r].b, req[r].seen, "PENDING")
  /\ Done(r)
  /\ UNCHANGED <<status, warranty, assignments>>

CommitReschedule(r) ==
  /\ req[r].op = "reschedule"
  /\ Record(req[r].b, req[r].seen, req[r].seen)
  /\ Done(r)
  /\ UNCHANGED <<status, warranty, assignments>>

\* cancel: customers and technicians only early, an admin along any edge that
\* leads to CANCELLED.  The decline route of bookings.controller is this too.
BeginCancel(r, actor, b) ==
  /\ requireAccessible(actor, b)
  /\ actor # "ADMIN" => status[b] \in CANCELLABLE_BY_CUSTOMER
  /\ isTransitionAllowed(status[b], "CANCELLED")
  /\ Hold(r, [op |-> "status", b |-> b, seen |-> status[b], next |-> "CANCELLED"])

\* changeStatus: the route admits technicians and admins.  The accept route of
\* bookings.controller and the complete route of the mobile API end here.
BeginChangeStatus(r, actor, b, next) ==
  /\ actor # "CUSTOMER"
  /\ requireAccessible(actor, b)
  /\ actor \in Technicians => next \in TECHNICIAN_SETTABLE
  /\ isTransitionAllowed(status[b], next)
  /\ Hold(r, [op |-> "status", b |-> b, seen |-> status[b], next |-> next])

\* The transaction of cancel and changeStatus, with the warranty upsert.
CommitStatus(r) ==
  /\ req[r].op = "status"
  /\ transition(req[r].b, req[r].seen, req[r].next)
  /\ warranty' = IF req[r].next = "COMPLETED"
                 THEN warranty \cup ({req[r].b} \cap Warranted) ELSE warranty
  /\ Done(r)
  /\ UNCHANGED assignments

\* LocationService.checkIn and checkOut: the assigned technician's GPS moves the
\* booking to ARRIVED or COMPLETED through the same state machine.
BeginGps(r, t, b, next) ==
  /\ requireAccessible(t, b)
  /\ isTransitionAllowed(status[b], next)
  /\ Hold(r, [op |-> "gps", b |-> b, seen |-> status[b], next |-> next])

\* Unlike changeStatus, check-out does not create the warranty.
CommitGps(r) ==
  /\ req[r].op = "gps"
  /\ transition(req[r].b, req[r].seen, req[r].next)
  /\ Done(r)
  /\ UNCHANGED <<warranty, assignments>>

BeginBackfillOfAny(r, b) ==
  /\ b \in Warranted \ warranty
  /\ Hold(r, [op |-> "backfill", b |-> b])

\* WarrantiesService.backfillMissingWarranties, run when a customer lists
\* warranties: finds completed bookings without one, then upserts each.
BeginBackfill(r, b) ==
  /\ status[b] = "COMPLETED"
  /\ b \in Warranted \ warranty
  /\ Hold(r, [op |-> "backfill", b |-> b])

CommitBackfill(r) ==
  /\ req[r].op = "backfill"
  /\ warranty' = warranty \cup {req[r].b}
  /\ Done(r)
  /\ UNCHANGED <<status, history, assignments>>

-----------------------------------------------------------------------------
(* TechnicianAssignmentService.                                            *)

BeginAssignUnguarded(r, b, t) ==
  /\ status[b] # "NONE"
  /\ Hold(r, [op |-> "assign", b |-> b, tech |-> t])

\* assign: the booking exists and has no live assignment.  Its status is read
\* and not looked at.
BeginAssign(r, b, t) ==
  /\ status[b] # "NONE"
  /\ ActiveRows(b) = {}
  /\ Hold(r, [op |-> "assign", b |-> b, tech |-> t])

CommitAssign(r) ==
  /\ req[r].op = "assign"
  /\ Len(assignments) < MaxAssignments
  /\ assignments' = Append(assignments, RowFor(req[r].b, req[r].tech))
  /\ Done(r)
  /\ UNCHANGED <<status, history, warranty>>

\* reassign: only a live assignment, from which the move to REASSIGNED is allowed.
BeginReassign(r, i, t) ==
  /\ assignments[i].status \in ACTIVE_ASSIGNMENT_STATUSES
  /\ isAssignmentTransitionAllowed(assignments[i].status, "REASSIGNED")
  /\ Hold(r, [op |-> "reassign", a |-> i, tech |-> t])

CommitReassignWithoutClosing(r) ==
  /\ req[r].op = "reassign"
  /\ Len(assignments) < MaxAssignments
  /\ assignments' = Append(assignments, RowFor(assignments[req[r].a].booking, req[r].tech))
  /\ Done(r)
  /\ UNCHANGED <<status, history, warranty>>

CommitReassignWithoutSuccessor(r) ==
  /\ req[r].op = "reassign"
  /\ assignments' = RowSetTo(req[r].a, "REASSIGNED")
  /\ Done(r)
  /\ UNCHANGED <<status, history, warranty>>

\* One transaction closes the old row and opens the new one.
CommitReassign(r) ==
  LET i == req[r].a IN
  /\ req[r].op = "reassign"
  /\ Len(assignments) < MaxAssignments
  /\ assignments' = Append(RowSetTo(i, "REASSIGNED"),
                           RowFor(assignments[i].booking, req[r].tech))
  /\ Done(r)
  /\ UNCHANGED <<status, history, warranty>>

\* accept reads the assignment together with its booking's status.
BeginAccept(r, i) ==
  /\ isAssignmentTransitionAllowed(assignments[i].status, "ACCEPTED")
  /\ Hold(r, [op |-> "accept", a |-> i, seen |-> status[assignments[i].booking]])

CommitAcceptWithoutConfirming(r) ==
  /\ req[r].op = "accept"
  /\ assignments' = RowSetTo(req[r].a, "ACCEPTED")
  /\ Done(r)
  /\ UNCHANGED <<status, history, warranty>>

\* Accepting confirms the booking if it was still pending when it was read.
CommitAccept(r) ==
  /\ req[r].op = "accept"
  /\ assignments' = RowSetTo(req[r].a, "ACCEPTED")
  /\ \/ /\ req[r].seen = "PENDING"
        /\ transition(assignments[req[r].a].booking, "PENDING", "CONFIRMED")
     \/ /\ req[r].seen # "PENDING"
        /\ UNCHANGED <<status, history>>
  /\ Done(r)
  /\ UNCHANGED warranty

\* reject (technician) and cancel (admin) of an assignment.
BeginRelease(r, i, op, to) ==
  /\ <<op, to>> \in {<<"reject", "DECLINED">>, <<"unassign", "CANCELLED">>}
  /\ isAssignmentTransitionAllowed(assignments[i].status, to)
  /\ Hold(r, [op |-> op, a |-> i])

CommitRelease(r) ==
  /\ req[r].op \in {"reject", "unassign"}
  /\ assignments' = RowSetTo(req[r].a, IF req[r].op = "reject" THEN "DECLINED" ELSE "CANCELLED")
  /\ Done(r)
  /\ UNCHANGED <<status, history, warranty>>

\* The process or the client goes away between the reads and the transaction,
\* or the transaction fails: nothing was written.
Abandon(r) ==
  /\ req[r] # Idle
  /\ Done(r)
  /\ UNCHANGED <<status, history, warranty, assignments>>

-----------------------------------------------------------------------------
Begin(r) ==
  \/ \E actor \in Actors, b \in Recordable :
       \/ BeginReschedule(r, actor, b)
       \/ BeginCancel(r, actor, b)
       \/ \E next \in BookingStatus : BeginChangeStatus(r, actor, b, next)
  \/ \E t \in Technicians :
       \/ \E b \in Recordable, next \in {"ARRIVED", "COMPLETED"} : BeginGps(r, t, b, next)
       \/ \E b \in Bookings : BeginAssign(r, b, t)
  \/ \E b \in Bookings : BeginBackfill(r, b)
  \/ \E i \in DOMAIN assignments :
       \/ \E t \in Technicians : BeginReassign(r, i, t)
       \/ BeginAccept(r, i)
       \/ BeginRelease(r, i, "reject", "DECLINED")
       \/ BeginRelease(r, i, "unassign", "CANCELLED")

Commit(r) ==
  \/ CommitReschedule(r) \/ CommitStatus(r) \/ CommitGps(r) \/ CommitBackfill(r)
  \/ CommitAssign(r) \/ CommitReassign(r) \/ CommitAccept(r) \/ CommitRelease(r)

Next ==
  \/ \E b \in Bookings : Create(b)
  \/ \E r \in Requests : Begin(r) \/ Commit(r) \/ Abandon(r)

Spec == Init /\ [][Next]_vars

-----------------------------------------------------------------------------
(* What holds however requests interleave.                                 *)

\* Every variable has its type: rows are rows, snapshots are snapshots, and a
\* snapshot names an assignment that exists (rows are never deleted).
TypeOK ==
  /\ status \in [Bookings -> BookingStatus \cup {"NONE"}]
  /\ history \in [Bookings -> Seq(HistoryRow)]
  /\ warranty \subseteq Warranted
  /\ assignments \in Seq(AssignmentRow)
  /\ req \in [Requests -> Request]
  /\ \A r \in Requests :
       req[r].op \in {"reassign", "accept", "reject", "unassign"} =>
         req[r].a \in DOMAIN assignments
  /\ raced \subseteq Bookings
  /\ contested \subseteq Bookings

\* The statuses a booking has had, according to its history.
Visited(b) == {history[b][i].new : i \in DOMAIN history[b]}

\* The audit trail has no unexplained origin: the previousStatus of every row
\* after the first was made current by an earlier row, although handlers write
\* the status they read and not the one they overwrite.
HistoryIsGrounded ==
  \A b \in Bookings : \A i \in DOMAIN history[b] :
    IF i = 1 THEN history[b][1].prev = "NONE"
    ELSE \E j \in 1..(i - 1) : history[b][j].new = history[b][i].prev

\* The status column agrees with the audit trail: it is what the last row that
\* moves the booking says (reschedule rows move nothing).
StatusMatchesHistory ==
  \A b \in Bookings :
    LET Moves == {i \in DOMAIN history[b] : history[b][i].prev # history[b][i].new}
    IN  IF Moves = {} THEN status[b] = "NONE"
        ELSE \E i \in Moves : /\ \A j \in Moves : j <= i
                              /\ status[b] = history[b][i].new

\* No stage is skipped, stale reads notwithstanding: a booking that was ever
\* completed had been confirmed, en route, arrived and in progress.
CompletionPassedEveryStage ==
  \A b \in Bookings :
    "COMPLETED" \in Visited(b) =>
      {"PENDING", "CONFIRMED", "EN_ROUTE", "ARRIVED", "IN_PROGRESS"} \subseteq Visited(b)

\* accept's promise survives every race: a technician who holds an accepted
\* assignment never sees its booking pending, even if accept found the booking
\* already moved on by somebody else and skipped the confirmation.
AcceptedIsNotPending ==
  \A i \in DOMAIN assignments :
    assignments[i].status = "ACCEPTED" => status[assignments[i].booking] # "PENDING"

\* A warranty is evidence of a completed visit, also when the backfill raced
\* with a status change.
WarrantyFollowsCompletion == \A b \in warranty : "COMPLETED" \in Visited(b)

\* A handover loses nobody: every assignment that was ever reassigned still has
\* a successor row on the same booking, created after it, whatever later stale
\* accept or reject overwrote either row.
HandoverHasSuccessor ==
  \A i \in DOMAIN assignments :
    assignments[i].status = "REASSIGNED" =>
      \E j \in DOMAIN assignments : j > i /\ assignments[j].booking = assignments[i].booking

-----------------------------------------------------------------------------
(* What an overlap costs.  Each promise below is lost only by a booking on  *)
(* which two requests that write the rows it is about have overlapped;     *)
(* requests on other bookings, or on its other rows, take nothing from it. *)

\* assign rejects a booking with a live assignment, reassign replaces it: a second one
\* takes two requests about assignments of that booking at once, and no overlap of an
\* assignment with status changes can bring it about.
OneActiveAssignment ==
  \A b \in Bookings \ contested : \A i, j \in ActiveRows(b) : i = j

\* Rows of the audit trail connect, each starting where the one before it ended, until two
\* requests that both read the status have overlapped on the booking.
HistoryIsChain ==
  \A b \in Bookings \ raced : \A i \in DOMAIN history[b] :
    i > 1 => history[b][i].prev = history[b][i - 1].new

\* A warranty is held by a booking that is completed now, unless a backfill, a completion
\* or a cancellation overlapped another request on that booking.
WarrantyMeansCompleted == \A b \in warranty \ raced : status[b] = "COMPLETED"

\* The booking API implements BookingPromise: the holders of a booking are the
\* technicians of its live assignments.
HoldersOf(b) == {assignments[i].tech : i \in ActiveRows(b)}

Promise == INSTANCE BookingPromise WITH holders <- [b \in Bookings |-> HoldersOf(b)]

\* However many requests are in flight, every step of a handler is a step the promise
\* allows or changes nothing it speaks of; an overlap costs the one booking its status
\* graph or its single holder, whichever the two requests were about, and not both.
KeepsPromise == Promise!Spec

-----------------------------------------------------------------------------
(* What the documentation claims and the code does not do.                 *)

\* booking-status.service says it "guards the graph itself": a booking's status
\* only moves along an edge.  It checks the edge from the status the caller read.
StatusFollowsGraph ==
  [][\A b \in Bookings :
       status'[b] # status[b] =>
         \/ status[b] = "NONE" /\ status'[b] = "PENDING"
         \/ isTransitionAllowed(status[b], status'[b])]_vars
=============================================================================
