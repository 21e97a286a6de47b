------------------------------ MODULE Dispatch ------------------------------
(***************************************************************************)
(* The calendar: the window of a booking (bookings/availability.service),  *)
(* the slot's capacity, and the technicians' jobs                          *)
(* (technician-assignment/availability.service, workload.service and the   *)
(* assignment engine).                                                     *)
(*                                                                         *)
(* A capacity check counts rows, and a later transaction writes one more;  *)
(* in between other requests write theirs.  Begin... stands for the reads  *)
(* and the checks of a handler, Commit... for its transaction; a stale      *)
(* status or acceptance brings a booking or a row back to life.  Which     *)
(* statuses lead where is the subject of module Bookings.                  *)
(*                                                                         *)
(* Time is counted in units in which all windows begin and end.            *)
(***************************************************************************)
EXTENDS Integers, FiniteSets

CONSTANTS
  Bookings,             \* ids of the booking rows
  Technicians,          \* technician profiles
  Requests,             \* concurrent requests the API process serves
  Starts,               \* the starts asked for; they clear the lead time
  Durations,            \* estimated durations of the services
  DAY,                  \* units of a day
  WORKING_HOUR_START,   \* business hours, in units of the day
  WORKING_HOUR_END,
  SLOT_BUFFER,          \* added to every duration
  VISIT_DURATION,       \* of a subscription visit, which gets no buffer
  MAX_CONCURRENT_PER_SLOT,
  MAX_DAILY_JOBS,
  MaxLength,            \* bound: length of a window
  Rows                  \* bound: ids of the assignment rows there will ever be

ASSUME DispatchAssumption ==
  /\ DAY \in Nat \ {0}
  /\ Starts \subseteq Nat /\ Durations \subseteq Nat \ {0}
  /\ VISIT_DURATION \in Nat \ {0} /\ SLOT_BUFFER \in Nat
  /\ WORKING_HOUR_START \in 0..DAY /\ WORKING_HOUR_END \in 0..DAY
  /\ MAX_CONCURRENT_PER_SLOT \in Nat \ {0} /\ MAX_DAILY_JOBS \in Nat \ {0}
  /\ MaxLength \in Nat
  /\ VISIT_DURATION <= MaxLength
  /\ \A minutes \in Durations : minutes + SLOT_BUFFER <= MaxLength
  /\ IsFiniteSet(Requests) /\ IsFiniteSet(Bookings) /\ IsFiniteSet(Rows)

VARIABLES
  phase,       \* how far each booking is, as far as its window is concerned
  window,      \* scheduledWindowStart and -End of each booking
  needs,       \* what the service and its buffer take (history variable)
  waived,      \* bookings placed without a slot check (history variable)
  jobs,        \* the assignment rows
  available,   \* isAvailable of each technician profile
  req          \* what each request in flight has read and will write

vars == <<phase, window, needs, waived, jobs, available, req>>
calendar == <<phase, window, needs, waived>>

-----------------------------------------------------------------------------
(* Rows and snapshots.                                                     *)

\* ACTIVE: one of ACTIVE_STATUSES, PENDING to IN_PROGRESS.  DONE: COMPLETED or
\* CANCELLED.  The steps between the active statuses change no count here.
Phase == {"NONE", "ACTIVE", "DONE", "NO_SHOW"}

Window == {w \in [start : Starts, end : Nat] : w.end - w.start \in 1..MaxLength}

NoWindow == [start |-> 0, end |-> 0]

\* checked (history): the technician's calendar was looked at for the window the
\* booking still has, and no other request was in flight before the row was written.
Job == [b : Bookings, t : Technicians, checked : BOOLEAN]

\* DECLINED, REASSIGNED and CANCELLED rows: nothing reads what they say again.
Ended == [checked |-> FALSE]

Unused == [checked |-> TRUE]

Live == {i \in Rows : jobs[i] \notin {Unused, Ended}}

Idle == [op |-> "idle"]

Init ==
  /\ phase = [b \in Bookings |-> "NONE"]
  /\ window = [b \in Bookings |-> NoWindow]
  /\ needs = [b \in Bookings |-> 0]
  /\ waived = {}
  /\ jobs = [i \in Rows |-> Unused]
  /\ available = [t \in Technicians |-> TRUE]
  /\ req = [r \in Requests |-> Idle]

InFlight == {r \in Requests : req[r] # Idle}

Raced(s) == IF "checked" \in DOMAIN s THEN [s EXCEPT !.checked = FALSE] ELSE s

Hold(r, s) ==
  /\ req[r] = Idle
  /\ req' = [q \in Requests |-> IF q = r /\ InFlight = {} THEN s
                                ELSE Raced(IF q = r THEN s ELSE req[q])]
  /\ UNCHANGED <<calendar, jobs, available>>

Done(r) == req' = [req EXCEPT ![r] = Idle]

-----------------------------------------------------------------------------
(* Windows and slots.                                                      *)

overlap(v, w) == v.start < w.end /\ v.end > w.start

\* resolveWindow: the hours are looked at without their day.
insideBusinessHours(w) ==
  /\ w.start % DAY >= WORKING_HOUR_START
  /\ w.end % DAY <= WORKING_HOUR_END

resolveWindowWithoutBuffer(start, minutes) == [start |-> start, end |-> start + minutes]

resolveWindow(start, minutes) == [start |-> start, end |-> start + minutes + SLOT_BUFFER]

slotIsFreeOffByOne(w, exclude) ==
  Cardinality({b \in Bookings \ exclude :
                 phase[b] = "ACTIVE" /\ overlap(window[b], w)}) <= MAX_CONCURRENT_PER_SLOT

\* assertSlotAvailable.
slotIsFree(w, exclude) ==
  Cardinality({b \in Bookings \ exclude :
                 phase[b] = "ACTIVE" /\ overlap(window[b], w)}) < MAX_CONCURRENT_PER_SLOT

\* create: an admin's booking skips business hours and the slot.
BeginCreate(r, b, start, minutes, admin) ==
  LET w == resolveWindow(start, minutes) IN
  /\ phase[b] = "NONE"
  /\ \A q \in Requests : req[q].op = "create" => req[q].b # b
  /\ admin \/ (insideBusinessHours(w) /\ slotIsFree(w, {}))
  /\ Hold(r, [op |-> "create", b |-> b, window |-> w, needs |-> minutes + SLOT_BUFFER,
              waived |-> admin])

CommitCreate(r) ==
  LET s == req[r] IN
  /\ s.op = "create"
  /\ phase' = [phase EXCEPT ![s.b] = "ACTIVE"]
  /\ window' = [window EXCEPT ![s.b] = s.window]
  /\ needs' = [needs EXCEPT ![s.b] = s.needs]
  /\ waived' = IF s.waived THEN waived \cup {s.b} ELSE waived
  /\ Done(r)
  /\ UNCHANGED <<jobs, available>>

\* RecurringBookingService.generateVisit asks for no slot at all.
GenerateVisit(b, start) ==
  /\ phase[b] = "NONE"
  /\ \A q \in Requests : req[q].op = "create" => req[q].b # b
  /\ phase' = [phase EXCEPT ![b] = "ACTIVE"]
  /\ window' = [window EXCEPT ![b] = [start |-> start, end |-> start + VISIT_DURATION]]
  /\ needs' = [needs EXCEPT ![b] = VISIT_DURATION]
  /\ waived' = waived \cup {b}
  /\ UNCHANGED <<jobs, available, req>>

\* reschedule takes the length of the window it reads for the duration, so every
\* time the window grows by the buffer.  Customers may do so early only, an admin in
\* every phase.
BeginReschedule(r, b, start) ==
  LET w == resolveWindow(start, window[b].end - window[b].start) IN
  /\ phase[b] # "NONE"
  /\ w.end - w.start <= MaxLength
  /\ insideBusinessHours(w)
  /\ slotIsFree(w, {b})
  /\ Hold(r, [op |-> "reschedule", b |-> b, window |-> w])

\* What was checked for the window that b had no longer counts as checked.
Outdated(x, b) ==
  IF "t" \in DOMAIN x /\ x.b = b THEN [x EXCEPT !.checked = FALSE] ELSE x

CommitReschedule(r) ==
  LET s == req[r] IN
  /\ s.op = "reschedule"
  /\ window' = [window EXCEPT ![s.b] = s.window]
  /\ waived' = waived \ {s.b}
  /\ jobs' = [i \in Rows |-> Outdated(jobs[i], s.b)]
  /\ req' = [q \in Requests |-> IF q = r THEN Idle ELSE Outdated(req[q], s.b)]
  /\ UNCHANGED <<phase, needs, available>>

\* transition: a status read as active is followed by another one, whatever the
\* row says by then.
BeginStatus(r, b, next) ==
  /\ phase[b] = "ACTIVE"
  /\ next # "NONE"
  /\ Hold(r, [op |-> "status", b |-> b, next |-> next])

CommitStatus(r) ==
  /\ req[r].op = "status"
  /\ phase' = [phase EXCEPT ![req[r].b] = req[r].next]
  /\ Done(r)
  /\ UNCHANGED <<window, needs, waived, jobs, available>>

-----------------------------------------------------------------------------
(* Technicians.                                                            *)

\* setOwnAvailability, and the punches of attendance.service.
SetAvailability(t, is) ==
  /\ available[t] # is
  /\ available' = [available EXCEPT ![t] = is]
  /\ UNCHANGED <<calendar, jobs, req>>

\* The jobs of t that workload and conflicts are counted over: a NO_SHOW booking
\* still holds its technician.
OpenJobs(t) ==
  {i \in Live : jobs[i].t = t /\ phase[jobs[i].b] # "DONE"}

hasConflictOfLater(t, w) ==
  \E i \in OpenJobs(t) : overlap(window[jobs[i].b], w) /\ window[jobs[i].b].start >= w.start

hasConflict(t, w) == \E i \in OpenJobs(t) : overlap(window[jobs[i].b], w)

hasDailyCapacityOffByOne(t, w) ==
  Cardinality({i \in OpenJobs(t) : window[jobs[i].b].start \div DAY = w.start \div DAY})
    <= MAX_DAILY_JOBS

hasDailyCapacity(t, w) ==
  Cardinality({i \in OpenJobs(t) : window[jobs[i].b].start \div DAY = w.start \div DAY})
    < MAX_DAILY_JOBS

hasRoom(t, w) == ~hasConflict(t, w) /\ hasDailyCapacity(t, w)

\* rankCandidates filters by room alone; the ranking may put any candidate first.
\* assertAvailable asks for room and availability, unless overridden.
mayTake(t, w, auto, override) ==
  /\ auto => hasRoom(t, w)
  /\ ~override => available[t] /\ hasRoom(t, w)

\* assign reads the booking in whatever phase, but refuses a second live row.
BeginAssign(r, b, t, auto, override) ==
  /\ phase[b] # "NONE"
  /\ \A i \in Live : jobs[i].b # b
  /\ mayTake(t, window[b], auto, override)
  /\ Hold(r, [op |-> "assign", b |-> b, t |-> t, checked |-> auto \/ ~override])

\* reassign; the engine leaves out the technician who has the job.
BeginReassign(r, i, t, auto, override) ==
  /\ i \in Live
  /\ auto => t # jobs[i].t
  /\ mayTake(t, window[jobs[i].b], auto, override)
  /\ Hold(r, [op |-> "reassign", i |-> i, b |-> jobs[i].b, t |-> t,
              checked |-> auto \/ ~override])

NewJob(s) == [b |-> s.b, t |-> s.t, checked |-> s.checked]

CommitAssign(r) ==
  LET s == req[r] IN
  /\ s.op = "assign"
  /\ \E i \in Rows : jobs[i] = Unused /\ jobs' = [jobs EXCEPT ![i] = NewJob(s)]
  /\ Done(r)
  /\ UNCHANGED <<calendar, available>>

CommitReassign(r) ==
  LET s == req[r] IN
  /\ s.op = "reassign"
  /\ \E i \in Rows :
       jobs[i] = Unused /\ jobs' = [jobs EXCEPT ![s.i] = Ended, ![i] = NewJob(s)]
  /\ Done(r)
  /\ UNCHANGED <<calendar, available>>

\* accept confirms a booking that was pending when it was read.  ASSIGNED and ACCEPTED
\* rows are not told apart: both are live.
BeginAccept(r, i, pending) ==
  /\ i \in Live
  /\ pending => phase[jobs[i].b] = "ACTIVE"
  /\ Hold(r, [op |-> "accept", i |-> i, pending |-> pending, b |-> jobs[i].b,
              t |-> jobs[i].t, checked |-> jobs[i].checked])

CommitAccept(r) ==
  LET s == req[r] IN
  /\ s.op = "accept"
  /\ jobs' = [jobs EXCEPT ![s.i] = NewJob(s)]
  /\ phase' = IF s.pending THEN [phase EXCEPT ![s.b] = "ACTIVE"] ELSE phase
  /\ Done(r)
  /\ UNCHANGED <<window, needs, waived, available>>

\* reject, and cancel of an assignment: late or not, the row ends.
Release(i) ==
  /\ i \in Live
  /\ jobs' = [jobs EXCEPT ![i] = Ended]
  /\ UNCHANGED <<calendar, available, req>>

Abandon(r) ==
  /\ req[r] # Idle
  /\ Done(r)
  /\ UNCHANGED <<calendar, jobs, available>>

-----------------------------------------------------------------------------
Begin(r) ==
  \/ \E b \in Bookings, start \in Starts :
       \/ \E minutes \in Durations, admin \in BOOLEAN :
            BeginCreate(r, b, start, minutes, admin)
       \/ BeginReschedule(r, b, start)
  \/ \E b \in Bookings, next \in Phase : BeginStatus(r, b, next)
  \/ \E i \in Rows, pending \in BOOLEAN : BeginAccept(r, i, pending)
  \/ \E t \in Technicians, auto, override \in BOOLEAN :
       \/ \E b \in Bookings : BeginAssign(r, b, t, auto, override)
       \/ \E i \in Rows : BeginReassign(r, i, t, auto, override)

Commit(r) ==
  \/ CommitCreate(r) \/ CommitReschedule(r) \/ CommitStatus(r)
  \/ CommitAssign(r) \/ CommitReassign(r) \/ CommitAccept(r)

Next ==
  \/ \E b \in Bookings, start \in Starts : GenerateVisit(b, start)
  \/ \E t \in Technicians, is \in BOOLEAN : SetAvailability(t, is)
  \/ \E i \in Rows : Release(i)
  \/ \E r \in Requests : Begin(r) \/ Commit(r) \/ Abandon(r)

Spec == Init /\ [][Next]_vars

-----------------------------------------------------------------------------
(* Properties.                                                             *)

Overlapping == Cardinality(Requests) - 1   \* the checks that may be stale at a commit

Hours == UNION {start..(start + MaxLength - 1) : start \in Starts}

Checked(t) == {i \in OpenJobs(t) : jobs[i].checked}

during(h, w) == w.start <= h /\ h < w.end

\* Every booking that exists has a window, every job its booking and technician.
TypeOK ==
  /\ phase \in [Bookings -> Phase]
  /\ \A b \in Bookings : phase[b] # "NONE" => window[b] \in Window /\ needs[b] > 0
  /\ waived \subseteq Bookings
  /\ jobs \in [Rows -> Job \cup {Unused, Ended}]
  /\ \A i \in Live : phase[jobs[i].b] # "NONE"
  /\ available \in [Technicians -> BOOLEAN]

\* The slot check is not atomic with the insert, and is still worth something:
\* at no hour are there more checked bookings than the slot's capacity and one
\* more for every other request that may be between check and commit.  With one
\* request at a time the capacity is kept exactly.
OverbookingIsBounded ==
  \A h \in Hours :
    Cardinality({b \in Bookings \ waived : phase[b] = "ACTIVE" /\ during(h, window[b])})
      <= MAX_CONCURRENT_PER_SLOT + Overlapping

\* A technician is in two places at once only where requests overlapped, a check
\* was overridden, or a window moved under the assignment.
DoubleBookingNeedsARace ==
  \A t \in Technicians : \A i, j \in Checked(t) :
    overlap(window[jobs[i].b], window[jobs[j].b]) => jobs[i].b = jobs[j].b

\* And so is the daily limit exceeded only then.
OverloadNeedsARace ==
  \A t \in Technicians, d \in {h \div DAY : h \in Hours} :
    Cardinality({i \in Checked(t) : window[jobs[i].b].start \div DAY = d}) <= MAX_DAILY_JOBS

\* No sequence of reschedules, stale or not, leaves less time than the service
\* and its buffer take (reschedule derives the duration from the window it reads).
WindowFitsService ==
  \A b \in Bookings :
    phase[b] # "NONE" => window[b].end - window[b].start >= needs[b]

-----------------------------------------------------------------------------
(* What the documentation claims and the code does not do.                 *)

\* SCHEDULING: "window must END by this hour".  A window that was not waived ends
\* in the business hours of the day it starts in.
EndsByClosingTime ==
  \A b \in Bookings \ waived :
    phase[b] # "NONE" =>
      window[b].end <= (window[b].start \div DAY) * DAY + WORKING_HOUR_END
=============================================================================
