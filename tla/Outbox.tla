------------------------------- MODULE Outbox -------------------------------
(***************************************************************************)
(* The technician app's offline outbox: job_workflow_controller and        *)
(* report_builder_controller try a request online and queue it when the    *)
(* network fails, offline_outbox keeps the queue, technician_providers and *)
(* app_startup flush it.  The server end is POST /bookings/:id/status and  *)
(* POST /bookings/:id/report.                                              *)
(*                                                                         *)
(* An action is known by its number, which is also the order of createdAt. *)
(* The app reads and writes the queue between two awaits of the network,   *)
(* so a read and the write after it without a request between are one      *)
(* step.  A request can fail before it arrives, arrive after the app gave  *)
(* up on it, or be served and have its answer lost.                        *)
(***************************************************************************)
EXTENDS BookingGraph, Naturals, FiniteSets

CONSTANTS
  Jobs,        \* bookings of this technician, accepted
  Starts,      \* the statuses the jobs may have at first
  Flushes,     \* calls of flush that may overlap
  MaxActions   \* bound: buttons pressed

ASSUME OutboxAssumption == MaxActions \in Nat /\ Starts \subseteq BookingStatus

VARIABLES
  status,      \* status of each booking row
  report,      \* its service report
  seen,        \* the status the app shows for the job
  act,         \* what each action asks for
  call,        \* the online attempt in progress
  outbox,      \* actions in SharedPreferences
  flush,       \* what each call of flush has still to send, and to keep
  late,        \* requests the app gave up on that may still arrive
  applied,     \* actions the server carried out
  acked,       \* actions the technician was told are done
  overlapped   \* actions queued while a flush was running (history variable)

server == <<status, report, applied>>
app == <<seen, act, call, acked>>
vars == <<status, report, seen, act, call, outbox, flush, late, applied, acked, overlapped>>

Ids == 1..MaxActions

ReportStates == {"NONE", "DRAFT", "SUBMITTED"}

Steps == {"EN_ROUTE", "ARRIVED", "IN_PROGRESS", "COMPLETED"}

Action == [job : Jobs, what : Steps \cup {"REPORT"}]

NoAction == [job |-> "none", what |-> "none"]

\* A request is with the network, answered with success, refused, or has failed.
Request == [id : Ids, at : {"sent", "ok", "refused", "failed"}]

NoRequest == [id |-> 0, at |-> "none"]

\* A flush: the list it read, less what it sent; the request it waits for.
Flush == [left : SUBSET Ids, id : Ids, at : {"sent", "ok", "refused", "failed"}]

NoFlush == [left |-> {}, id |-> 0, at |-> "none"]

Made == {i \in Ids : act[i] # NoAction}

Flushing == {f \in Flushes : flush[f] # NoFlush}

Init ==
  /\ status \in [Jobs -> Starts]
  /\ report = [j \in Jobs |-> "NONE"]
  /\ seen = status
  /\ act = [i \in Ids |-> NoAction]
  /\ call = NoRequest
  /\ outbox = {}
  /\ flush = [f \in Flushes |-> NoFlush]
  /\ late = {}
  /\ applied = {}
  /\ acked = {}
  /\ overlapped = {}

-----------------------------------------------------------------------------
(* The server.                                                             *)

\* changeStatus and its transition; submitReport when no report exists.
Accepts(i) ==
  IF act[i].what = "REPORT" THEN report[act[i].job] = "NONE"
  ELSE isTransitionAllowed(status[act[i].job], act[i].what)

Apply(i) ==
  /\ Accepts(i)
  /\ applied' = applied \cup {i}
  /\ IF act[i].what = "REPORT"
     THEN report' = [report EXCEPT ![act[i].job] = "SUBMITTED"] /\ UNCHANGED status
     ELSE status' = [status EXCEPT ![act[i].job] = act[i].what] /\ UNCHANGED report

\* submitReport creates, fills and submits in three commits: one that fails leaves
\* a draft behind.
ApplyHalf(i) ==
  /\ act[i].what = "REPORT" /\ Accepts(i)
  /\ report' = [report EXCEPT ![act[i].job] = "DRAFT"]
  /\ UNCHANGED <<status, applied>>

\* A request in the state `at` is served, or fails on its way.
Serve(i, at) ==
  \/ Apply(i) /\ at = "ok" /\ UNCHANGED late
  \/ ApplyHalf(i) /\ at = "refused" /\ UNCHANGED late
  \/ ~Accepts(i) /\ at = "refused" /\ UNCHANGED <<server, late>>

Fail(i) == late' \in {late, late \cup {i}} /\ UNCHANGED server

\* The office moves the booking along, or cancels it.
OfficeMoves(j, next) ==
  /\ isTransitionAllowed(status[j], next)
  /\ status' = [status EXCEPT ![j] = next]
  /\ UNCHANGED <<report, applied, app, outbox, flush, late, overlapped>>

ServeLate(i) ==
  /\ i \in late
  /\ late' = late \ {i}
  /\ Apply(i) \/ ApplyHalf(i) \/ (~Accepts(i) /\ UNCHANGED server)
  /\ UNCHANGED <<app, outbox, flush, overlapped>>

-----------------------------------------------------------------------------
(* The job screen.                                                         *)

NextStepsUnchecked(s) == Steps \cup {"REPORT"}

\* The one step each status leads to; the report can be sent at the last two.
NextSteps(s) ==
  CASE s = "CONFIRMED" -> {"EN_ROUTE"}
    [] s = "EN_ROUTE" -> {"ARRIVED"}
    [] s = "ARRIVED" -> {"IN_PROGRESS"}
    [] s \in {"IN_PROGRESS", "COMPLETED"} -> {"REPORT", "COMPLETED"}
    [] OTHER -> {}

Tap(j, what) ==
  /\ call = NoRequest
  /\ what \in NextSteps(seen[j])
  /\ \E i \in Ids \ Made :
       /\ \A k \in Ids \ Made : i <= k
       /\ act' = [act EXCEPT ![i] = [job |-> j, what |-> what]]
       /\ call' = [id |-> i, at |-> "sent"]
  /\ UNCHANGED <<server, seen, acked, outbox, flush, late, overlapped>>

CallServed ==
  /\ call.at = "sent"
  /\ \E at \in {"ok", "refused"} :
       Serve(call.id, at) /\ call' = [call EXCEPT !.at = at]
  /\ UNCHANGED <<seen, act, acked, outbox, flush, overlapped>>

\* A timeout or a lost connection, before or after the server answered.
CallFails ==
  /\ \/ call.at = "sent" /\ Fail(call.id)
     \/ call.at \in {"ok", "refused"} /\ UNCHANGED <<server, late>>
  /\ call' = [call EXCEPT !.at = "failed"]
  /\ UNCHANGED <<seen, act, acked, outbox, flush, overlapped>>

\* transition has the jobs fetched again, submit has not.
Invalidated(i) ==
  IF act[i].what = "REPORT" THEN seen ELSE [seen EXCEPT ![act[i].job] = "UNKNOWN"]

CallSucceeds ==
  /\ call.at = "ok"
  /\ acked' = acked \cup {call.id}
  /\ seen' = Invalidated(call.id)
  /\ call' = NoRequest
  /\ UNCHANGED <<server, act, outbox, flush, late, overlapped>>

\* Any other error is shown.
CallRefused ==
  /\ call.at = "refused"
  /\ call' = NoRequest
  /\ UNCHANGED <<server, seen, act, acked, outbox, flush, late, overlapped>>

\* A network error is queued and reported as success.
Enqueue ==
  /\ call.at = "failed"
  /\ outbox' = outbox \cup {call.id}
  /\ acked' = acked \cup {call.id}
  /\ overlapped' = IF Flushing = {} THEN overlapped ELSE overlapped \cup {call.id}
  /\ seen' = Invalidated(call.id)
  /\ call' = NoRequest
  /\ UNCHANGED <<server, act, flush, late>>

\* jobsProvider.
Refresh(j) ==
  /\ seen[j] # status[j]
  /\ seen' = [seen EXCEPT ![j] = status[j]]
  /\ UNCHANGED <<server, act, call, acked, outbox, flush, late, overlapped>>

-----------------------------------------------------------------------------
(* The queue.                                                              *)

First(i, s) == i \in s /\ \A k \in s : i <= k

\* Started by a connectivity event, at start-up and when the app is resumed;
\* nothing looks whether one is running.
BeginFlush(f) ==
  /\ flush[f] = NoFlush
  /\ \E i \in outbox :
       /\ First(i, outbox)
       /\ flush' = [flush EXCEPT ![f] = [left |-> outbox, id |-> i, at |-> "sent"]]
  /\ UNCHANGED <<server, app, outbox, late, overlapped>>

FlushServed(f) ==
  /\ flush[f].at = "sent"
  /\ \E at \in {"ok", "refused"} :
       Serve(flush[f].id, at) /\ flush' = [flush EXCEPT ![f].at = at]
  /\ UNCHANGED <<app, outbox, overlapped>>

FlushFails(f) ==
  /\ \/ flush[f].at = "sent" /\ Fail(flush[f].id)
     \/ flush[f].at \in {"ok", "refused"} /\ UNCHANGED <<server, late>>
  /\ flush' = [flush EXCEPT ![f].at = "failed"]
  /\ UNCHANGED <<app, outbox, overlapped>>

\* What is left of the list it read is written over the queue, and the next action
\* is sent.
FlushAdvances(f) ==
  LET left == flush[f].left \ {flush[f].id} IN
  /\ flush[f].at = "ok"
  /\ outbox' = left
  /\ \/ left = {} /\ flush' = [flush EXCEPT ![f] = NoFlush]
     \/ \E i \in left :
          First(i, left) /\ flush' = [flush EXCEPT ![f] = [left |-> left, id |-> i, at |-> "sent"]]
  /\ UNCHANGED <<server, app, late, overlapped>>

FlushDropsItsHead(f) ==
  /\ flush[f].at \in {"refused", "failed"}
  /\ flush' = [flush EXCEPT ![f] = NoFlush]
  /\ outbox' = outbox \ {flush[f].id}
  /\ UNCHANGED <<server, app, late, overlapped>>

FlushStopsWhenRefused(f) ==
  /\ flush[f].at = "refused"
  /\ flush' = [flush EXCEPT ![f] = NoFlush]
  /\ UNCHANGED <<server, app, outbox, late, overlapped>>

\* An error of any kind ends the flush: the queue keeps its order.
FlushStops(f) ==
  /\ flush[f].at \in {"refused", "failed"}
  /\ flush' = [flush EXCEPT ![f] = NoFlush]
  /\ UNCHANGED <<server, app, outbox, late, overlapped>>

\* The app is killed.  SharedPreferences survive, the screen's state does not.
Kill ==
  /\ call # NoRequest \/ Flushing # {}
  /\ late' = late \cup {i \in Ids : (call.id = i /\ call.at = "sent")
                            \/ \E f \in Flushes : flush[f].id = i /\ flush[f].at = "sent"}
  /\ call' = NoRequest
  /\ flush' = [f \in Flushes |-> NoFlush]
  /\ seen' = [j \in Jobs |-> "UNKNOWN"]
  /\ UNCHANGED <<server, act, acked, outbox, overlapped>>

-----------------------------------------------------------------------------
AppStep == CallServed \/ CallSucceeds \/ CallRefused \/ Enqueue

FlushStep(f) == FlushServed(f) \/ FlushAdvances(f) \/ FlushStops(f)

Next ==
  \/ \E j \in Jobs :
       \/ \E what \in Steps \cup {"REPORT"} : Tap(j, what)
       \/ \E next \in BookingStatus : OfficeMoves(j, next)
       \/ Refresh(j)
  \/ AppStep \/ CallFails \/ Kill
  \/ \E i \in Ids : ServeLate(i)
  \/ \E f \in Flushes : BeginFlush(f) \/ FlushStep(f) \/ FlushFails(f)

Spec == Init /\ [][Next]_vars

\* The server answers, the app goes on, and is opened or comes back online again and
\* again; no request fails every time.  Nothing is asked of the technician.
Fairness ==
  /\ WF_vars(AppStep)
  /\ \A f \in Flushes :
       /\ WF_vars(BeginFlush(f)) /\ WF_vars(FlushStops(f))
       /\ SF_vars(FlushServed(f)) /\ SF_vars(FlushAdvances(f))

FairSpec == Spec /\ Fairness

-----------------------------------------------------------------------------
(* Properties.                                                             *)

\* Every queue holds actions that were made, and a flush sends one of those it has.
TypeOK ==
  /\ status \in [Jobs -> BookingStatus]
  /\ report \in [Jobs -> ReportStates]
  /\ seen \in [Jobs -> BookingStatus \cup {"UNKNOWN"}]
  /\ act \in [Ids -> Action \cup {NoAction}]
  /\ call \in Request \cup {NoRequest} /\ (call # NoRequest => call.id \in Made)
  /\ flush \in [Flushes -> Flush \cup {NoFlush}]
  /\ \A f \in Flushing : flush[f].id \in flush[f].left /\ flush[f].left \subseteq Made
  /\ outbox \cup late \cup applied \cup acked \cup overlapped \subseteq Made

\* "Field actions that MUST NOT be lost": what the technician was told is done was
\* carried out by the server, or waits in the queue, or was queued while a flush was
\* running, whose last write forgets it.  No lost, late or repeated request and no
\* killed app loses anything.
LossNeedsAnOverlap == acked \subseteq applied \cup outbox \cup overlapped

Rank == [PENDING |-> 0, CONFIRMED |-> 1, EN_ROUTE |-> 2, ARRIVED |-> 3,
         IN_PROGRESS |-> 4, COMPLETED |-> 5, NO_SHOW |-> 6, CANCELLED |-> 6]

\* The queue never asks for a step the booking is not ready for: whatever was lost,
\* repeated or done by the office meanwhile, a refused step is one the booking has
\* been through, or one that the office closed it before.
RefusedIsPassed ==
  \A i \in outbox :
    act[i].what \in Steps => Accepts(i) \/ Rank[act[i].what] <= Rank[status[act[i].job]]

\* A queue is sent to its end, or its first action is one the server refuses.
QueueDrainsOrBlocks ==
  (outbox # {}) ~> (outbox = {} \/ \E i \in outbox : First(i, outbox) /\ ~Accepts(i))

-----------------------------------------------------------------------------
(* What the documentation claims and the code does not do.                 *)

\* offline_outbox: a "durable offline queue for field actions that MUST NOT be lost".
NothingLost == acked \subseteq applied \cup outbox
=============================================================================
