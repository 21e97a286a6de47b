---------------------------- MODULE OutboxProofs ----------------------------
(***************************************************************************)
(* Proofs about Outbox, for any jobs, any number of overlapping flushes    *)
(* and of buttons pressed.                                                 *)
(***************************************************************************)
EXTENDS Outbox, TLAPS

-----------------------------------------------------------------------------
(* The inductive invariant.                                                *)

\* An answer of success means that the server has carried the action out.
AnswerInv ==
  /\ call.at = "ok" => call.id \in applied
  /\ \A f \in Flushes : flush[f].at = "ok" => flush[f].id \in applied

\* Whatever a flush will write back holds all that must not be forgotten.
KeptInv ==
  \A f \in Flushing : acked \subseteq applied \cup flush[f].left \cup overlapped

\* The screen is never ahead of the booking.
SeenInv ==
  \A j \in Jobs :
    \/ seen[j] = "UNKNOWN"
    \/ seen[j] = status[j]
    \/ Rank[seen[j]] < Rank[status[j]]

Ready(what, s) == isTransitionAllowed(s, what) \/ Rank[what] <= Rank[s]

\* No step was asked for too early, whether it waits, is on its way or is done.
ReadyInv ==
  \A i \in Made : act[i].what \in Steps => Ready(act[i].what, status[act[i].job])

Inv ==
  /\ TypeOK
  /\ AnswerInv
  /\ KeptInv
  /\ LossNeedsAnOverlap
  /\ SeenInv
  /\ ReadyInv

-----------------------------------------------------------------------------
(* Lemmas.                                                                 *)

\* A booking's rank grows with every edge of its graph.
LEMMA RankGrows ==
  ASSUME NEW s \in BookingStatus, NEW t \in BookingStatus, isTransitionAllowed(s, t)
  PROVE  Rank[s] < Rank[t]
BY DEF BookingStatus, isTransitionAllowed, BOOKING_TRANSITIONS, Rank

LEMMA RankType == \A s \in BookingStatus : Rank[s] \in Nat
BY DEF BookingStatus, Rank

\* A step that is due, or has been passed, stays so whichever way the booking goes.
LEMMA ReadyStays ==
  ASSUME NEW s \in BookingStatus, NEW t \in BookingStatus, isTransitionAllowed(s, t),
         NEW what \in Steps, Ready(what, s)
  PROVE  Ready(what, t)
BY DEF BookingStatus, isTransitionAllowed, BOOKING_TRANSITIONS, Rank, Ready, Steps

\* The step the screen offers is due when the screen is right, and passed when it is late.
LEMMA OfferedIsReady ==
  ASSUME NEW s \in BookingStatus, NEW t \in BookingStatus, s = t \/ Rank[s] < Rank[t],
         NEW what \in NextSteps(s) \cap Steps
  PROVE  Ready(what, t)
BY DEF BookingStatus, isTransitionAllowed, BOOKING_TRANSITIONS, Rank, Ready, Steps, NextSteps

\* Requests and flushes are told from their absence by their state.
LEMMA Present ==
  /\ \A c \in Request : c.at \in {"sent", "ok", "refused", "failed"} /\ c.id \in Ids
  /\ NoRequest.at = "none" /\ NoRequest.id = 0 /\ NoFlush.at = "none" /\ NoFlush.id = 0
  /\ \A c \in Flush :
       c.at \in {"sent", "ok", "refused", "failed"} /\ c.id \in Ids /\ c.left \in SUBSET Ids
BY DEF Request, NoRequest, Flush, NoFlush

\* An action is made or not yet; those made name a job and a step or the report.
LEMMA MadeType ==
  ASSUME TypeOK, NEW i \in Made
  PROVE  i \in Ids /\ act[i].job \in Jobs /\ act[i].what \in Steps \cup {"REPORT"}
BY DEF TypeOK, Made, Action, NoAction

\* What serving a request may do to the booking: nothing, or a step of its graph that the
\* request asked for; to the report, what the schema has; and the request is marked as
\* carried out when it answers with success.
Served(i, ok) ==
  /\ status' \in [Jobs -> BookingStatus]
  /\ report' \in [Jobs -> ReportStates]
  /\ \A j \in Jobs : status'[j] = status[j] \/ isTransitionAllowed(status[j], status'[j])
  /\ applied' \in {applied, applied \cup {i}}
  /\ ok => i \in applied'

LEMMA ApplyServes ==
  ASSUME TypeOK, NEW i \in Made, Apply(i)
  PROVE  Served(i, TRUE)
<1>1. act[i].job \in Jobs /\ act[i].what \in Steps \cup {"REPORT"}
  BY MadeType
<1>2. CASE act[i].what = "REPORT"
  BY <1>1, <1>2 DEF Apply, Served, TypeOK, ReportStates
<1>3. CASE act[i].what # "REPORT"
  <2>1. act[i].what \in BookingStatus
    BY <1>1, <1>3 DEF Steps, BookingStatus
  <2>2. status' = [status EXCEPT ![act[i].job] = act[i].what] /\ UNCHANGED report
        /\ isTransitionAllowed(status[act[i].job], act[i].what) /\ applied' = applied \cup {i}
    BY <1>3 DEF Apply, Accepts
  <2> QED
    BY <1>1, <2>1, <2>2 DEF Served, TypeOK
<1> QED
  BY <1>2, <1>3

LEMMA ApplyHalfServes ==
  ASSUME TypeOK, NEW i \in Made, ApplyHalf(i)
  PROVE  Served(i, FALSE)
BY MadeType DEF ApplyHalf, Served, TypeOK, ReportStates

LEMMA ServeServes ==
  ASSUME TypeOK, NEW i \in Made, NEW at, Serve(i, at)
  PROVE  Served(i, at = "ok") /\ UNCHANGED late
<1>1. CASE Apply(i) /\ UNCHANGED late
  BY <1>1, ApplyServes DEF Served
<1>2. CASE ApplyHalf(i) /\ at = "refused" /\ UNCHANGED late
  BY <1>2, ApplyHalfServes DEF Served
<1>3. CASE at = "refused" /\ UNCHANGED <<server, late>>
  BY <1>3 DEF Served, server, TypeOK
<1> QED
  BY <1>1, <1>2, <1>3 DEF Serve

\* A step of the booking along its graph keeps the screen behind it and every step ready.
LEMMA BookingMoves ==
  ASSUME TypeOK, SeenInv, ReadyInv, UNCHANGED <<seen, act>>,
         status' \in [Jobs -> BookingStatus],
         \A j \in Jobs : status'[j] = status[j] \/ isTransitionAllowed(status[j], status'[j])
  PROVE  SeenInv' /\ ReadyInv'
<1>1. SeenInv'
  <2> SUFFICES ASSUME NEW j \in Jobs, seen[j] # "UNKNOWN", seen[j] # status'[j]
               PROVE  Rank[seen[j]] < Rank[status'[j]]
    BY DEF SeenInv
  <2>1. seen[j] \in BookingStatus /\ status[j] \in BookingStatus /\ status'[j] \in BookingStatus
    BY DEF TypeOK
  <2>2. Rank[seen[j]] \in Nat /\ Rank[status[j]] \in Nat /\ Rank[status'[j]] \in Nat
    BY <2>1, RankType
  <2>3. seen[j] = status[j] \/ Rank[seen[j]] < Rank[status[j]]
    BY DEF SeenInv
  <2>4. status'[j] = status[j] \/ Rank[status[j]] < Rank[status'[j]]
    BY <2>1, RankGrows
  <2> QED
    BY <2>2, <2>3, <2>4
<1>2. ReadyInv'
  <2>1. Made' = Made
    BY DEF Made
  <2> SUFFICES ASSUME NEW i \in Made, act[i].what \in Steps
               PROVE  Ready(act[i].what, status'[act[i].job])
    BY <2>1 DEF ReadyInv
  <2>2. act[i].job \in Jobs
    BY MadeType
  <2>3. Ready(act[i].what, status[act[i].job])
    BY DEF ReadyInv
  <2> QED
    BY <2>2, <2>3, ReadyStays DEF TypeOK
<1> QED
  BY <1>1, <1>2

-----------------------------------------------------------------------------
(* Every step preserves the invariant.                                     *)

\* A request of the screen or of a flush is served or fails: the parts of the invariant
\* about the booking hold, and what the server has carried out only grows.
LEMMA AfterServing ==
  ASSUME Inv, NEW i \in Made, NEW ok \in BOOLEAN, Served(i, ok), UNCHANGED <<seen, act>>
  PROVE  /\ SeenInv' /\ ReadyInv'
         /\ applied \subseteq applied' /\ applied' \subseteq Made
         /\ Made' = Made
BY BookingMoves DEF Inv, Served, TypeOK, Made

LEMMA InitInv == Init => Inv
<1> SUFFICES ASSUME Init
             PROVE  Inv
  OBVIOUS
<1> USE OutboxAssumption DEF Init
<1>1. Flushing = {} /\ Made = {}
  BY DEF Flushing, Made, NoFlush
<1>2. TypeOK
  BY <1>1 DEF TypeOK, ReportStates
<1>3. AnswerInv
  BY DEF AnswerInv, NoRequest, NoFlush
<1>4. KeptInv /\ LossNeedsAnOverlap /\ SeenInv /\ ReadyInv
  BY <1>1 DEF KeptInv, LossNeedsAnOverlap, SeenInv, ReadyInv
<1> QED
  BY <1>2, <1>3, <1>4 DEF Inv

LEMMA OfficeStep ==
  ASSUME Inv, NEW j \in Jobs, NEW next \in BookingStatus, OfficeMoves(j, next)
  PROVE  Inv'
<1> USE DEF Inv
<1>1. /\ isTransitionAllowed(status[j], next)
      /\ status' = [status EXCEPT ![j] = next]
      /\ UNCHANGED <<report, applied, seen, act, call, acked, outbox, flush, late, overlapped>>
  BY DEF OfficeMoves, app
<1>2. /\ status' \in [Jobs -> BookingStatus]
      /\ \A k \in Jobs : status'[k] = status[k] \/ isTransitionAllowed(status[k], status'[k])
  BY <1>1 DEF TypeOK
<1>3. SeenInv' /\ ReadyInv'
  BY <1>1, <1>2, BookingMoves
<1>4. TypeOK'
  BY <1>1, <1>2 DEF TypeOK, Made, Flushing
<1>5. AnswerInv' /\ KeptInv' /\ LossNeedsAnOverlap'
  BY <1>1 DEF AnswerInv, KeptInv, LossNeedsAnOverlap, Flushing
<1> QED
  BY <1>3, <1>4, <1>5

LEMMA ServeLateStep ==
  ASSUME Inv, NEW i \in Ids, ServeLate(i)
  PROVE  Inv'
<1> USE DEF Inv
<1>1. /\ i \in Made /\ late' = late \ {i}
      /\ UNCHANGED <<seen, act, call, acked, outbox, flush, overlapped>>
  BY DEF ServeLate, app, TypeOK
<1>2. Served(i, FALSE)
  <2>1. CASE Apply(i)
    BY <1>1, <2>1, ApplyServes DEF Served
  <2>2. CASE ApplyHalf(i)
    BY <1>1, <2>2, ApplyHalfServes
  <2>3. CASE UNCHANGED server
    BY <2>3 DEF Served, server, TypeOK
  <2> QED
    BY <2>1, <2>2, <2>3 DEF ServeLate
<1>3. /\ SeenInv' /\ ReadyInv' /\ Made' = Made
      /\ applied \subseteq applied' /\ applied' \subseteq Made
  BY <1>1, <1>2, AfterServing
<1>4. TypeOK'
  BY <1>1, <1>2, <1>3 DEF TypeOK, Served, Flushing
<1>5. AnswerInv' /\ KeptInv' /\ LossNeedsAnOverlap'
  BY <1>1, <1>3 DEF AnswerInv, KeptInv, LossNeedsAnOverlap, Flushing
<1> QED
  BY <1>3, <1>4, <1>5

LEMMA TapStep ==
  ASSUME Inv, NEW j \in Jobs, NEW what \in Steps \cup {"REPORT"}, Tap(j, what)
  PROVE  Inv'
<1> USE DEF Inv
<1>1. PICK i \in Ids \ Made :
        /\ act' = [act EXCEPT ![i] = [job |-> j, what |-> what]]
        /\ call' = [id |-> i, at |-> "sent"]
  BY DEF Tap
<1>2. UNCHANGED <<status, report, applied, seen, acked, outbox, flush, late, overlapped>>
  BY DEF Tap, server
<1>3. act' \in [Ids -> Action \cup {NoAction}] /\ Made' = Made \cup {i}
  <2>1. [job |-> j, what |-> what] \in Action /\ [job |-> j, what |-> what] # NoAction
    BY DEF Action, NoAction, Steps
  <2> QED
    BY <1>1, <2>1 DEF TypeOK, Made
<1>4. TypeOK'
  <2>1. call' \in Request /\ call'.id = i
    BY <1>1 DEF Request
  <2>2. \A f \in Flushing' : flush'[f].id \in flush'[f].left /\ flush'[f].left \subseteq Made'
    BY <1>2, <1>3 DEF TypeOK, Flushing
  <2> QED
    BY <1>2, <1>3, <2>1, <2>2 DEF TypeOK
<1>5. AnswerInv' /\ KeptInv' /\ LossNeedsAnOverlap' /\ SeenInv'
  BY <1>1, <1>2 DEF AnswerInv, KeptInv, LossNeedsAnOverlap, SeenInv, Flushing
<1>6. ReadyInv'
  <2> SUFFICES ASSUME NEW k \in Made', act'[k].what \in Steps
               PROVE  Ready(act'[k].what, status[act'[k].job])
    BY <1>2 DEF ReadyInv
  <2>1. CASE k # i
    BY <1>1, <1>3, <2>1 DEF ReadyInv, TypeOK
  <2>2. CASE k = i
    <3>1. act'[k].job = j /\ act'[k].what = what /\ what \in NextSteps(seen[j])
      BY <1>1, <2>2 DEF TypeOK, Tap
    <3>2. seen[j] # "UNKNOWN"
      BY <3>1 DEF NextSteps
    <3>3. seen[j] \in BookingStatus /\ status[j] \in BookingStatus
      BY <3>2 DEF TypeOK
    <3> QED
      BY <3>1, <3>2, <3>3, OfferedIsReady DEF SeenInv
  <2> QED
    BY <2>1, <2>2
<1> QED
  BY <1>4, <1>5, <1>6

LEMMA CallServedStep ==
  ASSUME Inv, CallServed
  PROVE  Inv'
<1> USE DEF Inv
<1>1. PICK at \in {"ok", "refused"} : Serve(call.id, at) /\ call' = [call EXCEPT !.at = at]
  BY DEF CallServed
<1>2. call \in Request /\ call.id \in Made
      /\ UNCHANGED <<seen, act, acked, outbox, flush, overlapped>>
  BY Present DEF CallServed, TypeOK
<1>3. Served(call.id, at = "ok") /\ UNCHANGED late
  BY <1>1, <1>2, ServeServes
<1>4. /\ SeenInv' /\ ReadyInv' /\ Made' = Made
      /\ applied \subseteq applied' /\ applied' \subseteq Made
  BY <1>2, <1>3, AfterServing
<1>5. call' \in Request /\ call'.id = call.id /\ call'.at = at
  BY <1>1, <1>2 DEF Request
<1>6. TypeOK'
  BY <1>2, <1>3, <1>4, <1>5 DEF TypeOK, Served, Flushing
<1>7. AnswerInv' /\ KeptInv' /\ LossNeedsAnOverlap'
  BY <1>2, <1>3, <1>4, <1>5 DEF AnswerInv, KeptInv, LossNeedsAnOverlap, Flushing, Served
<1> QED
  BY <1>4, <1>6, <1>7

LEMMA CallFailsStep ==
  ASSUME Inv, CallFails
  PROVE  Inv'
<1> USE DEF Inv
<1>1. /\ call \in Request /\ call.id \in Made /\ call' = [call EXCEPT !.at = "failed"]
      /\ late' \in {late, late \cup {call.id}}
      /\ UNCHANGED <<status, report, applied, seen, act, acked, outbox, flush, overlapped>>
  BY Present DEF CallFails, Fail, server, TypeOK
<1>2. call' \in Request /\ call'.id = call.id /\ call'.at = "failed"
  BY <1>1 DEF Request
<1>3. TypeOK'
  BY <1>1, <1>2 DEF TypeOK, Made, Flushing
<1>4. AnswerInv' /\ KeptInv' /\ LossNeedsAnOverlap' /\ SeenInv' /\ ReadyInv'
  BY <1>1, <1>2
  DEF AnswerInv, KeptInv, LossNeedsAnOverlap, SeenInv, ReadyInv, Made, Flushing
<1> QED
  BY <1>3, <1>4

\* The screen may be told to fetch a job again.
LEMMA InvalidatedSeen ==
  ASSUME TypeOK, SeenInv, NEW i, seen' = Invalidated(i), UNCHANGED status
  PROVE  SeenInv' /\ seen' \in [Jobs -> BookingStatus \cup {"UNKNOWN"}]
BY DEF Invalidated, SeenInv, TypeOK

LEMMA CallSucceedsStep ==
  ASSUME Inv, CallSucceeds
  PROVE  Inv'
<1> USE DEF Inv
<1>1. /\ call.id \in Made /\ call.id \in applied
      /\ acked' = acked \cup {call.id} /\ seen' = Invalidated(call.id) /\ call' = NoRequest
      /\ UNCHANGED <<status, report, applied, act, outbox, flush, late, overlapped>>
  BY Present DEF CallSucceeds, server, TypeOK, AnswerInv
<1>2. SeenInv' /\ seen' \in [Jobs -> BookingStatus \cup {"UNKNOWN"}]
  BY <1>1, InvalidatedSeen
<1>3. TypeOK'
  BY <1>1, <1>2 DEF TypeOK, Made, Flushing
<1>4. AnswerInv' /\ KeptInv' /\ LossNeedsAnOverlap' /\ ReadyInv'
  BY <1>1, Present DEF AnswerInv, KeptInv, LossNeedsAnOverlap, ReadyInv, Made, Flushing
<1> QED
  BY <1>2, <1>3, <1>4

LEMMA CallRefusedStep ==
  ASSUME Inv, CallRefused
  PROVE  Inv'
<1> USE DEF Inv
<1>1. /\ call' = NoRequest
      /\ UNCHANGED <<server, seen, act, acked, outbox, flush, late, overlapped>>
  BY DEF CallRefused
<1>2. TypeOK'
  BY <1>1 DEF TypeOK, Made, Flushing, server
<1>3. AnswerInv' /\ KeptInv' /\ LossNeedsAnOverlap' /\ SeenInv' /\ ReadyInv'
  BY <1>1, Present
  DEF AnswerInv, KeptInv, LossNeedsAnOverlap, SeenInv, ReadyInv, Made, Flushing, server
<1> QED
  BY <1>2, <1>3

LEMMA EnqueueStep ==
  ASSUME Inv, Enqueue
  PROVE  Inv'
<1> USE DEF Inv
<1>1. /\ call.id \in Made
      /\ outbox' = outbox \cup {call.id} /\ acked' = acked \cup {call.id}
      /\ overlapped \subseteq overlapped' /\ overlapped' \subseteq overlapped \cup {call.id}
      /\ Flushing # {} => call.id \in overlapped'
      /\ seen' = Invalidated(call.id) /\ call' = NoRequest
      /\ UNCHANGED <<status, report, applied, act, flush, late>>
  BY Present DEF Enqueue, server, TypeOK
<1>2. SeenInv' /\ seen' \in [Jobs -> BookingStatus \cup {"UNKNOWN"}]
  BY <1>1, InvalidatedSeen
<1>3. TypeOK'
  BY <1>1, <1>2 DEF TypeOK, Made, Flushing
<1>4. KeptInv'
  BY <1>1 DEF KeptInv, Flushing
<1>5. AnswerInv' /\ LossNeedsAnOverlap' /\ ReadyInv'
  BY <1>1, Present DEF AnswerInv, LossNeedsAnOverlap, ReadyInv, Made
<1> QED
  BY <1>2, <1>3, <1>4, <1>5

LEMMA RefreshStep ==
  ASSUME Inv, NEW j \in Jobs, Refresh(j)
  PROVE  Inv'
<1> USE DEF Inv
<1>1. /\ seen' = [seen EXCEPT ![j] = status[j]]
      /\ UNCHANGED <<server, act, call, acked, outbox, flush, late, overlapped>>
  BY DEF Refresh
<1>2. TypeOK'
  BY <1>1 DEF TypeOK, Made, Flushing, server
<1>3. AnswerInv' /\ KeptInv' /\ LossNeedsAnOverlap' /\ SeenInv' /\ ReadyInv'
  BY <1>1
  DEF TypeOK, AnswerInv, KeptInv, LossNeedsAnOverlap, SeenInv, ReadyInv, Made, Flushing, server
<1> QED
  BY <1>2, <1>3

\* A flush that starts or goes on with the request for action i.
LEMMA SendsType ==
  ASSUME TypeOK, NEW left \in SUBSET Made, NEW i \in left
  PROVE  /\ [left |-> left, id |-> i, at |-> "sent"] \in Flush
         /\ [left |-> left, id |-> i, at |-> "sent"] # NoFlush
BY MadeType DEF Flush, NoFlush, Made

LEMMA BeginFlushStep ==
  ASSUME Inv, NEW f \in Flushes, BeginFlush(f)
  PROVE  Inv'
<1> USE DEF Inv
<1>1. PICK i \in outbox :
        flush' = [flush EXCEPT ![f] = [left |-> outbox, id |-> i, at |-> "sent"]]
  BY DEF BeginFlush
<1>2. UNCHANGED <<status, report, applied, seen, act, call, acked, outbox, late, overlapped>>
  BY DEF BeginFlush, server, app
<1>3. outbox \in SUBSET Made
  BY DEF TypeOK
<1>4. [left |-> outbox, id |-> i, at |-> "sent"] \in Flush
      /\ [left |-> outbox, id |-> i, at |-> "sent"] # NoFlush
  BY <1>3, SendsType
<1>5. flush'[f] = [left |-> outbox, id |-> i, at |-> "sent"]
      /\ flush' \in [Flushes -> Flush \cup {NoFlush}]
      /\ \A g \in Flushes \ {f} : flush'[g] = flush[g]
  BY <1>1, <1>4 DEF TypeOK
<1>6. Flushing' = Flushing \cup {f}
  BY <1>4, <1>5 DEF Flushing
<1>7. TypeOK'
  BY <1>2, <1>3, <1>5, <1>6 DEF TypeOK, Made, Flushing
<1>8. KeptInv'
  BY <1>2, <1>5, <1>6 DEF KeptInv, LossNeedsAnOverlap, Flushing
<1>9. AnswerInv' /\ LossNeedsAnOverlap' /\ SeenInv' /\ ReadyInv'
  BY <1>2, <1>5 DEF AnswerInv, LossNeedsAnOverlap, SeenInv, ReadyInv, Made
<1> QED
  BY <1>7, <1>8, <1>9

LEMMA FlushServedStep ==
  ASSUME Inv, NEW f \in Flushes, FlushServed(f)
  PROVE  Inv'
<1> USE DEF Inv
<1>1. PICK at \in {"ok", "refused"} :
        Serve(flush[f].id, at) /\ flush' = [flush EXCEPT ![f].at = at]
  BY DEF FlushServed
<1>2. f \in Flushing /\ flush[f] \in Flush /\ flush[f].id \in Made
      /\ UNCHANGED <<seen, act, call, acked, outbox, overlapped>>
  BY Present DEF FlushServed, TypeOK, app, Flushing
<1>3. Served(flush[f].id, at = "ok") /\ UNCHANGED late
  BY <1>1, <1>2, ServeServes
<1>4. /\ SeenInv' /\ ReadyInv' /\ Made' = Made
      /\ applied \subseteq applied' /\ applied' \subseteq Made
  BY <1>2, <1>3, AfterServing
<1>5. /\ flush'[f] \in Flush /\ flush'[f] # NoFlush /\ flush'[f].at = at
      /\ flush'[f].id = flush[f].id /\ flush'[f].left = flush[f].left
      /\ \A g \in Flushes \ {f} : flush'[g] = flush[g]
      /\ flush' \in [Flushes -> Flush \cup {NoFlush}]
  BY <1>1, <1>2 DEF Flush, NoFlush, TypeOK
<1>6. Flushing' = Flushing
  BY <1>2, <1>5 DEF Flushing
<1>7. TypeOK'
  BY <1>2, <1>3, <1>4, <1>5, <1>6 DEF TypeOK, Served, Flushing
<1>8. AnswerInv' /\ KeptInv' /\ LossNeedsAnOverlap'
  BY <1>2, <1>3, <1>4, <1>5, <1>6 DEF AnswerInv, KeptInv, LossNeedsAnOverlap, Flushing, Served
<1> QED
  BY <1>4, <1>7, <1>8

LEMMA FlushFailsStep ==
  ASSUME Inv, NEW f \in Flushes, FlushFails(f)
  PROVE  Inv'
<1> USE DEF Inv
<1>1. /\ f \in Flushing /\ flush[f] \in Flush /\ flush[f].id \in Made
      /\ flush' = [flush EXCEPT ![f].at = "failed"]
      /\ late' \in {late, late \cup {flush[f].id}}
      /\ UNCHANGED <<status, report, applied, seen, act, call, acked, outbox, overlapped>>
  BY Present DEF FlushFails, Fail, TypeOK, app, server, Flushing
<1>2. /\ flush'[f] \in Flush /\ flush'[f] # NoFlush /\ flush'[f].at = "failed"
      /\ flush'[f].id = flush[f].id /\ flush'[f].left = flush[f].left
      /\ \A g \in Flushes \ {f} : flush'[g] = flush[g]
      /\ flush' \in [Flushes -> Flush \cup {NoFlush}]
  BY <1>1 DEF Flush, NoFlush, TypeOK
<1>3. Flushing' = Flushing
  BY <1>1, <1>2 DEF Flushing
<1>4. TypeOK'
  BY <1>1, <1>2, <1>3 DEF TypeOK, Made, Flushing
<1>5. AnswerInv' /\ KeptInv' /\ LossNeedsAnOverlap' /\ SeenInv' /\ ReadyInv'
  BY <1>1, <1>2, <1>3
  DEF AnswerInv, KeptInv, LossNeedsAnOverlap, SeenInv, ReadyInv, Made, Flushing
<1> QED
  BY <1>4, <1>5

\* The one step that takes something out of the queue: what the list lacks was carried
\* out, was queued since, or is the action the server has just answered for.
LEMMA FlushAdvancesStep ==
  ASSUME Inv, NEW f \in Flushes, FlushAdvances(f)
  PROVE  Inv'
<1> USE DEF Inv
<1> DEFINE left == flush[f].left \ {flush[f].id}
<1>1. /\ f \in Flushing /\ flush[f] \in Flush /\ flush[f].id \in applied
      /\ outbox' = left /\ left \in SUBSET Made
      /\ UNCHANGED <<status, report, applied, seen, act, call, acked, late, overlapped>>
  BY Present DEF FlushAdvances, AnswerInv, TypeOK, app, server, Flushing
<1>2. acked \subseteq applied \cup left \cup overlapped
  BY <1>1 DEF KeptInv
<1>3. \/ flush' = [flush EXCEPT ![f] = NoFlush]
      \/ \E i \in left : flush' = [flush EXCEPT ![f] = [left |-> left, id |-> i, at |-> "sent"]]
  BY DEF FlushAdvances
<1>4. /\ \A g \in Flushes \ {f} : flush'[g] = flush[g]
      /\ flush' \in [Flushes -> Flush \cup {NoFlush}]
      /\ \/ flush'[f] = NoFlush
         \/ /\ flush'[f].left = left /\ flush'[f].id \in left /\ flush'[f].at = "sent"
  <2>1. CASE flush' = [flush EXCEPT ![f] = NoFlush]
    BY <2>1 DEF TypeOK
  <2>2. ASSUME NEW i \in left,
               flush' = [flush EXCEPT ![f] = [left |-> left, id |-> i, at |-> "sent"]]
        PROVE  /\ \A g \in Flushes \ {f} : flush'[g] = flush[g]
               /\ flush' \in [Flushes -> Flush \cup {NoFlush}]
               /\ flush'[f] = [left |-> left, id |-> i, at |-> "sent"]
    <3>1. [left |-> left, id |-> i, at |-> "sent"] \in Flush
      BY <1>1, SendsType
    <3> HIDE DEF left
    <3> QED
      BY <2>2, <3>1 DEF TypeOK
  <2> QED
    BY <1>3, <2>1, <2>2
<1> HIDE DEF left
<1>5. Flushing' \subseteq Flushing
  BY <1>1, <1>4 DEF Flushing
<1>6. TypeOK'
  BY <1>1, <1>4, <1>5 DEF TypeOK, Made, Flushing
<1>7. KeptInv'
  BY <1>1, <1>2, <1>4, <1>5 DEF KeptInv, Flushing
<1>8. AnswerInv'
  BY <1>1, <1>4, Present DEF AnswerInv
<1>9. LossNeedsAnOverlap' /\ SeenInv' /\ ReadyInv'
  BY <1>1, <1>2 DEF LossNeedsAnOverlap, SeenInv, ReadyInv, Made
<1> QED
  BY <1>6, <1>7, <1>8, <1>9

LEMMA FlushStopsStep ==
  ASSUME Inv, NEW f \in Flushes, FlushStops(f)
  PROVE  Inv'
<1> USE DEF Inv
<1>1. /\ flush' = [flush EXCEPT ![f] = NoFlush]
      /\ UNCHANGED <<status, report, applied, seen, act, call, acked, outbox, late, overlapped>>
  BY DEF FlushStops, app, server
<1>2. Flushing' = Flushing \ {f} /\ \A g \in Flushes \ {f} : flush'[g] = flush[g]
  BY <1>1 DEF Flushing, TypeOK
<1>3. TypeOK'
  BY <1>1, <1>2 DEF TypeOK, Made, Flushing
<1>4. AnswerInv' /\ KeptInv' /\ LossNeedsAnOverlap' /\ SeenInv' /\ ReadyInv'
  BY <1>1, <1>2, Present
  DEF TypeOK, AnswerInv, KeptInv, LossNeedsAnOverlap, SeenInv, ReadyInv, Made, Flushing
<1> QED
  BY <1>3, <1>4

\* What the app still waits for may arrive without it.
LEMMA KillStep ==
  ASSUME Inv, Kill
  PROVE  Inv'
<1> USE DEF Inv
<1>1. /\ call' = NoRequest /\ flush' = [f \in Flushes |-> NoFlush]
      /\ seen' = [j \in Jobs |-> "UNKNOWN"]
      /\ UNCHANGED <<status, report, applied, act, acked, outbox, overlapped>>
  BY DEF Kill, server
<1>2. late' \subseteq Made
  <2>1. \A i \in Ids : call.id = i /\ call.at = "sent" => i \in Made
    BY Present DEF TypeOK
  <2>2. \A i \in Ids, f \in Flushes : flush[f].id = i /\ flush[f].at = "sent" => i \in Made
    BY Present DEF TypeOK, Flushing
  <2> QED
    BY <2>1, <2>2 DEF Kill, TypeOK
<1>3. Flushing' = {}
  BY <1>1 DEF Flushing
<1>4. TypeOK'
  BY <1>1, <1>2, <1>3 DEF TypeOK, Made
<1>5. AnswerInv' /\ KeptInv' /\ LossNeedsAnOverlap' /\ SeenInv' /\ ReadyInv'
  BY <1>1, <1>3, Present
  DEF AnswerInv, KeptInv, LossNeedsAnOverlap, SeenInv, ReadyInv, Made
<1> QED
  BY <1>4, <1>5

LEMMA NextInv == Inv /\ [Next]_vars => Inv'
<1> SUFFICES ASSUME Inv, [Next]_vars
             PROVE  Inv'
  OBVIOUS
<1>1. CASE UNCHANGED vars
  BY <1>1 DEF vars, Inv, TypeOK, AnswerInv, KeptInv, LossNeedsAnOverlap, SeenInv, ReadyInv,
              Made, Flushing
<1>2. CASE Next
  <2>1. ASSUME NEW j \in Jobs, NEW what \in Steps \cup {"REPORT"}, Tap(j, what)
        PROVE  Inv'
    BY <2>1, TapStep
  <2>2. ASSUME NEW j \in Jobs, NEW next \in BookingStatus, OfficeMoves(j, next)
        PROVE  Inv'
    BY <2>2, OfficeStep
  <2>3. ASSUME NEW j \in Jobs, Refresh(j)
        PROVE  Inv'
    BY <2>3, RefreshStep
  <2>4. CASE AppStep
    BY <2>4, CallServedStep, CallSucceedsStep, CallRefusedStep, EnqueueStep DEF AppStep
  <2>5. CASE CallFails \/ Kill
    BY <2>5, CallFailsStep, KillStep
  <2>6. ASSUME NEW i \in Ids, ServeLate(i)
        PROVE  Inv'
    BY <2>6, ServeLateStep
  <2>7. ASSUME NEW f \in Flushes, BeginFlush(f) \/ FlushStep(f) \/ FlushFails(f)
        PROVE  Inv'
    BY <2>7, BeginFlushStep, FlushServedStep, FlushAdvancesStep, FlushStopsStep, FlushFailsStep
    DEF FlushStep
  <2> QED
    BY <1>2, <2>1, <2>2, <2>3, <2>4, <2>5, <2>6, <2>7 DEF Next
<1> QED
  BY <1>1, <1>2

LEMMA InvHolds == Spec => []Inv
BY InitInv, NextInv, PTL DEF Spec

-----------------------------------------------------------------------------
(* Theorems.                                                               *)

\* Every queue holds actions that were made, and a flush sends one of those it has.
THEOREM TypeCorrect == Spec => []TypeOK
<1>1. Inv => TypeOK
  BY DEF Inv
<1> QED
  BY <1>1, InvHolds, PTL

\* What the technician was told is done is carried out, queued, or was queued beside a
\* running flush, however many flushes overlap and whatever the network does.
THEOREM NothingElseLost == Spec => []LossNeedsAnOverlap
<1>1. Inv => LossNeedsAnOverlap
  BY DEF Inv
<1> QED
  BY <1>1, InvHolds, PTL

\* A step the server refuses is one the booking has been through or was closed before,
\* for any jobs in any status.
THEOREM NeverTooEarly == Spec => []RefusedIsPassed
<1>1. Inv => RefusedIsPassed
  <2> SUFFICES ASSUME Inv, NEW i \in outbox, act[i].what \in Steps
               PROVE  Accepts(i) \/ Rank[act[i].what] <= Rank[status[act[i].job]]
    BY DEF RefusedIsPassed
  <2>1. i \in Made /\ act[i].what # "REPORT"
    BY DEF Inv, TypeOK, Steps
  <2> QED
    BY <2>1 DEF Inv, ReadyInv, Ready, Accepts
<1> QED
  BY <1>1, InvHolds, PTL
=============================================================================
